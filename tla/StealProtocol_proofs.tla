------------------------ MODULE StealProtocol_proofs -------------------------
(* Theorems about StealProtocol, for every set of requests, stealers and     *)
(* donors and every budget.                                                  *)
EXTENDS StealProtocol, TLAPS

------------------------------------------------------------------------------
(* Typing.  A worker that is not idle has a message, which the types alone   *)
(* do not say and every step of a handler relies on.                         *)

Busy  == \A s \in Stealers : worker[s].pc # "idle" => worker[s].msg \in Requests
Typed == TypeOK /\ Busy

LEMMA KeyType == ASSUME NEW r \in Requests PROVE Key(r) \in Keys /\ PodOf[r] \in Pods
  BY RequestsAssumption DEF Key, Keys

LEMMA NonRequest == None \notin Requests
  BY RequestsAssumption

\* What the helpers do to the types of the variables they set.
LEMMA SpendType == ASSUME Typed, NEW kind \in Kinds, Spend(kind)
                   PROVE  left' \in [Kinds -> Nat]
  BY DEF Spend, Typed, TypeOK

LEMMA DecideType == ASSUME Typed, NEW r \in Requests, NEW who \in Answers, Decide(r, who)
                    PROVE  req' \in [Requests -> Handler]
<1>1. req \in [Requests -> Handler] /\ "decided" \in HandlerPCs
  BY DEF Typed, TypeOK, HandlerPCs
<1> QED BY <1>1 DEF Decide, Handler

LEMMA PutType == ASSUME Typed, NEW r \in Requests, PutOffer(r)
                 PROVE  kv' \in [Keys -> StealerDetails]
<1>1. kv \in [Keys -> StealerDetails] /\ Pending \in Owners /\ Key(r) \in Keys
  BY KeyType DEF Typed, TypeOK, Owners
<1> QED BY <1>1 DEF PutOffer, StealerDetails

LEMMA WriteType == ASSUME Typed, NEW s \in Stealers, Msg(s) \in Requests,
                          NEW fqdn \in BOOLEAN, WriteOwn(s, fqdn)
                   PROVE  kv' \in [Keys -> StealerDetails]
<1>1. kv \in [Keys -> StealerDetails] /\ s \in Owners /\ Key(Msg(s)) \in Keys
  BY KeyType DEF Typed, TypeOK, Owners
<1> QED BY <1>1 DEF WriteOwn, StealerDetails

LEMMA MessageType == ASSUME Typed, NEW m \in Requests, Ack(m) \/ Nak(m)
                     PROVE  stream' \in [Requests -> MessageStates]
  BY DEF Typed, TypeOK, Ack, Nak, MessageStates

LEMMA AckType == ASSUME Typed, NEW m \in Requests, Ack(m)
                 PROVE  stream' \in [Requests -> MessageStates] /\ left' \in [Kinds -> Nat]
<1>1. left' \in [Kinds -> Nat]
  BY SpendType DEF Ack, Fault, Free, Kinds, Typed, TypeOK
<1> QED BY <1>1, MessageType

LEMMA IdleType == Idle \in WorkerState /\ Idle.pc = "idle"
  BY BoundsAssumption DEF Idle, WorkerState, WorkerPCs

LEMMA ReturnType == ASSUME Typed, NEW s \in Stealers, Return(s)
                    PROVE  worker' \in [Stealers -> WorkerState] /\ Busy'
  BY IdleType DEF Typed, TypeOK, Busy, Return

\* A handler that goes on keeps its message.
LEMMA WorkerType ==
  ASSUME Typed, NEW s \in Stealers, Msg(s) \in Requests, NEW w \in WorkerState,
         w.msg = Msg(s), worker' = [worker EXCEPT ![s] = w]
  PROVE  worker' \in [Stealers -> WorkerState] /\ Busy'
  BY DEF Typed, TypeOK, Busy, Msg

LEMMA GotoType == ASSUME Typed, NEW s \in Stealers, Msg(s) \in Requests,
                         NEW pc \in WorkerPCs, Goto(s, pc)
                  PROVE  worker' \in [Stealers -> WorkerState] /\ Busy'
<1>1. worker[s] \in WorkerState
  BY DEF Typed, TypeOK
<1>2. [worker[s] EXCEPT !.pc = pc] \in WorkerState /\ [worker[s] EXCEPT !.pc = pc].msg = Msg(s)
  BY <1>1 DEF WorkerState, Msg
<1>3. worker' = [worker EXCEPT ![s] = [worker[s] EXCEPT !.pc = pc]]
  BY DEF Goto
<1> QED BY <1>2, <1>3, WorkerType

LEMMA StolenType == ASSUME Typed, NEW s \in Stealers, Msg(s) \in Requests,
                           NEW running \in BOOLEAN, Stolen(s, running)
                    PROVE  worker' \in [Stealers -> WorkerState] /\ Busy'
<1> DEFINE pc == IF worker[s].again THEN "reack"
                 ELSE IF running /\ Msg(s) \in Exposing THEN "expose" ELSE "publish"
<1>1. pc \in WorkerPCs
  BY DEF WorkerPCs
<1>2. Goto(s, pc)
  BY DEF Goto, Stolen
<1> QED BY <1>1, <1>2, GotoType

LEMMA PodType == ASSUME Typed, NEW s \in Stealers, NEW p \in Pods, NEW pod \in StolenPod,
                        spod' = [spod EXCEPT ![s][p] = pod]
                 PROVE  spod' \in [Stealers -> [Pods -> StolenPod]]
  BY DEF Typed, TypeOK

LEMMA MakePodType == ASSUME Typed, NEW s \in Stealers, Msg(s) \in Requests, MakePod(s)
                     PROVE  /\ spod' \in [Stealers -> [Pods -> StolenPod]]
                            /\ ran' \in [Requests -> SUBSET Stealers]
<1>1. [req |-> Msg(s), phase |-> "Pending"] \in StolenPod
  BY DEF StolenPod
<1>2. spod' \in [Stealers -> [Pods -> StolenPod]]
  BY <1>1, KeyType, PodType DEF MakePod
<1>3. ran' \in [Requests -> SUBSET Stealers]
  BY DEF MakePod, Typed, TypeOK
<1> QED BY <1>2, <1>3

LEMMA TakeOfferType == ASSUME Typed, NEW s \in Stealers, Msg(s) \in Requests, TakeOffer(s)
                       PROVE  /\ kv' \in [Keys -> StealerDetails]
                              /\ won' \in [Requests -> SUBSET Stealers]
<1>1. kv' \in [Keys -> StealerDetails]
  BY WriteType DEF TakeOffer
<1>2. won' \in [Requests -> SUBSET Stealers]
  BY DEF TakeOffer, Typed, TypeOK
<1> QED BY <1>1, <1>2

LEMMA TypedInit == Init => Typed
<1> SUFFICES ASSUME Init PROVE Typed
  OBVIOUS
<1>1. req \in [Requests -> Handler]
  BY DEF Init, Handler, HandlerPCs, Answers
<1>2. kv \in [Keys -> StealerDetails]
  BY DEF Init, StealerDetails, Owners
<1>3. worker \in [Stealers -> WorkerState] /\ Busy
  BY IdleType DEF Init, Busy
<1>4. spod \in [Stealers -> [Pods -> StolenPod]]
  BY DEF Init, NoPod, StolenPod
<1>5. stream \in [Requests -> MessageStates]
  BY DEF Init, MessageStates
<1>6. inbox \in [Stealers -> Seq(Requests)]
  BY DEF Init
<1> QED BY <1>1, <1>2, <1>3, <1>4, <1>5, <1>6, BoundsAssumption DEF Init, Typed, TypeOK

\* The webhook's handlers.
LEMMA TypedHandler == ASSUME Typed, NEW r \in Requests, HandlerStep(r) PROVE Typed'
<1> USE DEF brokerVars, clusterVars, historyVars, Free, Busy
<1> Local \in Answers /\ \A s \in Stealers : s \in Answers
  BY DEF Answers
<1>0. req \in [Requests -> Handler]
  BY DEF Typed, TypeOK
<1>1. CASE PassThrough(r)
  BY <1>1, DecideType DEF PassThrough, Typed, TypeOK
<1>2. CASE ConnectFails(r)
  BY <1>2, DecideType, SpendType DEF ConnectFails, Typed, TypeOK, Kinds
<1>3. CASE PutPending(r)
  <2>1. kv' \in [Keys -> StealerDetails]
    BY <1>3, PutType DEF PutPending
  <2>2. "offered" \in HandlerPCs /\ kv[Key(r)].rev + 1 \in Nat
    BY KeyType DEF Typed, TypeOK, HandlerPCs, StealerDetails
  <2>3. req' \in [Requests -> Handler]
    BY <1>0, <1>3, <2>2 DEF PutPending, Handler
  <2> QED BY <1>3, <2>1, <2>3 DEF PutPending, Typed, TypeOK
<1>4. CASE PutFails(r)
  BY <1>4, DecideType, SpendType, PutType DEF PutFails, Fault, Typed, TypeOK, Kinds
<1>5. CASE LabelPanic(r)
  <2>1. "done" \in HandlerPCs
    BY DEF HandlerPCs
  <2>2. req' \in [Requests -> Handler]
    BY <1>0, <1>5, <2>1 DEF LabelPanic, Handler
  <2> QED BY <1>5, <2>2 DEF LabelPanic, Typed, TypeOK
<1>6. CASE PublishOffer(r)
  <2>1. "waiting" \in HandlerPCs /\ "ready" \in MessageStates
    BY DEF HandlerPCs, MessageStates
  <2>2. req' \in [Requests -> Handler]
    BY <1>0, <1>6, <2>1 DEF PublishOffer, Handler
  <2>3. stream' \in [Requests -> MessageStates]
    BY <1>6, <2>1 DEF PublishOffer, Typed, TypeOK
  <2> QED BY <1>6, <2>2, <2>3 DEF PublishOffer, Typed, TypeOK
<1>7. CASE PublishFails(r)
  <2>1. stream' \in [Requests -> MessageStates]
    BY <1>7 DEF PublishFails, Typed, TypeOK, MessageStates
  <2> QED BY <1>7, <2>1, DecideType, SpendType DEF PublishFails, Fault, Typed, TypeOK, Kinds
<1>8. CASE PollStolen(r)
  <2>1. kv[Key(r)].owner \in Answers
    BY KeyType DEF Typed, TypeOK, StealerDetails, Owners, Answers
  <2> QED BY <1>8, <2>1, DecideType DEF PollStolen, Typed, TypeOK
<1>9. CASE WaitExpires(r)
  BY <1>9, DecideType, SpendType DEF WaitExpires, Typed, TypeOK, Kinds
<1>10. CASE PollFails(r)
  BY <1>10, DecideType, SpendType DEF PollFails, Fault, Typed, TypeOK, Kinds
<1>11. CASE Respond(r)
  <2> DEFINE stored == req[r].open /\ dpod[Key(r)] = None
  <2>1. "done" \in HandlerPCs /\ stored \in BOOLEAN
    BY DEF HandlerPCs, Typed, TypeOK, Handler
  <2>2. req' = [req EXCEPT ![r].pc = "done", ![r].open = stored]
    BY <1>11 DEF Respond
  <2>3. req' \in [Requests -> Handler]
    <3> HIDE DEF stored
    <3> QED BY <1>0, <2>1, <2>2 DEF Handler
  <2>4. dpod' \in [Keys -> Requests \cup {None}]
    BY <1>11, KeyType DEF Respond, Typed, TypeOK
  <2> QED BY <1>11, <2>3, <2>4 DEF Respond, Typed, TypeOK
<1> QED BY <1>1, <1>2, <1>3, <1>4, <1>5, <1>6, <1>7, <1>8, <1>9, <1>10, <1>11 DEF HandlerStep

\* The environment: the API servers' patience, crashes, deletions, JetStream
\* and the kubelets.
LEMMA TypedEnvironment ==
  ASSUME Typed,
         \/ \E r \in Requests : WebhookTimeout(r) \/ AckWaitExpires(r)
         \/ \E d \in Donors : DonorCrash(d)
         \/ \E k \in Keys : DonorPodDeleted(k)
         \/ \E s \in Stealers : Crash(s)
         \/ \E r \in Requests, s \in Stealers : Deliver(r, s)
         \/ \E s \in Stealers, p \in Pods : PodStarts(s, p) \/ PodEnds(s, p) \/ PodDeleted(s, p)
  PROVE  Typed'
<1> USE DEF donorVars, brokerVars, clusterVars, historyVars, Free, Busy
<1>1. ASSUME NEW r \in Requests, WebhookTimeout(r) PROVE Typed'
  <2>1. req' \in [Requests -> Handler]
    BY <1>1 DEF WebhookTimeout, Typed, TypeOK, Handler
  <2> QED BY <1>1, <2>1, SpendType DEF WebhookTimeout, Typed, TypeOK, Kinds
<1>2. ASSUME NEW r \in Requests, AckWaitExpires(r) PROVE Typed'
  <2>1. stream' \in [Requests -> MessageStates]
    BY <1>2 DEF AckWaitExpires, Typed, TypeOK, MessageStates
  <2>2. left' \in [Kinds -> Nat]
    BY <1>2, SpendType DEF AckWaitExpires, Typed, TypeOK, Kinds
  <2> QED BY <1>2, <2>1, <2>2 DEF AckWaitExpires, Typed, TypeOK
<1>3. ASSUME NEW d \in Donors, DonorCrash(d) PROVE Typed'
  <2>0. req \in [Requests -> Handler] /\ "done" \in HandlerPCs
    BY DEF Typed, TypeOK, HandlerPCs
  <2>1. \A r \in Requests : [req[r] EXCEPT !.pc = "done", !.open = FALSE] \in Handler
    BY <2>0 DEF Handler
  <2>2. req' \in [Requests -> Handler]
    BY <1>3, <2>1 DEF DonorCrash, Typed, TypeOK
  <2> QED BY <1>3, <2>2, SpendType DEF DonorCrash, Typed, TypeOK, Kinds
<1>4. ASSUME NEW k \in Keys, DonorPodDeleted(k) PROVE Typed'
  BY <1>4, SpendType DEF DonorPodDeleted, Typed, TypeOK, Kinds
<1>5. ASSUME NEW s \in Stealers, Crash(s) PROVE Typed'
  <2>1. inbox' \in [Stealers -> Seq(Requests)]
    BY <1>5 DEF Crash, Typed, TypeOK
  <2> QED BY <1>5, <2>1, SpendType, ReturnType DEF Crash, Typed, TypeOK, Kinds
<1>6. ASSUME NEW r \in Requests, NEW s \in Stealers, Deliver(r, s) PROVE Typed'
  <2>1. inbox' \in [Stealers -> Seq(Requests)]
    BY <1>6 DEF Deliver, Typed, TypeOK
  <2>2. stream' \in [Requests -> MessageStates]
    BY <1>6 DEF Deliver, Typed, TypeOK, MessageStates
  <2> QED BY <1>6, <2>1, <2>2 DEF Deliver, Typed, TypeOK
<1>7. ASSUME NEW s \in Stealers, NEW p \in Pods,
             PodStarts(s, p) \/ PodEnds(s, p) \/ PodDeleted(s, p) PROVE Typed'
  <2>0. spod[s][p] \in StolenPod
    BY DEF Typed, TypeOK
  <2>1. /\ NoPod \in StolenPod
        /\ [spod[s][p] EXCEPT !.phase = "Running"] \in StolenPod
        /\ [spod[s][p] EXCEPT !.phase = "Succeeded"] \in StolenPod
    BY <2>0 DEF StolenPod, NoPod
  <2>2. spod' \in [Stealers -> [Pods -> StolenPod]]
    BY <1>7, <2>1, PodType DEF PodStarts, PodEnds, PodDeleted, SetPod
  <2>3. left' \in [Kinds -> Nat]
    BY <1>7, SpendType DEF PodStarts, PodEnds, PodDeleted, Typed, TypeOK, Kinds
  <2> QED BY <1>7, <2>2, <2>3 DEF PodStarts, PodEnds, PodDeleted, SetPod, Typed, TypeOK
<1> QED BY <1>1, <1>2, <1>3, <1>4, <1>5, <1>6, <1>7

\* The workers.
LEMMA TypedWorker == ASSUME Typed, NEW s \in Stealers, WorkerStep(s) PROVE Typed'
<1> USE DEF donorVars, brokerVars, clusterVars, historyVars, Free
<1> "fault" \in Kinds
  BY DEF Kinds
<1> /\ "claim" \in WorkerPCs /\ "create" \in WorkerPCs /\ "ack" \in WorkerPCs
    /\ "wait" \in WorkerPCs /\ "publish" \in WorkerPCs /\ "read" \in WorkerPCs
  BY DEF WorkerPCs
<1> worker[s] \in WorkerState /\ (worker[s].pc # "idle" => Msg(s) \in Requests)
  BY DEF Typed, TypeOK, Busy, Msg
<1>1. CASE CheckPod(s)
  <2> DEFINE m == Head(inbox[s])
  <2>1. m \in Requests /\ inbox' \in [Stealers -> Seq(Requests)]
    BY <1>1 DEF CheckPod, Typed, TypeOK
  <2>2. stream' \in [Requests -> MessageStates]
    BY <1>1, <2>1, MessageType DEF CheckPod, Typed, TypeOK
  <2>3. [Idle EXCEPT !.pc = "read", !.msg = m] \in WorkerState
    BY <2>1, IdleType DEF WorkerState
  <2>4. worker' \in [Stealers -> WorkerState] /\ Busy'
    <3>1. [Idle EXCEPT !.pc = "read", !.msg = m].msg = m
      BY DEF Idle
    <3>2. CASE worker' = [worker EXCEPT ![s] = [Idle EXCEPT !.pc = "read", !.msg = m]]
      BY <2>1, <2>3, <3>1, <3>2 DEF Typed, TypeOK, Busy
    <3>3. CASE UNCHANGED worker
      BY <3>3 DEF Typed, TypeOK, Busy
    <3> QED BY <1>1, <3>2, <3>3 DEF CheckPod
  <2>5. left' \in [Kinds -> Nat]
    BY <1>1, SpendType DEF CheckPod, Fault, Typed, TypeOK
  <2> QED BY <1>1, <2>1, <2>2, <2>4, <2>5 DEF CheckPod, Typed, TypeOK
<1>2. CASE ReadOpen(s)
  <2>1. Msg(s) \in Requests
    BY <1>2 DEF ReadOpen, Reading
  <2>2. Entry(s).rev \in Nat
    BY <2>1, KeyType DEF Entry, Typed, TypeOK, StealerDetails
  <2> DEFINE w == [worker[s] EXCEPT !.pc = "claim", !.rev = Entry(s).rev]
  <2>3. w \in WorkerState /\ w.msg = Msg(s)
    BY <2>2 DEF WorkerState, Msg
  <2>4. worker' = [worker EXCEPT ![s] = w]
    BY <1>2 DEF ReadOpen
  <2>5. worker' \in [Stealers -> WorkerState] /\ Busy'
    BY <2>1, <2>3, <2>4, WorkerType
  <2> QED BY <1>2, <2>5 DEF ReadOpen, Reading, Typed, TypeOK
<1>3. CASE ReadOwn(s)
  <2> DEFINE w == [worker[s] EXCEPT !.pc = "create", !.again = TRUE]
  <2>3. w \in WorkerState /\ w.msg = Msg(s)
    BY DEF WorkerState, Msg
  <2>4. worker' = [worker EXCEPT ![s] = w]
    BY <1>3 DEF ReadOwn
  <2>5. worker' \in [Stealers -> WorkerState] /\ Busy'
    BY <1>3, <2>3, <2>4, WorkerType DEF ReadOwn, Reading
  <2> QED BY <1>3, <2>5 DEF ReadOwn, Reading, Typed, TypeOK
<1>4. CASE ReadTaken(s)
  BY <1>4, AckType, ReturnType DEF ReadTaken, Reading, Typed, TypeOK
<1>5. CASE ReadFails(s)
  BY <1>5, MessageType, ReturnType, SpendType DEF ReadFails, Fault, Reading, Typed, TypeOK
<1>6. CASE Claim(s)
  BY <1>6, TakeOfferType, GotoType DEF Claim, Claiming, Typed, TypeOK
<1>7. CASE LoseClaim(s)
  BY <1>7, GotoType DEF LoseClaim, Claiming, Typed, TypeOK
<1>8. CASE ClaimFails(s)
  <2> DEFINE w == [worker[s] EXCEPT !.pc = "ack", !.settled = TRUE]
  <2>1. w \in WorkerState /\ w.msg = Msg(s)
    BY DEF WorkerState, Msg
  <2>2. worker' = [worker EXCEPT ![s] = w]
    BY <1>8 DEF ClaimFails
  <2>3. worker' \in [Stealers -> WorkerState] /\ Busy'
    BY <1>8, <2>1, <2>2, WorkerType DEF ClaimFails, Claiming
  <2>4. kv' \in [Keys -> StealerDetails] /\ won' \in [Requests -> SUBSET Stealers]
    BY <1>8, TakeOfferType DEF ClaimFails, Claiming, Typed, TypeOK
  <2> QED BY <1>8, <2>3, <2>4, MessageType, SpendType
          DEF ClaimFails, Claiming, Fault, Typed, TypeOK
<1>9. CASE AckClaim(s)
  <2> DEFINE w == [worker[s] EXCEPT !.pc = "create", !.settled = TRUE]
  <2>1. w \in WorkerState /\ w.msg = Msg(s)
    BY DEF WorkerState, Msg
  <2>2. worker' = [worker EXCEPT ![s] = w]
    BY <1>9 DEF AckClaim
  <2>3. worker' \in [Stealers -> WorkerState] /\ Busy'
    BY <1>9, <2>1, <2>2, WorkerType DEF AckClaim
  <2>4. stream' \in [Requests -> MessageStates] /\ left' \in [Kinds -> Nat]
    BY <1>9, AckType DEF AckClaim, Typed, TypeOK
  <2> QED BY <1>9, <2>3, <2>4 DEF AckClaim, Typed, TypeOK
<1>10. CASE CreatePod(s)
  <2>1. worker' \in [Stealers -> WorkerState] /\ Busy'
    BY <1>10, GotoType, StolenType DEF CreatePod
  <2>2. /\ spod' \in [Stealers -> [Pods -> StolenPod]]
        /\ ran' \in [Requests -> SUBSET Stealers]
    BY <1>10, MakePodType DEF CreatePod, Typed, TypeOK
  <2>3. left' \in [Kinds -> Nat]
    BY <1>10, SpendType DEF CreatePod, Fault, Typed, TypeOK
  <2> QED BY <1>10, <2>1, <2>2, <2>3 DEF CreatePod, Typed, TypeOK
<1>11. CASE WaitRunning(s)
  <2>1. worker' \in [Stealers -> WorkerState] /\ Busy'
    BY <1>11, StolenType DEF WaitRunning
  <2>2. left' \in [Kinds -> Nat]
    BY <1>11, SpendType DEF WaitRunning, Fault, Typed, TypeOK
  <2> QED BY <1>11, <2>1, <2>2 DEF WaitRunning, Typed, TypeOK
<1>12. CASE AckAgain(s)
  BY <1>12, AckType, ReturnType DEF AckAgain, Typed, TypeOK
<1>13. CASE CreateService(s)
  <2>1. Msg(s) \in Requests /\ PodOf[Msg(s)] \in Pods
    BY <1>13, KeyType DEF CreateService
  <2>2. svc' \in [Stealers -> [Pods -> Requests \cup {None}]]
    <3>1. CASE AddService(s)
      BY <2>1, <3>1 DEF AddService, Typed, TypeOK
    <3>2. CASE UNCHANGED svc
      BY <3>2 DEF Typed, TypeOK
    <3> QED BY <1>13, <3>1, <3>2 DEF CreateService
  <2>3. worker' \in [Stealers -> WorkerState] /\ Busy'
    <3> "export" \in WorkerPCs
      BY DEF WorkerPCs
    <3> QED BY <1>13, <2>1, GotoType, ReturnType DEF CreateService
  <2>4. left' \in [Kinds -> Nat]
    BY <1>13, SpendType DEF CreateService, Fault, Typed, TypeOK
  <2> QED BY <1>13, <2>2, <2>3, <2>4 DEF CreateService, Typed, TypeOK
<1>17. CASE ExportService(s)
  <2>1. Msg(s) \in Requests /\ PodOf[Msg(s)] \in Pods
    BY <1>17, KeyType DEF ExportService
  <2>2. exports' \in [Stealers -> [Pods -> Requests \cup {None}]]
    <3>1. CASE AddExport(s)
      BY <2>1, <3>1 DEF AddExport, Typed, TypeOK
    <3>2. CASE UNCHANGED exports
      BY <3>2 DEF Typed, TypeOK
    <3> QED BY <1>17, <3>1, <3>2 DEF ExportService
  <2> DEFINE w == [worker[s] EXCEPT !.pc = "publish", !.exposed = TRUE]
  <2>3. w \in WorkerState /\ w.msg = Msg(s)
    BY DEF WorkerState, Msg
  <2>4. worker' \in [Stealers -> WorkerState] /\ Busy'
    <3>1. CASE worker' = [worker EXCEPT ![s] = w]
      BY <2>1, <2>3, <3>1, WorkerType
    <3>2. CASE Return(s)
      BY <3>2, ReturnType
    <3> HIDE DEF w
    <3> QED BY <1>17, <3>1, <3>2 DEF ExportService, w
  <2>5. left' \in [Kinds -> Nat]
    BY <1>17, SpendType DEF ExportService, Fault, Typed, TypeOK
  <2> QED BY <1>17, <2>2, <2>4, <2>5 DEF ExportService, Typed, TypeOK
<1>14. CASE PublishDetails(s)
  BY <1>14, WriteType, ReturnType DEF PublishDetails, Publishing, WorkerState, Typed, TypeOK
<1>15. CASE RetryPublish(s)
  <2>1. Msg(s) \in Requests /\ Entry(s).rev \in Nat
    BY <1>15, KeyType DEF RetryPublish, Publishing, Entry, Typed, TypeOK, StealerDetails
  <2> DEFINE w == [worker[s] EXCEPT !.rev = Entry(s).rev, !.tries = @ - 1]
  <2>2. CASE worker[s].tries = 1
    BY <1>15, <2>2, ReturnType DEF RetryPublish, Publishing, Typed, TypeOK
  <2>3. CASE worker[s].tries # 1
    <3>0. worker[s].tries - 1 \in 1..Tries
      BY <2>3, BoundsAssumption DEF WorkerState
    <3>1. w \in WorkerState /\ w.msg = Msg(s)
      BY <2>1, <3>0 DEF WorkerState, Msg
    <3>2. worker' = [worker EXCEPT ![s] = w]
      BY <1>15, <2>3 DEF RetryPublish
    <3> QED BY <1>15, <2>1, <3>1, <3>2, WorkerType DEF RetryPublish, Publishing, Typed, TypeOK
  <2> QED BY <2>2, <2>3
<1>16. CASE PublishDetailsFails(s)
  <2>1. kv' \in [Keys -> StealerDetails]
    BY <1>16, WriteType DEF PublishDetailsFails, Publishing, WorkerState, Typed, TypeOK
  <2> QED BY <1>16, <2>1, ReturnType, SpendType
          DEF PublishDetailsFails, Publishing, Fault, Typed, TypeOK
<1> QED BY <1>1, <1>2, <1>3, <1>4, <1>5, <1>6, <1>7, <1>8, <1>9, <1>10, <1>11, <1>12,
           <1>13, <1>14, <1>15, <1>16, <1>17 DEF WorkerStep

LEMMA TypedStep == Typed /\ [Next]_vars => Typed'
<1> SUFFICES ASSUME Typed, [Next]_vars PROVE Typed'
  OBVIOUS
<1>1. CASE UNCHANGED vars
  BY <1>1 DEF vars, Typed, TypeOK, Busy
<1>2. CASE Next
  BY <1>2, TypedHandler, TypedEnvironment, TypedWorker DEF Next, ProtocolStep
<1> QED BY <1>1, <1>2

\* Every variable keeps its type, whatever happens and however often.
THEOREM TypeCorrect == Spec => []TypeOK
<1>1. Typed => TypeOK
  BY DEF Typed
<1> QED BY <1>1, TypedInit, TypedStep, PTL DEF Spec

\* Whose step it is.  An admission request is moved by its own handler, by the
\* API server that gives up on it, or by the death of its webhook.
LEMMA RequestMoves ==
  ASSUME Typed, Next, NEW r \in Requests
  PROVE  \/ req'[r] = req[r]
         \/ HandlerStep(r)
         \/ Spend("giveup") /\ WebhookTimeout(r) /\ req'[r] = [req[r] EXCEPT !.open = FALSE]
         \/ /\ Spend("donorcrash") /\ req[r].pc \in {"offered", "waiting", "decided"}
            /\ req'[r] = [req[r] EXCEPT !.pc = "done", !.open = FALSE]
<1> USE DEF donorVars, brokerVars, clusterVars, historyVars
<1>1. req \in [Requests -> Handler]
  BY DEF Typed, TypeOK
<1>2. ASSUME NEW q \in Requests \ {r}, HandlerStep(q) \/ WebhookTimeout(q)
      PROVE  req'[r] = req[r]
  BY <1>1, <1>2 DEF HandlerStep, PassThrough, ConnectFails, PutPending, PutFails, LabelPanic,
     PublishOffer, PublishFails, PollStolen, WaitExpires, PollFails, Respond, WebhookTimeout,
     Decide
<1>3. CASE WebhookTimeout(r)
  BY <1>1, <1>3 DEF WebhookTimeout
<1>4. ASSUME NEW d \in Donors, DonorCrash(d)
      PROVE  \/ req'[r] = req[r]
             \/ /\ Spend("donorcrash") /\ req[r].pc \in {"offered", "waiting", "decided"}
                /\ req'[r] = [req[r] EXCEPT !.pc = "done", !.open = FALSE]
  BY <1>4 DEF DonorCrash
<1>5. ASSUME NEW s \in Stealers, WorkerStep(s) PROVE UNCHANGED req
  BY <1>5 DEF WorkerStep, CheckPod, Reading, ReadOpen, ReadOwn, ReadTaken, ReadFails,
     Claiming, Claim, LoseClaim, ClaimFails, AckClaim, CreatePod, WaitRunning, AckAgain,
     CreateService, ExportService, Publishing, PublishDetails, RetryPublish, PublishDetailsFails
<1> QED BY <1>2, <1>3, <1>4, <1>5
        DEF Next, ProtocolStep, AckWaitExpires, Deliver, DonorPodDeleted,
            PodStarts, PodEnds, PodDeleted, SetPod, Crash

\* A stealer's handler and buffer are moved by its worker, by its death, or by
\* a delivery.
LEMMA StealerMoves ==
  ASSUME Typed, Next, NEW s \in Stealers
  PROVE  \/ UNCHANGED <<worker[s], inbox[s]>>
         \/ WorkerStep(s)
         \/ Crash(s)
         \/ \E m \in Requests : /\ Deliver(m, s) /\ UNCHANGED worker
                                /\ inbox'[s] = Append(inbox[s], m)
<1> USE DEF donorVars, brokerVars, clusterVars, historyVars
<1>1. worker \in [Stealers -> WorkerState] /\ inbox \in [Stealers -> Seq(Requests)]
  BY DEF Typed, TypeOK
<1>2. ASSUME NEW r \in Requests, HandlerStep(r) PROVE UNCHANGED <<worker[s], inbox[s]>>
  BY <1>2 DEF HandlerStep, PassThrough, ConnectFails, PutPending, PutFails, LabelPanic,
     PublishOffer, PublishFails, PollStolen, WaitExpires, PollFails, Respond
<1>3. ASSUME NEW t \in Stealers \ {s}, WorkerStep(t) \/ Crash(t)
      PROVE  UNCHANGED <<worker[s], inbox[s]>>
  BY <1>1, <1>3 DEF WorkerStep, CheckPod, Reading, ReadOpen, ReadOwn, ReadTaken, ReadFails,
     Claiming, Claim, LoseClaim, ClaimFails, AckClaim, CreatePod, WaitRunning, AckAgain,
     CreateService, ExportService, Publishing, PublishDetails, RetryPublish,
     PublishDetailsFails, Goto, Stolen, Return, Crash
<1>4. ASSUME NEW m \in Requests, NEW t \in Stealers, Deliver(m, t)
      PROVE  \/ UNCHANGED <<worker[s], inbox[s]>>
             \/ t = s /\ UNCHANGED worker /\ inbox'[s] = Append(inbox[s], m)
  BY <1>1, <1>4 DEF Deliver
<1> QED BY <1>2, <1>3, <1>4
        DEF Next, ProtocolStep, WebhookTimeout, AckWaitExpires, DonorCrash, DonorPodDeleted,
            PodStarts, PodEnds, PodDeleted, SetPod

\* A handler that goes on keeps its message; a new one has the head of the
\* buffer, and only CheckPod takes anything out of that.
LEMMA WorkerMoves ==
  ASSUME Typed, NEW s \in Stealers, WorkerStep(s)
  PROVE  \/ /\ CheckPod(s) /\ inbox'[s] = Tail(inbox[s])
            /\ worker'[s] = worker[s] \/ (worker'[s].pc = "read" /\ Msg(s)' = Head(inbox[s]))
         \/ /\ worker[s].pc # "idle" /\ UNCHANGED inbox
            /\ Return(s) \/ (worker'[s].pc # "idle" /\ Msg(s)' = Msg(s))
<1> USE DEF donorVars, brokerVars, clusterVars, historyVars
<1>1. /\ worker \in [Stealers -> WorkerState] /\ inbox \in [Stealers -> Seq(Requests)]
      /\ worker[s] \in WorkerState
  BY DEF Typed, TypeOK
<1>2. CASE CheckPod(s)
  <2>1. inbox'[s] = Tail(inbox[s])
    BY <1>1, <1>2 DEF CheckPod
  <2>2. worker'[s] = worker[s] \/ (worker'[s].pc = "read" /\ worker'[s].msg = Head(inbox[s]))
    BY <1>1, <1>2 DEF CheckPod, Idle
  <2> QED BY <1>2, <2>1, <2>2 DEF Msg
<1>3. ASSUME ~CheckPod(s) PROVE worker[s].pc # "idle" /\ UNCHANGED inbox
  BY <1>3 DEF WorkerStep, Reading, ReadOpen, ReadOwn, ReadTaken, ReadFails,
     Claiming, Claim, LoseClaim, ClaimFails, AckClaim, CreatePod, WaitRunning, AckAgain,
     CreateService, ExportService, Publishing, PublishDetails, RetryPublish, PublishDetailsFails
<1>4. ASSUME ~CheckPod(s), ~Return(s) PROVE worker'[s].pc # "idle" /\ Msg(s)' = Msg(s)
  <2>1. CASE ReadOpen(s) \/ ReadOwn(s)
    BY <1>1, <2>1 DEF ReadOpen, ReadOwn, WorkerState, Msg
  <2>2. CASE Claim(s) \/ LoseClaim(s) \/ ClaimFails(s)
    BY <1>1, <2>2 DEF Claim, LoseClaim, ClaimFails, Goto, WorkerState, Msg
  <2>3. CASE AckClaim(s) \/ CreatePod(s) \/ WaitRunning(s)
    BY <1>1, <2>3 DEF AckClaim, CreatePod, WaitRunning, Goto, Stolen, WorkerState, Msg
  <2>4. CASE CreateService(s) \/ ExportService(s)
    BY <1>1, <1>4, <2>4 DEF CreateService, ExportService, Goto, WorkerState, Msg
  <2>5. CASE RetryPublish(s)
    BY <1>1, <1>4, <2>5 DEF RetryPublish, Publishing, WorkerState, Msg
  <2> QED BY <1>4, <2>1, <2>2, <2>3, <2>4, <2>5 DEF WorkerStep, ReadTaken, ReadFails, AckAgain,
             PublishDetails, PublishDetailsFails
<1> QED BY <1>2, <1>3, <1>4

\* A message enters the stream with its publication, and leaves it never: an
\* Ack, a Nak or a redelivery only moves it.
LEMMA MessageMoves ==
  ASSUME Typed, Next, NEW r \in Requests
  PROVE  \/ stream'[r] = stream[r]
         \/ (PublishOffer(r) \/ PublishFails(r)) /\ stream'[r] = "ready"
         \/ stream[r] # "none" /\ stream'[r] # "none"
         \/ /\ stream'[r] # "none"
            /\ \E s \in Stealers : /\ WorkerStep(s)
                                   /\ worker[s].pc # "idle" /\ Msg(s) = r
<1> USE DEF donorVars, brokerVars, clusterVars, historyVars
<1>1. stream \in [Requests -> MessageStates]
  BY DEF Typed, TypeOK
<1>2. ASSUME NEW q \in Requests, HandlerStep(q)
      PROVE  \/ stream'[r] = stream[r]
             \/ q = r /\ (PublishOffer(r) \/ PublishFails(r)) /\ stream'[r] = "ready"
  BY <1>1, <1>2 DEF HandlerStep, PassThrough, ConnectFails, PutPending, PutFails, LabelPanic,
     PublishOffer, PublishFails, PollStolen, WaitExpires, PollFails, Respond
<1>3. ASSUME NEW s \in Stealers, CheckPod(s)
      PROVE  stream'[r] = stream[r] \/ (stream[r] # "none" /\ stream'[r] # "none")
  BY <1>1, <1>3 DEF CheckPod, Nak
<1>4. ASSUME NEW s \in Stealers, WorkerStep(s), ~CheckPod(s), stream'[r] # stream[r]
      PROVE  \/ stream[r] # "none" /\ stream'[r] # "none"
             \/ stream'[r] # "none" /\ worker[s].pc # "idle" /\ Msg(s) = r
  BY <1>1, <1>4 DEF WorkerStep, Reading, ReadOpen, ReadOwn, ReadTaken, ReadFails,
     Claiming, Claim, LoseClaim, ClaimFails, AckClaim, CreatePod, WaitRunning, AckAgain,
     CreateService, ExportService, Publishing, PublishDetails, RetryPublish,
     PublishDetailsFails, Ack, Nak
<1>5. ASSUME NEW q \in Requests, AckWaitExpires(q) \/ \E s \in Stealers : Deliver(q, s)
      PROVE  stream'[r] = stream[r] \/ (stream[r] # "none" /\ stream'[r] # "none")
  BY <1>1, <1>5 DEF AckWaitExpires, Deliver
<1> QED BY <1>2, <1>3, <1>4, <1>5
        DEF Next, ProtocolStep, WebhookTimeout, DonorCrash, DonorPodDeleted,
            PodStarts, PodEnds, PodDeleted, SetPod, Crash

------------------------------------------------------------------------------
(* The protocol's invariant.  OfferNotLost says nothing about handlers and   *)
(* is not inductive.  What carries it is the order of revisions: an offer    *)
(* that the entry has moved past can never be open again, a handler that     *)
(* claims read an entry no older than the offer its message announces, and   *)
(* whoever may still acknowledge a message knows its offer to be passed.     *)

Passed(r) == req[r].rev < kv[Key(r)].rev

OfferOK(r) ==
  /\ req[r].rev <= kv[Key(r)].rev
  /\ req[r].pc = "new" => req[r].rev = 0 /\ won[r] = {}
  /\ req[r].pc = "offered" => req[r].rev > 0
  /\ req[r].pc = "waiting" => stream[r] # "none"
  /\ stream[r] # "none" => req[r].rev > 0
  /\ stream[r] = "gone" => Passed(r)
  /\ OpenOffer(r) => kv[Key(r)].owner = Pending /\ won[r] = {}
  /\ \A s, t \in won[r] : s = t

InboxOK(s) == \A i \in 1..Len(inbox[s]) : req[inbox[s][i]].rev > 0

WorkerOK(s) ==
  worker[s].pc # "idle" =>
    /\ req[Msg(s)].rev > 0
    /\ worker[s].pc \in {"read", "claim", "ack"} => ~worker[s].again
    /\ worker[s].pc = "claim" => /\ req[Msg(s)].rev <= worker[s].rev
                                 /\ worker[s].rev <= Entry(s).rev
    /\ worker[s].pc = "reack" => worker[s].again
    /\ worker[s].again => Passed(Msg(s))
    /\ worker[s].pc = "ack" /\ ~worker[s].settled => Passed(Msg(s))

Inv == /\ Typed
       /\ \A r \in Requests : OfferOK(r)
       /\ \A s \in Stealers : InboxOK(s) /\ WorkerOK(s)

LEMMA Revisions == ASSUME Typed, NEW r \in Requests
                   PROVE  /\ req[r] \in Handler /\ req[r].rev \in Nat
                          /\ kv[Key(r)] \in StealerDetails /\ kv[Key(r)].rev \in Nat
<1>1. req[r] \in Handler /\ kv[Key(r)] \in StealerDetails
  BY KeyType DEF Typed, TypeOK
<1> QED BY <1>1 DEF Handler, StealerDetails

LEMMA NextRevisions == ASSUME Typed', NEW r \in Requests
                       PROVE  req'[r].rev \in Nat /\ kv'[Key(r)].rev \in Nat
<1>1. req'[r] \in Handler /\ kv'[Key(r)] \in StealerDetails
  BY KeyType DEF Typed, TypeOK
<1> QED BY <1>1 DEF Handler, StealerDetails

LEMMA InvInit == Init => Inv
<1> SUFFICES ASSUME Init PROVE Inv
  OBVIOUS
<1>1. \A r \in Requests : OfferOK(r)
  BY KeyType DEF Init, OfferOK, OpenOffer, Passed
<1>2. \A s \in Stealers : InboxOK(s) /\ WorkerOK(s)
  BY DEF Init, InboxOK, WorkerOK, Idle
<1> QED BY <1>1, <1>2, TypedInit DEF Inv

\* Revisions only grow, and a request's own revision is set once.
Growing == /\ \A r \in Requests : kv[Key(r)].rev <= kv'[Key(r)].rev
           /\ \A r \in Requests : req[r].rev > 0 => req'[r].rev = req[r].rev

\* Under such a step a worker that does not move stays in order.
LEMMA WorkerKept == ASSUME Inv, Typed', Growing, NEW s \in Stealers, UNCHANGED worker[s]
                    PROVE  WorkerOK(s)'
<1> SUFFICES ASSUME worker[s].pc # "idle" PROVE WorkerOK(s)'
  BY DEF WorkerOK
<1> DEFINE m == Msg(s)
<1>1. m \in Requests /\ Msg(s)' = m
  BY DEF Inv, Typed, Busy, Msg
<1>2. WorkerOK(s)
  BY DEF Inv
<1>3. kv[Key(m)].rev \in Nat /\ kv'[Key(m)].rev \in Nat /\ req[m].rev \in Nat
  BY <1>1, Revisions, NextRevisions DEF Inv
<1>4. worker[s].rev \in Nat
  BY DEF Inv, Typed, TypeOK, WorkerState
<1> QED BY <1>1, <1>2, <1>3, <1>4 DEF WorkerOK, Growing, Passed, Entry

LEMMA InboxKept == ASSUME Inv, Typed', Growing, NEW s \in Stealers, UNCHANGED inbox[s]
                   PROVE  InboxOK(s)'
<1>1. inbox[s] \in Seq(Requests) /\ InboxOK(s)
  BY DEF Inv, Typed, TypeOK
<1>2. \A i \in 1..Len(inbox[s]) : inbox[s][i] \in Requests
  BY <1>1
<1> QED BY <1>1, <1>2 DEF InboxOK, Growing

\* What a step may do to one request without disturbing its offer: take its
\* revision past the offer, add one winner while the offer is open, publish it,
\* and drop its message once the offer is passed.
LEMMA OfferKept ==
  ASSUME Inv, Typed', NEW r \in Requests,
         req'[r].rev = req[r].rev,
         req'[r].pc \in {"new", "offered"} => req'[r].pc = req[r].pc,
         req'[r].pc = "waiting" => stream'[r] # "none",
         stream'[r] # "none" => req[r].rev > 0,
         stream'[r] = "gone" => Passed(r),
         \/ kv'[Key(r)] = kv[Key(r)] /\ won'[r] = won[r]
         \/ /\ kv'[Key(r)].rev > kv[Key(r)].rev
            /\ \/ won'[r] = won[r]
               \/ OpenOffer(r) /\ \E s \in Stealers : won'[r] = won[r] \cup {s}
  PROVE  OfferOK(r)'
<1>1. OfferOK(r)
  BY DEF Inv
<1>2. /\ req[r].rev \in Nat /\ kv[Key(r)].rev \in Nat
      /\ req'[r].rev \in Nat /\ kv'[Key(r)].rev \in Nat
  BY Revisions, NextRevisions DEF Inv
<1>3. kv'[Key(r)].rev >= kv[Key(r)].rev
  BY <1>2
<1>4. (OpenOffer(r))' => /\ OpenOffer(r) /\ kv'[Key(r)] = kv[Key(r)]
                         /\ won'[r] = won[r]
  BY <1>1, <1>2 DEF OfferOK, OpenOffer
<1>5. \A s, t \in won'[r] : s = t
  BY <1>1 DEF OfferOK
<1>6. req'[r].pc = "new" => req'[r].rev = 0 /\ won'[r] = {}
  BY <1>1, <1>2 DEF OfferOK, OpenOffer
<1>7. Passed(r) => (Passed(r))'
  BY <1>2, <1>3 DEF Passed
<1> QED BY <1>1, <1>2, <1>3, <1>4, <1>5, <1>6, <1>7 DEF OfferOK

\* Steps of the donor and of the API servers that leave the bucket alone.
LEMMA InvDonor ==
  ASSUME Inv, Typed',
         \/ \E r \in Requests : \/ PassThrough(r) \/ ConnectFails(r) \/ LabelPanic(r)
                                \/ PublishOffer(r) \/ PublishFails(r) \/ PollStolen(r)
                                \/ WaitExpires(r) \/ PollFails(r) \/ Respond(r)
                                \/ WebhookTimeout(r)
         \/ \E d \in Donors : DonorCrash(d)
         \/ \E k \in Keys : DonorPodDeleted(k)
  PROVE  Inv'
<1> USE DEF brokerVars, clusterVars, historyVars
<1>1. UNCHANGED <<kv, won, inbox, worker>>
  BY DEF PassThrough, ConnectFails, LabelPanic, PublishOffer, PublishFails, PollStolen,
         WaitExpires, PollFails, Respond, WebhookTimeout, DonorCrash, DonorPodDeleted
<1>2. req \in [Requests -> Handler] /\ stream \in [Requests -> MessageStates]
  BY DEF Inv, Typed, TypeOK
<1>3. ASSUME NEW q \in Requests
      PROVE  /\ req'[q].rev = req[q].rev
             /\ req'[q].pc \in {"new", "offered"} => req'[q].pc = req[q].pc
             /\ req'[q].pc = "waiting" => stream'[q] # "none"
             /\ stream'[q] # "none" => req[q].rev > 0
             /\ stream'[q] = "gone" => Passed(q)
  <2> USE <1>2, <1>3 DEF Handler
  <2>0. OfferOK(q)
    BY DEF Inv
  <2>1. CASE \E r \in Requests : \/ PassThrough(r) \/ ConnectFails(r) \/ PollStolen(r)
                                 \/ WaitExpires(r) \/ PollFails(r)
    BY <2>0, <2>1 DEF PassThrough, ConnectFails, PollStolen, WaitExpires, PollFails,
                      Decide, OfferOK
  <2>2. CASE \E r \in Requests : LabelPanic(r) \/ WebhookTimeout(r)
    BY <2>0, <2>2 DEF LabelPanic, WebhookTimeout, OfferOK
  <2>3. CASE \E r \in Requests : PublishOffer(r)
    BY <2>0, <2>3 DEF PublishOffer, OfferOK
  <2>4. CASE \E r \in Requests : PublishFails(r)
    <3>1. PICK r \in Requests : PublishFails(r)
      BY <2>4
    <3>2. stream'[q] = stream[q] \/ (q = r /\ stream'[q] = "ready")
      BY <3>1 DEF PublishFails
    <3>3. /\ req'[q].rev = req[q].rev
          /\ q # r => req'[q].pc = req[q].pc
          /\ req'[r].pc = "decided" /\ req[r].pc = "offered"
      BY <3>1 DEF PublishFails, Decide
    <3> QED BY <2>0, <3>2, <3>3 DEF OfferOK
  <2>5. CASE \E r \in Requests : Respond(r)
    <3>1. PICK r \in Requests : Respond(r)
      BY <2>5
    <3>2. UNCHANGED stream /\ req'[q].rev = req[q].rev
      BY <3>1 DEF Respond
    <3>3. req'[r].pc = "done" /\ (q # r => req'[q].pc = req[q].pc)
      BY <3>1 DEF Respond
    <3> QED BY <2>0, <3>2, <3>3 DEF OfferOK
  <2>6. CASE \E d \in Donors : DonorCrash(d)
    <3>1. PICK d \in Donors : DonorCrash(d)
      BY <2>6
    <3>2. /\ UNCHANGED stream
          /\ \/ req'[q] = req[q]
             \/ req'[q] = [req[q] EXCEPT !.pc = "done", !.open = FALSE]
      BY <3>1 DEF DonorCrash
    <3>3. req[q] \in Handler
      OBVIOUS
    <3>4. req'[q].rev = req[q].rev /\ (req'[q].pc = "done" \/ req'[q].pc = req[q].pc)
      BY <3>2, <3>3
    <3> QED BY <2>0, <3>2, <3>4 DEF OfferOK
  <2>7. CASE \E k \in Keys : DonorPodDeleted(k)
    BY <2>0, <2>7 DEF DonorPodDeleted, OfferOK
  <2> QED BY <2>1, <2>2, <2>3, <2>4, <2>5, <2>6, <2>7
<1>4. \A q \in Requests : OfferOK(q)'
  BY <1>1, <1>3, OfferKept
<1>5. Growing
  BY <1>1, <1>3, Revisions DEF Growing, Inv
<1>6. \A s \in Stealers : InboxOK(s)' /\ WorkerOK(s)'
  BY <1>1, <1>5, InboxKept, WorkerKept
<1> QED BY <1>4, <1>6 DEF Inv

\* The two steps of the donor that write the bucket.
LEMMA InvPut == ASSUME Inv, Typed', NEW r \in Requests, PutPending(r) \/ PutFails(r)
                PROVE  Inv'
<1> USE DEF clusterVars, historyVars
<1> DEFINE k == Key(r)
<1>1. UNCHANGED <<stream, won, inbox, worker>>
  BY DEF PutPending, PutFails
<1>2. /\ req \in [Requests -> Handler] /\ kv \in [Keys -> StealerDetails]
      /\ \A q \in Requests : Key(q) \in Keys /\ OfferOK(q)
  BY KeyType DEF Inv, Typed, TypeOK
<1>3. req[r].pc = "new"
  BY DEF PutPending, PutFails, Arrives
<1>4. \A q \in Requests : \/ kv'[Key(q)] = kv[Key(q)]
                          \/ kv'[Key(q)].rev > kv[Key(q)].rev
  BY <1>2, Revisions DEF PutPending, PutFails, PutOffer, Inv
<1>5. ASSUME NEW q \in Requests, q # r \/ PutFails(r) PROVE OfferOK(q)'
  <2>1. /\ req'[q].rev = req[q].rev
        /\ req'[q].pc \in {"new", "offered"} => req'[q].pc = req[q].pc
        /\ req'[q].pc = "waiting" => req[q].pc = "waiting"
    BY <1>2, <1>5 DEF PutPending, PutFails, Decide, Handler
  <2> QED BY <1>1, <1>2, <1>4, <2>1, OfferKept DEF OfferOK
<1>6. ASSUME PutPending(r) PROVE OfferOK(r)'
  <2>1. /\ kv'[k].rev = kv[k].rev + 1 /\ kv'[k].owner = Pending
        /\ req'[r].rev = kv[k].rev + 1 /\ req'[r].pc = "offered"
    <3>1. kv'[k] = [owner |-> Pending, rev |-> kv[k].rev + 1, fqdn |-> FALSE]
      BY <1>2, <1>6 DEF PutPending, PutOffer
    <3>2. req'[r].rev = kv[k].rev + 1 /\ req'[r].pc = "offered"
      BY <1>2, <1>6 DEF PutPending, Handler
    <3> QED BY <3>1, <3>2
  <2>2. won[r] = {} /\ stream[r] = "none"
    BY <1>2, <1>3 DEF OfferOK
  <2>3. kv[k].rev \in Nat
    BY Revisions DEF Inv
  <2> QED BY <1>1, <2>1, <2>2, <2>3 DEF OfferOK
<1>7. \A q \in Requests : OfferOK(q)'
  BY <1>5, <1>6
<1>8. \A q \in Requests : req[q].rev > 0 => req'[q].rev = req[q].rev
  BY <1>2, <1>3 DEF PutPending, PutFails, Decide, Handler, OfferOK
<1>9. Growing
  <2> SUFFICES ASSUME NEW q \in Requests PROVE kv[Key(q)].rev <= kv'[Key(q)].rev
    BY <1>8 DEF Growing
  <2> QED BY <1>4, Revisions, NextRevisions DEF Inv
<1>10. \A s \in Stealers : InboxOK(s)' /\ WorkerOK(s)'
  BY <1>1, <1>9, InboxKept, WorkerKept
<1> QED BY <1>7, <1>10 DEF Inv

\* The steps outside the donor touch the stream, the bucket and one worker;
\* what each of them owes the invariant is the assumptions below.
LEMMA InvOutside ==
  ASSUME Inv, Typed', UNCHANGED req, NEW s \in Stealers,
         \A t \in Stealers \ {s} : UNCHANGED worker[t],
         \A r \in Requests : stream'[r] = "none" => stream[r] = "none",
         \A r \in Requests : stream'[r] # "none" => stream[r] # "none" \/ req[r].rev > 0,
         \A r \in Requests : stream'[r] = "gone" => stream[r] = "gone" \/ Passed(r),
         \A r \in Requests :
            \/ kv'[Key(r)] = kv[Key(r)] /\ won'[r] = won[r]
            \/ /\ kv'[Key(r)].rev > kv[Key(r)].rev
               /\ won'[r] = won[r] \/ (OpenOffer(r) /\ won'[r] = won[r] \cup {s}),
         \A t \in Stealers : InboxOK(t)',
         Growing => WorkerOK(s)'
  PROVE  Inv'
<1>1. \A r \in Requests : OfferOK(r)
  BY DEF Inv
<1>2. \A r \in Requests : OfferOK(r)'
  <2> SUFFICES ASSUME NEW r \in Requests PROVE OfferOK(r)'
    OBVIOUS
  <2>1. req'[r].pc = "waiting" => stream'[r] # "none"
    BY <1>1 DEF OfferOK
  <2>2. stream'[r] # "none" => req[r].rev > 0
    BY <1>1 DEF OfferOK
  <2>3. stream'[r] = "gone" => Passed(r)
    BY <1>1 DEF OfferOK
  <2> QED BY <2>1, <2>2, <2>3, OfferKept
<1>3. Growing
  <2> SUFFICES ASSUME NEW r \in Requests PROVE kv[Key(r)].rev <= kv'[Key(r)].rev
    BY DEF Growing
  <2> QED BY Revisions, NextRevisions DEF Inv
<1>4. \A t \in Stealers : WorkerOK(t)'
  BY <1>3, WorkerKept
<1> QED BY <1>2, <1>4 DEF Inv

LEMMA InvBroker ==
  ASSUME Inv, Typed',
         \/ \E r \in Requests : AckWaitExpires(r)
         \/ \E r \in Requests, s \in Stealers : Deliver(r, s)
         \/ \E s \in Stealers : Crash(s)
         \/ \E s \in Stealers, p \in Pods : PodStarts(s, p) \/ PodEnds(s, p) \/ PodDeleted(s, p)
  PROVE  Inv'
<1> USE DEF donorVars, brokerVars, clusterVars, historyVars
<1> stream \in [Requests -> MessageStates] /\ worker \in [Stealers -> WorkerState]
  BY DEF Inv, Typed, TypeOK
<1> /\ inbox \in [Stealers -> Seq(Requests)]
    /\ \A t \in Stealers : InboxOK(t) /\ WorkerOK(t)
    /\ \A r \in Requests : OfferOK(r)
  BY DEF Inv, Typed, TypeOK
<1>1. ASSUME NEW r \in Requests, AckWaitExpires(r) PROVE Inv'
  <2>1. UNCHANGED <<req, kv, inbox, worker, won>>
    BY <1>1 DEF AckWaitExpires
  <2>2. \A q \in Requests : /\ stream'[q] = "none" <=> stream[q] = "none"
                            /\ stream'[q] = "gone" => stream[q] = "gone"
    BY <1>1 DEF AckWaitExpires
  <2>3. \A q \in Requests : OfferOK(q)'
    BY <2>1, <2>2, OfferKept DEF OfferOK
  <2>4. Growing
    BY <2>1, Revisions DEF Growing, Inv
  <2>5. \A t \in Stealers : InboxOK(t)' /\ WorkerOK(t)'
    BY <2>1, <2>4, InboxKept, WorkerKept
  <2> QED BY <2>3, <2>5 DEF Inv
<1>2. ASSUME NEW r \in Requests, NEW s \in Stealers, Deliver(r, s) PROVE Inv'
  <2>1. UNCHANGED <<req, kv, worker, won>>
    BY <1>2 DEF Deliver
  <2>2. \A q \in Requests : /\ stream'[q] = "none" <=> stream[q] = "none"
                            /\ stream'[q] = "gone" => stream[q] = "gone"
    BY <1>2 DEF Deliver
  <2>3. Growing => WorkerOK(s)'
    BY <2>1, WorkerKept
  <2>4. \A t \in Stealers : InboxOK(t)'
    <3>1. req[r].rev > 0
      BY <1>2 DEF Deliver, OfferOK
    <3>2. inbox'[s] = Append(inbox[s], r) /\ \A t \in Stealers \ {s} : inbox'[t] = inbox[t]
      BY <1>2 DEF Deliver
    <3>3. InboxOK(s)'
      BY <2>1, <3>1, <3>2 DEF InboxOK
    <3> QED BY <2>1, <3>2, <3>3 DEF InboxOK
  <2> QED BY <2>1, <2>2, <2>3, <2>4, InvOutside
<1>3. ASSUME NEW s \in Stealers, Crash(s) PROVE Inv'
  <2>1. UNCHANGED <<req, kv, stream, won>>
    BY <1>3 DEF Crash
  <2>2. WorkerOK(s)' /\ \A t \in Stealers \ {s} : UNCHANGED worker[t]
    BY <1>3, IdleType DEF Crash, Return, WorkerOK
  <2>3. inbox'[s] = <<>> /\ \A t \in Stealers \ {s} : inbox'[t] = inbox[t]
    BY <1>3 DEF Crash
  <2>4. InboxOK(s)'
    BY <2>3 DEF InboxOK
  <2>5. \A t \in Stealers : InboxOK(t)'
    BY <2>1, <2>3, <2>4 DEF InboxOK
  <2> QED BY <2>1, <2>2, <2>5, InvOutside
<1>4. ASSUME NEW s \in Stealers, NEW p \in Pods,
             PodStarts(s, p) \/ PodEnds(s, p) \/ PodDeleted(s, p) PROVE Inv'
  <2>1. UNCHANGED <<req, kv, stream, inbox, worker, won>>
    BY <1>4 DEF PodStarts, PodEnds, PodDeleted, SetPod
  <2>2. Growing => WorkerOK(s)'
    BY <2>1, WorkerKept
  <2>3. \A t \in Stealers : InboxOK(t)'
    BY <2>1 DEF InboxOK
  <2> QED BY <2>1, <2>2, <2>3, InvOutside
<1> QED BY <1>1, <1>2, <1>3, <1>4

LEMMA InvWorker == ASSUME Inv, Typed', NEW s \in Stealers, WorkerStep(s) PROVE Inv'
<1> USE DEF donorVars, brokerVars, clusterVars, historyVars
<1> DEFINE m == Msg(s)
<1> stream \in [Requests -> MessageStates] /\ worker \in [Stealers -> WorkerState]
  BY DEF Inv, Typed, TypeOK
<1> worker[s] \in WorkerState
  OBVIOUS
<1> /\ inbox \in [Stealers -> Seq(Requests)]
    /\ \A t \in Stealers : InboxOK(t) /\ WorkerOK(t)
    /\ \A r \in Requests : OfferOK(r)
  BY DEF Inv, Typed, TypeOK
<1> worker[s].pc # "idle" =>
      /\ m \in Requests /\ Entry(s) = kv[Key(m)]
      /\ req[m].rev \in Nat /\ Entry(s).rev \in Nat /\ worker[s].rev \in Nat
  BY Revisions DEF Inv, Typed, Busy, Msg, Entry, WorkerState
\* An Ack of a passed message, and any Nak, are harmless.
<1> DEFINE Settles(r) == Nak(r) \/ UNCHANGED stream \/ (Ack(r) /\ Passed(r))
           StreamOK == \A q \in Requests :
                         /\ stream'[q] = "none" => stream[q] = "none"
                         /\ stream'[q] # "none" => stream[q] # "none" \/ req[q].rev > 0
                         /\ stream'[q] = "gone" => stream[q] = "gone" \/ Passed(q)
<1>a. ASSUME NEW r \in Requests, req[r].rev > 0, Settles(r) PROVE StreamOK
  BY <1>a DEF Nak, Ack
\* A write takes the entry past every offer made so far.
<1> DEFINE BucketOK == \A r \in Requests :
              \/ kv'[Key(r)] = kv[Key(r)] /\ won'[r] = won[r]
              \/ /\ kv'[Key(r)].rev > kv[Key(r)].rev
                 /\ won'[r] = won[r] \/ (OpenOffer(r) /\ won'[r] = won[r] \cup {s})
<1>b. ASSUME m \in Requests, NEW fqdn \in BOOLEAN, WriteOwn(s, fqdn), UNCHANGED won
      PROVE  BucketOK /\ Entry(s).rev < kv'[Key(m)].rev
  <2>1. kv \in [Keys -> StealerDetails] /\ \A q \in Requests : Key(q) \in Keys
    BY KeyType DEF Inv, Typed, TypeOK
  <2>2. \A q \in Requests : kv[Key(q)].rev \in Nat
    BY Revisions DEF Inv
  <2> QED BY <1>b, <2>1, <2>2 DEF WriteOwn, Entry
<1>c. ASSUME m \in Requests, req[m].rev > 0, req[m].rev <= worker[s].rev, TakeOffer(s)
      PROVE  BucketOK /\ Entry(s).rev < kv'[Key(m)].rev
  <2>1. kv \in [Keys -> StealerDetails] /\ \A q \in Requests : Key(q) \in Keys
    BY KeyType DEF Inv, Typed, TypeOK
  <2>2. \A q \in Requests : kv[Key(q)].rev \in Nat /\ req[q].rev \in Nat
    BY Revisions DEF Inv
  <2>3. /\ kv' = [kv EXCEPT ![Key(m)] = [owner |-> s, rev |-> @.rev + 1, fqdn |-> FALSE]]
        /\ worker[s].rev = kv[Key(m)].rev
    BY <1>c DEF TakeOffer, AtRevision, WriteOwn, Entry, Msg
  <2>4. ASSUME NEW q \in Requests, q \in Taken(s) PROVE Key(q) = Key(m) /\ OpenOffer(q)
    BY <1>c, <2>2, <2>3, <2>4 DEF Taken, OpenOffer, Msg
  <2>5. ASSUME NEW q \in Requests
        PROVE  won'[q] = IF q \in Taken(s) THEN won[q] \cup {s} ELSE won[q]
    BY <1>c DEF TakeOffer
  <2>6. ASSUME NEW q \in Requests, Key(q) = Key(m) PROVE kv'[Key(q)].rev = kv[Key(q)].rev + 1
    BY <2>1, <2>3, <2>6
  <2>7. ASSUME NEW q \in Requests, Key(q) # Key(m) PROVE kv'[Key(q)] = kv[Key(q)]
    BY <2>1, <2>3, <2>7
  <2>8. BucketOK
    <3> SUFFICES ASSUME NEW q \in Requests
                 PROVE  \/ kv'[Key(q)] = kv[Key(q)] /\ won'[q] = won[q]
                        \/ /\ kv'[Key(q)].rev > kv[Key(q)].rev
                           /\ won'[q] = won[q] \/ (OpenOffer(q) /\ won'[q] = won[q] \cup {s})
      OBVIOUS
    <3>1. CASE Key(q) = Key(m)
      <4>1. kv'[Key(q)].rev > kv[Key(q)].rev
        BY <2>2, <2>6, <3>1
      <4> QED BY <2>4, <2>5, <4>1
    <3>2. CASE Key(q) # Key(m)
      BY <2>4, <2>5, <2>7, <3>2
    <3> QED BY <3>1, <3>2
  <2> QED BY <1>c, <2>2, <2>6, <2>8 DEF Entry
<1> DEFINE Others == \A t \in Stealers \ {s} : UNCHANGED worker[t]
<1>d. ASSUME UNCHANGED <<req, inbox>>, StreamOK, BucketOK, Others, Growing => WorkerOK(s)'
      PROVE  Inv'
  <2>1. \A t \in Stealers : InboxOK(t)'
    BY <1>d DEF InboxOK
  <2> QED BY <1>d, <2>1, InvOutside
<1>e. UNCHANGED <<kv, won>> => BucketOK
  OBVIOUS
<1>f. Return(s) => WorkerOK(s)' /\ Others
  BY IdleType DEF Return, WorkerOK
<1> HIDE DEF StreamOK, BucketOK, Others
<1>1. CASE CheckPod(s)
  <2> DEFINE h == Head(inbox[s])
  <2>1. h \in Requests /\ req[h].rev > 0
    BY <1>1 DEF CheckPod, InboxOK
  <2>2. StreamOK
    BY <1>1, <1>a, <2>1 DEF CheckPod
  <2>3. UNCHANGED <<req, kv, won>> /\ Others
    BY <1>1 DEF CheckPod, Others
  <2>4. Growing
    BY <2>3, Revisions DEF Growing, Inv
  <2>5. WorkerOK(s)'
    <3>1. CASE UNCHANGED worker
      BY <2>4, <3>1, WorkerKept
    <3>2. CASE worker' = [worker EXCEPT ![s] = [Idle EXCEPT !.pc = "read", !.msg = h]]
      <4>1. worker'[s].pc = "read" /\ worker'[s].msg = h /\ ~worker'[s].again
        BY <3>2 DEF Idle
      <4> QED BY <2>1, <2>3, <4>1 DEF WorkerOK, Msg
    <3> QED BY <1>1, <3>1, <3>2 DEF CheckPod
  <2>6. \A t \in Stealers : InboxOK(t)'
    <3>1. inbox'[s] = Tail(inbox[s]) /\ \A t \in Stealers \ {s} : inbox'[t] = inbox[t]
      BY <1>1 DEF CheckPod
    <3>2. InboxOK(s)'
      BY <1>1, <2>3, <3>1 DEF CheckPod, InboxOK
    <3> QED BY <2>3, <3>1, <3>2 DEF InboxOK
  <2> QED BY <1>e, <2>2, <2>3, <2>5, <2>6, InvOutside DEF StreamOK, BucketOK, Others
<1>2. CASE ReadOpen(s)
  <2>1. /\ worker'[s].pc = "claim" /\ worker'[s].rev = Entry(s).rev /\ worker'[s].msg = m
        /\ worker'[s].again = worker[s].again /\ Others /\ m \in Requests
        /\ UNCHANGED <<req, kv, won, stream, inbox>>
    BY <1>2 DEF ReadOpen, Reading, WorkerState, Msg, Others
  <2>2. WorkerOK(s)'
    BY <1>2, <2>1 DEF ReadOpen, Reading, WorkerOK, OfferOK, Msg, Entry
  <2> QED BY <1>a, <1>d, <1>e, <2>1, <2>2, <1>2 DEF StreamOK
<1>3. CASE ReadOwn(s)
  <2>1. /\ worker'[s].pc = "create" /\ worker'[s].msg = m /\ Others /\ m \in Requests
        /\ UNCHANGED <<req, kv, won, stream, inbox>>
    BY <1>3 DEF ReadOwn, Reading, WorkerState, Msg, Others
  <2>2. Entry(s).owner # Pending
    BY <1>3, OwnersAssumption DEF ReadOwn
  <2>3. Passed(m) /\ req[m].rev > 0
    BY <1>3, <2>1, <2>2 DEF ReadOwn, Reading, WorkerOK, OfferOK, OpenOffer, Passed
  <2>4. WorkerOK(s)'
    BY <2>1, <2>3 DEF WorkerOK, Passed, Msg
  <2> QED BY <1>d, <1>e, <2>1, <2>4 DEF StreamOK
<1>4. CASE ReadTaken(s)
  <2>1. m \in Requests /\ UNCHANGED <<req, kv, won, inbox>>
    BY <1>4 DEF ReadTaken, Reading
  <2>2. Passed(m) /\ req[m].rev > 0
    BY <1>4, <2>1 DEF ReadTaken, Reading, WorkerOK, OfferOK, OpenOffer, Passed
  <2>3. StreamOK
    BY <1>4, <1>a, <2>1, <2>2 DEF ReadTaken
  <2> QED BY <1>4, <1>d, <1>e, <1>f, <2>1, <2>3 DEF ReadTaken
<1>5. CASE ReadFails(s)
  <2>1. m \in Requests /\ UNCHANGED <<req, kv, won, inbox>> /\ req[m].rev > 0
    BY <1>5 DEF ReadFails, Reading, WorkerOK
  <2>2. StreamOK
    BY <1>5, <1>a, <2>1 DEF ReadFails
  <2> QED BY <1>5, <1>d, <1>e, <1>f, <2>1, <2>2 DEF ReadFails
\* After a claim: the entry moved past the offer, by this claim or before it.
<1>6. CASE Claim(s) \/ LoseClaim(s) \/ ClaimFails(s)
  <2>1. /\ m \in Requests /\ req[m].rev > 0 /\ ~worker[s].again
        /\ req[m].rev <= worker[s].rev /\ worker[s].rev <= Entry(s).rev
        /\ UNCHANGED <<req, inbox>>
    BY <1>6 DEF Claim, LoseClaim, ClaimFails, Claiming, WorkerOK
  <2>2. /\ worker'[s].pc = "ack" /\ worker'[s].msg = m
        /\ worker'[s].again = worker[s].again /\ Others
    BY <1>6 DEF Claim, LoseClaim, ClaimFails, Goto, WorkerState, Msg, Others
  <2>3. BucketOK
    BY <1>6, <1>c, <1>e, <2>1 DEF Claim, LoseClaim, ClaimFails
  <2>4. StreamOK
    BY <1>6, <1>a, <2>1 DEF Claim, LoseClaim, ClaimFails
  <2>5. req[m].rev < kv'[Key(m)].rev \/ worker'[s].settled
    <3>e. /\ Entry(s) = kv[Key(m)] /\ Entry(s).rev \in Nat /\ req[m].rev \in Nat
          /\ worker[s].rev \in Nat /\ kv'[Key(m)].rev \in Nat
      BY <2>1, Revisions, NextRevisions DEF Entry, Inv, WorkerState
    <3>1. CASE Claim(s)
      <4>1. TakeOffer(s)
        BY <3>1 DEF Claim
      <4>2. Entry(s).rev < kv'[Key(m)].rev
        BY <1>c, <2>1, <4>1
      <4> QED BY <2>1, <3>e, <4>2
    <3>2. CASE LoseClaim(s)
      <4>1. kv' = kv /\ worker[s].rev # Entry(s).rev
        BY <3>2 DEF LoseClaim, AtRevision
      <4> QED BY <2>1, <3>e, <4>1
    <3>3. CASE ClaimFails(s)
      BY <3>3 DEF ClaimFails, WorkerState
    <3> QED BY <1>6, <3>1, <3>2, <3>3
  <2>6. WorkerOK(s)'
    BY <2>1, <2>2, <2>5 DEF WorkerOK, Passed, Msg
  <2> QED BY <1>d, <2>1, <2>2, <2>3, <2>4, <2>6
\* The steps that settle the copy: its offer is passed, or it is settled.
<1>7. CASE AckClaim(s)
  <2>1. /\ m \in Requests /\ req[m].rev > 0 /\ ~worker[s].again
        /\ worker[s].settled \/ Passed(m)
        /\ UNCHANGED <<req, kv, won, inbox>>
    BY <1>7 DEF AckClaim, WorkerOK
  <2>2. StreamOK
    BY <1>7, <1>a, <2>1 DEF AckClaim
  <2>3. /\ worker'[s].pc = "create" /\ worker'[s].msg = m /\ Others
        /\ worker'[s].again = worker[s].again
    BY <1>7 DEF AckClaim, WorkerState, Msg, Others
  <2>4. WorkerOK(s)'
    BY <2>1, <2>3 DEF WorkerOK, Msg
  <2> QED BY <1>d, <1>e, <2>1, <2>2, <2>3, <2>4
<1>8. CASE AckAgain(s)
  <2>1. /\ m \in Requests /\ req[m].rev > 0 /\ Passed(m)
        /\ UNCHANGED <<req, kv, won, inbox>>
    BY <1>8 DEF AckAgain, WorkerOK
  <2>2. StreamOK
    BY <1>8, <1>a, <2>1 DEF AckAgain
  <2> QED BY <1>8, <1>d, <1>e, <1>f, <2>1, <2>2 DEF AckAgain
\* The steps in the stealer's cluster.
<1>9. CASE CreatePod(s) \/ WaitRunning(s) \/ CreateService(s) \/ ExportService(s)
  <2>1. m \in Requests /\ UNCHANGED <<req, kv, won, stream, inbox>>
    BY <1>9 DEF CreatePod, WaitRunning, CreateService, ExportService
  <2>2. StreamOK
    BY <2>1 DEF StreamOK
  <2>3. CASE Return(s)
    BY <1>d, <1>e, <1>f, <2>1, <2>2, <2>3
  <2>4. CASE ~Return(s)
    <3>1. /\ worker'[s].msg = m /\ Others /\ worker'[s].again = worker[s].again
          /\ worker'[s].pc \in {"wait", "expose", "export", "publish", "reack"}
          /\ worker'[s].pc = "reack" => worker[s].again
      BY <1>9, <2>4 DEF CreatePod, WaitRunning, CreateService, ExportService, Goto, Stolen,
                        WorkerState, Msg, Others
    <3>2. WorkerOK(s)'
      BY <1>9, <2>1, <3>1 DEF WorkerOK, CreatePod, WaitRunning, CreateService, ExportService,
                            Passed, Msg
    <3> QED BY <1>d, <1>e, <2>1, <2>2, <3>1, <3>2
  <2> QED BY <2>3, <2>4
\* The publication of the details.
<1>10. CASE PublishDetails(s) \/ PublishDetailsFails(s)
  <2>1. m \in Requests /\ UNCHANGED <<req, won, stream, inbox>> /\ Return(s)
    BY <1>10 DEF PublishDetails, PublishDetailsFails, Publishing
  <2>2. StreamOK
    BY <2>1 DEF StreamOK
  <2>3. worker[s].exposed \in BOOLEAN
    BY DEF WorkerState
  <2>4. BucketOK
    BY <1>10, <1>b, <1>e, <2>1, <2>3 DEF PublishDetails, PublishDetailsFails
  <2> QED BY <1>d, <1>f, <2>1, <2>2, <2>4
<1>11. CASE RetryPublish(s)
  <2>1. m \in Requests /\ UNCHANGED <<req, kv, won, stream, inbox>>
    BY <1>11 DEF RetryPublish, Publishing
  <2>2. StreamOK
    BY <2>1 DEF StreamOK
  <2>3. CASE Return(s)
    BY <1>d, <1>e, <1>f, <2>1, <2>2, <2>3
  <2>4. CASE ~Return(s)
    <3>1. /\ worker'[s].pc = "publish" /\ worker'[s].msg = m /\ Others
          /\ worker'[s].again = worker[s].again
      BY <1>11, <2>4 DEF RetryPublish, Publishing, WorkerState, Msg, Others
    <3>2. WorkerOK(s)'
      BY <1>11, <2>1, <3>1 DEF WorkerOK, RetryPublish, Publishing, Passed, Msg
    <3> QED BY <1>d, <1>e, <2>1, <2>2, <3>1, <3>2
  <2> QED BY <2>3, <2>4
<1> QED BY <1>1, <1>2, <1>3, <1>4, <1>5, <1>6, <1>7, <1>8, <1>9, <1>10, <1>11 DEF WorkerStep

LEMMA InvStep == Inv /\ [Next]_vars => Inv'
<1> SUFFICES ASSUME Inv, [Next]_vars PROVE Inv'
  OBVIOUS
<1>1. Typed'
  BY TypedStep DEF Inv
<1>2. CASE UNCHANGED vars
  <2>1. UNCHANGED <<req, kv, stream, inbox, worker, won>>
    BY <1>2 DEF vars
  <2>2. \A r \in Requests : OfferOK(r)'
    BY <2>1 DEF Inv, OfferOK, OpenOffer, Passed
  <2>3. \A s \in Stealers : InboxOK(s)' /\ WorkerOK(s)'
    BY <2>1 DEF Inv, InboxOK, WorkerOK, Passed, Msg, Entry
  <2> QED BY <1>1, <2>2, <2>3 DEF Inv
<1>3. CASE Next
  BY <1>1, <1>3, InvDonor, InvPut, InvBroker, InvWorker DEF Next, ProtocolStep, HandlerStep
<1> QED BY <1>2, <1>3

LEMMA InvAlways == Spec => []Inv
  BY InvInit, InvStep, PTL DEF Spec

\* A webhook that waits on an offer nobody has taken can still be served, for
\* every interleaving of redeliveries, crashes, failed calls and rewrites.
THEOREM OfferNotLostTheorem == Spec => []OfferNotLost
<1>1. Inv => OfferNotLost
  <2> SUFFICES ASSUME Inv, NEW r \in Requests, req[r].pc = "waiting", OpenOffer(r)
               PROVE  stream[r] \in {"ready", "outstanding"}
    BY DEF OfferNotLost
  <2>1. OfferOK(r) /\ stream[r] \in MessageStates
    BY DEF Inv, Typed, TypeOK
  <2>2. ~Passed(r)
    BY Revisions DEF Inv, OpenOffer, Passed
  <2> QED BY <2>1, <2>2 DEF OfferOK, MessageStates
<1> QED BY <1>1, InvAlways, PTL

\* However many copies of a message are handled at once, one claim at most
\* takes the offer.
THEOREM OneWinnerTheorem == Spec => []OneWinnerPerOffer
<1>1. Inv => OneWinnerPerOffer
  BY DEF Inv, OfferOK, OneWinnerPerOffer
<1> QED BY <1>1, InvAlways, PTL
==============================================================================
