------------------------ MODULE ServiceAccess_proofs -------------------------
(* Theorems about ServiceAccess, for any requests, stealers, Services and     *)
(* both budgets.                                                             *)
EXTENDS ServiceAccess, StealRefinement_proofs

------------------------------------------------------------------------------
(* The goroutines do not disturb the protocol: without them, a behavior of    *)
(* AccessSpec is one of Spec.                                                 *)

LEMMA GoroutineLeavesProtocol ==
  ASSUME NEW r \in Requests, GoroutineStep(r)
  PROVE  UNCHANGED vars
<1>1. GetFqdn(r) \/ PollsExpire(r) \/ GetFails(r) => UNCHANGED vars
  BY DEF GetFqdn, PollsExpire, GetFails, At
<1>2. UpdatePod(r) \/ ListServices(r) \/ CreateProxy(r) => UNCHANGED vars
  BY DEF UpdatePod, ListServices, CreateProxy, At
<1> QED BY <1>1, <1>2 DEF GoroutineStep

LEMMA AccessStepIsStep == [AccessNext]_allVars => [Next]_vars
<1> SUFFICES ASSUME [AccessNext]_allVars PROVE [Next]_vars
  OBVIOUS
<1>1. CASE Steal
  BY <1>1 DEF Steal, Next
<1>2. CASE \E d \in Donors : ProcessDies(d)
  BY <1>2 DEF ProcessDies, Next
<1>3. CASE \E r \in Requests : GoroutineStep(r)
  BY <1>3, GoroutineLeavesProtocol
<1>4. CASE UNCHANGED allVars
  BY <1>4 DEF allVars
<1> QED BY <1>1, <1>2, <1>3, <1>4 DEF AccessNext

\* With the goroutines running, polling and dying, the protocol is still the
\* protocol: every safety theorem about Spec holds here as well.
THEOREM AccessImplementsProtocol == AccessSpec => Spec
<1>1. AccessInit => Init
  BY DEF AccessInit
<1> QED BY <1>1, AccessStepIsStep, PTL DEF AccessSpec, Spec

\* Nor do they break the contract.
THEOREM AccessImplementsContract ==
  ASSUME UniqueNames,
         Budget["fault"] = 0, Budget["slow"] = 0, Budget["expire"] = 0
  PROVE  AccessSpec => ImplementsContract
  BY AccessImplementsProtocol, ImplementsContractTheorem

------------------------------------------------------------------------------
(* What stands behind an FQDN.  Whoever exports has just made the Service, so *)
(* a Service is exported once and for one request; whoever publishes an FQDN  *)
(* has exported.                                                              *)

\* made: the exports there are.
Exported(made, k, s) == \E q \in Requests : Key(q) = k /\ made[s][k[2]] = q

ExportsOwn(s) ==
  /\ worker[s].pc = "export" => /\ svc[s][PodOf[Msg(s)]] = Msg(s)
                                /\ exports[s][PodOf[Msg(s)]] = None
  /\ worker[s].exposed => /\ worker[s].pc = "publish"
                          /\ exports[s][PodOf[Msg(s)]] = Msg(s)
ServiceFirst ==
  \A s \in Stealers, p \in Pods : exports[s][p] # None => svc[s][p] # None
EntryLeads ==
  \A k \in Keys : kv[k].fqdn => kv[k].owner \in Stealers /\ Exported(exports, k, kv[k].owner)

ExposeInv == /\ Typed /\ ServiceFirst /\ EntryLeads
             /\ \A s \in Stealers : ExportsOwn(s)

LEMMA KeyPod == ASSUME NEW r \in Requests PROVE Key(r)[2] = PodOf[r]
  BY DEF Key

LEMMA ExposeInit == Init => ExposeInv
<1> SUFFICES ASSUME Init PROVE ExposeInv
  OBVIOUS
<1>1. Typed
  BY TypedInit
<1>2. ServiceFirst
  BY DEF Init, ServiceFirst
<1>3. EntryLeads
  BY DEF Init, EntryLeads
<1>4. \A s \in Stealers : ExportsOwn(s)
  BY DEF Init, ExportsOwn, Idle
<1> QED BY <1>1, <1>2, <1>3, <1>4 DEF ExposeInv

\* Steps that leave the Services alone, publish no FQDN and bring no worker to
\* its export.
Quiet(s) == \/ worker'[s] = worker[s]
            \/ ~worker'[s].exposed /\ worker'[s].pc # "export"
NoFqdn(k) == kv'[k].fqdn => kv'[k] = kv[k]

LEMMA ExposeKept ==
  ASSUME ExposeInv, Typed', UNCHANGED <<svc, exports>>,
         \A s \in Stealers : Quiet(s), \A k \in Keys : NoFqdn(k)
  PROVE  ExposeInv'
<1>1. ServiceFirst'
  BY DEF ExposeInv, ServiceFirst
<1>2. EntryLeads'
  BY DEF ExposeInv, EntryLeads, Exported, NoFqdn
<1>3. ASSUME NEW s \in Stealers PROVE ExportsOwn(s)'
  BY DEF ExposeInv, ExportsOwn, Quiet, Msg
<1> QED BY <1>1, <1>2, <1>3 DEF ExposeInv

LEMMA PutHasNoFqdn ==
  ASSUME Typed, NEW r \in Requests, PutOffer(r) \/ UNCHANGED kv
  PROVE  \A k \in Keys : NoFqdn(k)
<1>1. kv \in [Keys -> StealerDetails]
  BY DEF Typed, TypeOK
<1> QED BY <1>1, KeyType DEF PutOffer, NoFqdn

LEMMA ClaimHasNoFqdn ==
  ASSUME Typed, NEW s \in Stealers, Msg(s) \in Requests, WriteOwn(s, FALSE) \/ UNCHANGED kv
  PROVE  \A k \in Keys : NoFqdn(k)
<1>1. kv \in [Keys -> StealerDetails]
  BY DEF Typed, TypeOK
<1> QED BY <1>1, KeyType DEF WriteOwn, NoFqdn

LEMMA ReturnIsQuiet ==
  ASSUME Typed, NEW s \in Stealers, Return(s)
  PROVE  \A t \in Stealers : Quiet(t)
<1>1. worker \in [Stealers -> WorkerState]
  BY DEF Typed, TypeOK
<1> QED BY <1>1 DEF Return, Idle, Quiet

LEMMA GoOnIsQuiet ==
  ASSUME ExposeInv, NEW s \in Stealers, worker[s].pc # "publish",
         NEW w, worker' = [worker EXCEPT ![s] = w],
         w.exposed = worker[s].exposed, w.pc # "export"
  PROVE  \A t \in Stealers : Quiet(t)
<1>1. worker \in [Stealers -> WorkerState] /\ worker[s].exposed \in BOOLEAN
  BY DEF ExposeInv, Typed, TypeOK, WorkerState
<1>2. ~worker[s].exposed
  BY DEF ExposeInv, ExportsOwn
<1> QED BY <1>1, <1>2 DEF Quiet

LEMMA ExposeDonor ==
  ASSUME ExposeInv, Typed',
         \/ \E r \in Requests : \/ HandlerStep(r) \/ WebhookTimeout(r)
                                \/ AckWaitExpires(r)
                                \/ \E s \in Stealers : Deliver(r, s)
         \/ \E d \in Donors : DonorCrash(d)
         \/ \E k \in Keys : DonorPodDeleted(k)
         \/ \E s \in Stealers, p \in Pods : PodStarts(s, p) \/ PodEnds(s, p) \/ PodDeleted(s, p)
  PROVE  ExposeInv'
<1> USE DEF donorVars, brokerVars, clusterVars, historyVars
<1>1. UNCHANGED <<worker, svc, exports>>
  BY Zenon DEF HandlerStep, PassThrough, ConnectFails, PutPending, PutFails, LabelPanic,
     PublishOffer, PublishFails, PollStolen, WaitExpires, PollFails, Respond,
     WebhookTimeout, AckWaitExpires, Deliver, DonorCrash, DonorPodDeleted,
     PodStarts, PodEnds, PodDeleted, SetPod
<1>2. UNCHANGED kv \/ \E r \in Requests : PutOffer(r)
  BY Zenon DEF HandlerStep, PassThrough, ConnectFails, PutPending, PutFails, LabelPanic,
     PublishOffer, PublishFails, PollStolen, WaitExpires, PollFails, Respond,
     WebhookTimeout, AckWaitExpires, Deliver, DonorCrash, DonorPodDeleted,
     PodStarts, PodEnds, PodDeleted, SetPod
<1>3. \A k \in Keys : NoFqdn(k)
  BY <1>2, PutHasNoFqdn DEF ExposeInv, NoFqdn
<1> QED BY <1>1, <1>3, ExposeKept DEF Quiet

\* Claims, reads and the steps around the pod.
LEMMA ExposeHandler ==
  ASSUME ExposeInv, Typed', NEW s \in Stealers,
         \/ CheckPod(s) \/ ReadOpen(s) \/ ReadOwn(s) \/ ReadTaken(s) \/ ReadFails(s)
         \/ Claim(s) \/ LoseClaim(s) \/ ClaimFails(s) \/ AckClaim(s)
         \/ CreatePod(s) \/ WaitRunning(s) \/ AckAgain(s) \/ Crash(s)
  PROVE  ExposeInv'
<1> USE DEF donorVars, brokerVars, clusterVars, historyVars
<1>0. worker \in [Stealers -> WorkerState] /\ worker[s] \in WorkerState /\ Typed
  BY DEF ExposeInv, Typed, TypeOK
<1>1. UNCHANGED <<svc, exports>>
  BY Zenon DEF CheckPod, ReadOpen, ReadOwn, ReadTaken, ReadFails, Reading, Claim, LoseClaim,
     ClaimFails, Claiming, AckClaim, CreatePod, WaitRunning, AckAgain, Crash
<1>2. \A k \in Keys : NoFqdn(k)
  <2>1. UNCHANGED kv \/ (worker[s].pc = "claim" /\ WriteOwn(s, FALSE))
    BY Zenon DEF CheckPod, ReadOpen, ReadOwn, ReadTaken, ReadFails, Reading, Claim, LoseClaim,
       ClaimFails, Claiming, TakeOffer, AckClaim, CreatePod, WaitRunning, AckAgain, Crash
  <2>2. CASE UNCHANGED kv
    BY <2>2 DEF NoFqdn
  <2>3. CASE worker[s].pc = "claim" /\ WriteOwn(s, FALSE)
    BY <1>0, <2>3, ClaimHasNoFqdn DEF Typed, Busy, Msg
  <2> QED BY <2>1, <2>2, <2>3
<1>3. \A t \in Stealers : Quiet(t)
  <2>1. CASE CheckPod(s)
    <3>1. CASE UNCHANGED worker
      BY <3>1 DEF Quiet
    <3>2. CASE worker' = [worker EXCEPT ![s] = [Idle EXCEPT !.pc = "read", !.msg = Head(inbox[s])]]
      BY <1>0, <3>2 DEF Quiet, Idle
    <3> QED BY <2>1, <3>1, <3>2 DEF CheckPod
  <2>2. CASE ReadOpen(s) \/ ReadOwn(s)
    BY <1>0, <2>2, GoOnIsQuiet DEF ReadOpen, ReadOwn, Reading, WorkerState
  <2>3. CASE ReadTaken(s) \/ ReadFails(s) \/ AckAgain(s) \/ Crash(s)
    BY <1>0, <2>3, ReturnIsQuiet DEF ReadTaken, ReadFails, AckAgain, Crash
  <2>4. CASE Claim(s) \/ LoseClaim(s)
    BY <1>0, <2>4, GoOnIsQuiet DEF Claim, LoseClaim, Claiming, Goto, WorkerState
  <2>5. CASE ClaimFails(s) \/ AckClaim(s)
    BY <1>0, <2>5, GoOnIsQuiet DEF ClaimFails, Claiming, AckClaim, WorkerState
  <2>6. CASE CreatePod(s) \/ WaitRunning(s)
    <3>1. \E pc \in {"wait", "reack", "expose", "publish"} :
             worker' = [worker EXCEPT ![s] = [worker[s] EXCEPT !.pc = pc]]
      BY <2>6 DEF CreatePod, WaitRunning, Goto, Stolen
    <3>2. worker[s].pc # "publish"
      BY <2>6 DEF CreatePod, WaitRunning
    <3>3. PICK pc \in {"wait", "reack", "expose", "publish"} :
             worker' = [worker EXCEPT ![s] = [worker[s] EXCEPT !.pc = pc]]
      BY <3>1
    <3> DEFINE w == [worker[s] EXCEPT !.pc = pc]
    <3>4. w.exposed = worker[s].exposed /\ w.pc # "export"
      BY <1>0, <3>3 DEF WorkerState
    <3> HIDE DEF w
    <3> QED BY <3>2, <3>3, <3>4, GoOnIsQuiet DEF w
  <2> QED BY <2>1, <2>2, <2>3, <2>4, <2>5, <2>6
<1> QED BY <1>1, <1>2, <1>3, ExposeKept

LEMMA ExposePublish ==
  ASSUME ExposeInv, Typed', NEW s \in Stealers,
         PublishDetails(s) \/ RetryPublish(s) \/ PublishDetailsFails(s)
  PROVE  ExposeInv'
<1> USE DEF donorVars, clusterVars, historyVars
<1>0. /\ worker \in [Stealers -> WorkerState] /\ kv \in [Keys -> StealerDetails]
      /\ Msg(s) \in Requests /\ Key(Msg(s)) \in Keys
  BY KeyType DEF ExposeInv, Typed, TypeOK, Busy, Msg,
     PublishDetails, RetryPublish, PublishDetailsFails, Publishing
<1>1. UNCHANGED <<svc, exports>>
  BY DEF PublishDetails, RetryPublish, PublishDetailsFails, Publishing
<1>2. ServiceFirst'
  BY <1>1 DEF ExposeInv, ServiceFirst
<1>3. ASSUME NEW t \in Stealers PROVE ExportsOwn(t)'
  <2>1. CASE t # s
    <3>1. worker'[t] = worker[t]
      BY <1>0, <2>1 DEF PublishDetails, RetryPublish, PublishDetailsFails, Return
    <3> QED BY <1>1, <3>1 DEF ExposeInv, ExportsOwn, Msg
  <2>2. CASE t = s /\ Return(s)
    BY <1>0, <2>2 DEF Return, Idle, ExportsOwn
  <2>3. CASE t = s /\ worker' = [worker EXCEPT ![s].rev = Entry(s).rev, ![s].tries = @ - 1]
    <3>1. /\ worker'[s].exposed = worker[s].exposed /\ worker'[s].pc = worker[s].pc
          /\ worker'[s].msg = worker[s].msg
      BY <1>0, <2>3 DEF WorkerState
    <3> QED BY <1>1, <2>3, <3>1 DEF ExposeInv, ExportsOwn, Msg
  <2> QED BY <2>1, <2>2, <2>3 DEF PublishDetails, RetryPublish, PublishDetailsFails
<1>4. EntryLeads'
  <2>1. CASE UNCHANGED kv
    BY <1>1, <2>1 DEF ExposeInv, EntryLeads, Exported
  <2>2. CASE WriteOwn(s, worker[s].exposed)
    <3>1. \A k \in Keys : k # Key(Msg(s)) => kv'[k] = kv[k]
      BY <1>0, <2>2 DEF WriteOwn
    <3>2. /\ kv'[Key(Msg(s))].owner = s
          /\ kv'[Key(Msg(s))].fqdn = worker[s].exposed
      BY <1>0, <2>2 DEF WriteOwn
    <3>3. worker[s].exposed => Exported(exports', Key(Msg(s)), s)
      BY <1>0, <1>1, KeyPod DEF ExposeInv, ExportsOwn, Exported
    <3>4. ASSUME NEW k \in Keys, kv'[k].fqdn
          PROVE  kv'[k].owner \in Stealers /\ Exported(exports', k, kv'[k].owner)
      <4>1. CASE k = Key(Msg(s))
        BY <3>2, <3>3, <3>4, <4>1 DEF Exported
      <4>2. CASE k # Key(Msg(s))
        BY <1>1, <3>1, <3>4, <4>2 DEF ExposeInv, EntryLeads, Exported
      <4> QED BY <4>1, <4>2
    <3> QED BY <3>4 DEF EntryLeads, Exported
  <2> QED BY <2>1, <2>2 DEF PublishDetails, RetryPublish, PublishDetailsFails
<1> QED BY <1>2, <1>3, <1>4 DEF ExposeInv

LEMMA ExposeService ==
  ASSUME ExposeInv, Typed', NEW s \in Stealers, CreateService(s)
  PROVE  ExposeInv'
<1> USE DEF donorVars, brokerVars, historyVars
<1> DEFINE p == PodOf[Msg(s)]
<1>0. /\ worker \in [Stealers -> WorkerState] /\ worker[s] \in WorkerState
      /\ svc \in [Stealers -> [Pods -> Requests \cup {None}]]
      /\ Msg(s) \in Requests /\ p \in Pods
  BY KeyType DEF ExposeInv, Typed, TypeOK, Busy, Msg, CreateService
<1>1. UNCHANGED <<kv, exports>>
  BY DEF CreateService
<1>2. \A t \in Stealers, q \in Pods : svc'[t][q] # svc[t][q] =>
         t = s /\ q = p /\ svc[t][q] = None /\ svc'[t][q] = Msg(s)
  BY <1>0 DEF CreateService, AddService
<1>3. ServiceFirst'
  BY <1>0, <1>1, <1>2, NonRequest DEF ExposeInv, ServiceFirst
<1>4. EntryLeads'
  BY <1>1 DEF ExposeInv, EntryLeads, Exported
<1>5. ASSUME NEW t \in Stealers PROVE ExportsOwn(t)'
  <2>1. CASE t # s
    <3>1. worker'[t] = worker[t] /\ svc'[t] = svc[t]
      BY <1>0, <2>1 DEF CreateService, AddService, Goto, Return
    <3> QED BY <1>1, <3>1 DEF ExposeInv, ExportsOwn, Msg
  <2>2. CASE t = s /\ Return(s)
    BY <1>0, <2>2 DEF Return, Idle, ExportsOwn
  <2>3. CASE t = s /\ AddService(s) /\ Goto(s, "export")
    <3>1. /\ worker'[s].pc = "export" /\ worker'[s].msg = worker[s].msg
          /\ worker'[s].exposed = worker[s].exposed
      BY <1>0, <2>3 DEF Goto, WorkerState
    <3>2. ~worker[s].exposed
      BY DEF CreateService, ExposeInv, ExportsOwn
    <3>3. svc'[s][p] = Msg(s) /\ exports[s][p] = None
      BY <1>0, <2>3 DEF AddService, ExposeInv, ServiceFirst
    <3> QED BY <1>1, <2>3, <3>1, <3>2, <3>3 DEF ExportsOwn, Msg
  <2> QED BY <2>1, <2>2, <2>3 DEF CreateService
<1> QED BY <1>3, <1>4, <1>5 DEF ExposeInv

\* An export is made for good: it is only made where there is none.
LEMMA ExportsStay ==
  ASSUME ExposeInv, NEW s \in Stealers, ExportService(s),
         NEW t \in Stealers, NEW q \in Pods, exports[t][q] # None
  PROVE  exports'[t][q] = exports[t][q]
<1>1. Msg(s) \in Requests /\ PodOf[Msg(s)] \in Pods
  BY KeyType DEF ExposeInv, Typed, Busy, Msg, ExportService
<1>2. exports \in [Stealers -> [Pods -> Requests \cup {None}]]
  BY DEF ExposeInv, Typed, TypeOK
<1>3. exports[s][PodOf[Msg(s)]] = None
  BY DEF ExposeInv, ExportsOwn, ExportService
<1> QED BY <1>1, <1>2, <1>3 DEF ExportService, AddExport

LEMMA ExposeExport ==
  ASSUME ExposeInv, Typed', NEW s \in Stealers, ExportService(s)
  PROVE  ExposeInv'
<1> USE DEF donorVars, brokerVars, historyVars
<1> DEFINE p == PodOf[Msg(s)]
<1>0. /\ worker \in [Stealers -> WorkerState] /\ worker[s] \in WorkerState
      /\ exports \in [Stealers -> [Pods -> Requests \cup {None}]]
      /\ Msg(s) \in Requests /\ p \in Pods
  BY KeyType DEF ExposeInv, Typed, TypeOK, Busy, Msg, ExportService
<1>1. UNCHANGED <<kv, svc>> /\ svc[s][p] = Msg(s)
  BY DEF ExportService, ExposeInv, ExportsOwn
<1>2. \A t \in Stealers, q \in Pods : exports'[t][q] # exports[t][q] => t = s /\ q = p
  BY <1>0 DEF ExportService, AddExport
<1>3. ServiceFirst'
  BY <1>0, <1>1, <1>2, NonRequest DEF ExposeInv, ServiceFirst
<1>4. EntryLeads'
  <2> SUFFICES ASSUME NEW k \in Keys, kv[k].fqdn
               PROVE  kv[k].owner \in Stealers /\ Exported(exports', k, kv[k].owner)
    BY <1>1 DEF EntryLeads, Exported
  <2>1. PICK q \in Requests : /\ kv[k].owner \in Stealers
                              /\ Key(q) = k /\ exports[kv[k].owner][k[2]] = q
    BY DEF ExposeInv, EntryLeads, Exported
  <2>2. k[2] \in Pods
    BY DEF Keys
  <2>3. exports'[kv[k].owner][k[2]] = q
    BY <2>1, <2>2, NonRequest, ExportsStay
  <2> QED BY <1>1, <2>1, <2>3 DEF Exported
<1>5. ASSUME NEW t \in Stealers PROVE ExportsOwn(t)'
  <2>1. CASE t # s
    <3>1. worker'[t] = worker[t] /\ exports'[t] = exports[t]
      BY <1>0, <2>1 DEF ExportService, AddExport, Return
    <3> QED BY <1>1, <3>1 DEF ExposeInv, ExportsOwn, Msg
  <2>2. CASE t = s /\ Return(s)
    BY <1>0, <2>2 DEF Return, Idle, ExportsOwn
  <2>3. CASE t = s /\ AddExport(s)
             /\ worker' = [worker EXCEPT ![s].pc = "publish", ![s].exposed = TRUE]
    <3>1. worker'[s].pc = "publish" /\ worker'[s].msg = worker[s].msg
      BY <1>0, <2>3 DEF WorkerState
    <3>2. exports'[s][p] = Msg(s)
      BY <1>0, <2>3 DEF AddExport
    <3> QED BY <2>3, <3>1, <3>2 DEF ExportsOwn, Msg
  <2> QED BY <2>1, <2>2, <2>3 DEF ExportService
<1> QED BY <1>3, <1>4, <1>5 DEF ExposeInv

LEMMA ExposeNext == ASSUME ExposeInv, [Next]_vars PROVE ExposeInv'
<1>0. Typed'
  BY TypedStep DEF ExposeInv
<1>1. CASE UNCHANGED vars
  BY <1>0, <1>1, ExposeKept DEF vars, Quiet, NoFqdn
<1>2. CASE \E s \in Stealers : WorkerStep(s) \/ Crash(s)
  BY <1>0, <1>2, ExposeHandler, ExposePublish, ExposeService, ExposeExport DEF WorkerStep
<1>3. CASE Next /\ ~\E s \in Stealers : WorkerStep(s) \/ Crash(s)
  <2>1. \/ \E r \in Requests : \/ HandlerStep(r) \/ WebhookTimeout(r)
                               \/ AckWaitExpires(r)
                               \/ \E s \in Stealers : Deliver(r, s)
        \/ \E d \in Donors : DonorCrash(d)
        \/ \E k \in Keys : DonorPodDeleted(k)
        \/ \E s \in Stealers, p \in Pods : PodStarts(s, p) \/ PodEnds(s, p) \/ PodDeleted(s, p)
    BY <1>3, Zenon DEF Next, ProtocolStep
  <2> QED BY <1>0, <2>1, ExposeDonor
<1> QED BY <1>1, <1>2, <1>3

------------------------------------------------------------------------------
(* The goroutines.                                                            *)

FetchLeads ==
  \A r \in Requests : fetch[r].from # None =>
     fetch[r].from \in Stealers /\ Exported(exports, Key(r), fetch[r].from)

AccessInv == ExposeInv /\ AccessTypeOK /\ FetchLeads

LEMMA AccessInvInit == AccessInit => AccessInv
<1> SUFFICES ASSUME AccessInit PROVE AccessInv
  OBVIOUS
<1>1. ExposeInv
  BY ExposeInit DEF AccessInit
<1>2. AccessTypeOK
  BY AccessAssumption DEF AccessInit, AccessTypeOK, Goroutine, FetchPCs
<1>3. FetchLeads
  BY DEF AccessInit, FetchLeads
<1> QED BY <1>1, <1>2, <1>3 DEF AccessInv

\* No step of the protocol takes an export back.
LEMMA ExportedStays ==
  ASSUME ExposeInv, [Next]_vars, NEW r \in Requests, NEW s \in Stealers, Exported(exports, Key(r), s)
  PROVE  Exported(exports', Key(r), s)
<1>1. PICK q \in Requests : Key(q) = Key(r) /\ exports[s][Key(r)[2]] = q
  BY DEF Exported
<1>2. PodOf[r] \in Pods /\ Key(r)[2] = PodOf[r]
  BY KeyType, KeyPod
<1>3. CASE UNCHANGED exports
  BY <1>1, <1>3 DEF Exported
<1>4. CASE \E t \in Stealers : ExportService(t)
  <2>1. exports'[s][PodOf[r]] = exports[s][PodOf[r]]
    BY <1>1, <1>2, <1>4, NonRequest, ExportsStay
  <2> QED BY <1>1, <1>2, <2>1 DEF Exported
<1>5. UNCHANGED exports \/ \E t \in Stealers : ExportService(t)
  BY Zenon DEF Next, ProtocolStep, vars, donorVars, brokerVars, clusterVars, historyVars,
     HandlerStep, PassThrough, ConnectFails, PutPending, PutFails, LabelPanic,
     PublishOffer, PublishFails, PollStolen, WaitExpires, PollFails, Respond,
     WebhookTimeout, AckWaitExpires, Deliver, DonorCrash, DonorPodDeleted,
     PodStarts, PodEnds, PodDeleted, SetPod,
     WorkerStep, CheckPod, ReadOpen, ReadOwn, ReadTaken, ReadFails, Reading, Claim, LoseClaim,
     ClaimFails, Claiming, AckClaim, CreatePod, WaitRunning, AckAgain, Crash, CreateService,
     PublishDetails, RetryPublish, PublishDetailsFails, Publishing
<1> QED BY <1>3, <1>4, <1>5

LEMMA MishapType == ASSUME AccessTypeOK, NEW kind \in MishapKinds, Mishap(kind)
                    PROVE  mishaps' \in [MishapKinds -> Nat]
  BY DEF AccessTypeOK, Mishap

\* A step of the goroutine within its program keeps where its FQDN is from.
LEMMA StepType ==
  ASSUME AccessTypeOK, NEW r \in Requests, NEW pc \in FetchPCs, Step(r, pc),
         pc = "failed" \/ fetch[r].pc \in {"update", "list", "proxy", "done"}
  PROVE  /\ fetch' \in [Requests -> Goroutine]
         /\ \A q \in Requests : fetch'[q].from = fetch[q].from
         /\ \A q \in Requests : fetch'[q].pc \in {"update", "list", "proxy", "done"}
                                   => fetch'[q].from # None
  BY DEF AccessTypeOK, Goroutine, Step

LEMMA AccessGoroutine ==
  ASSUME AccessInv, NEW r \in Requests, GoroutineStep(r)
  PROVE  AccessTypeOK' /\ FetchLeads'
<1>0. UNCHANGED vars
  BY GoroutineLeavesProtocol
<1>1. UNCHANGED <<exports, kv, dpod, req>>
  BY <1>0 DEF vars
<1>2. Key(r) \in Keys /\ AccessTypeOK /\ FetchLeads /\ None \notin Stealers
  BY KeyType, AccessAssumption DEF AccessInv
<1>3. /\ "failed" \in FetchPCs /\ "list" \in FetchPCs /\ "done" \in FetchPCs
      /\ "proxy" \in FetchPCs /\ "update" \in FetchPCs
      /\ "expire" \in MishapKinds /\ "fault" \in MishapKinds
  BY DEF FetchPCs, MishapKinds
<1>4. CASE GetFqdn(r)
  <2>1. kv[Key(r)].owner \in Stealers /\ Exported(exports, Key(r), kv[Key(r)].owner)
    BY <1>2, <1>4 DEF GetFqdn, AccessInv, ExposeInv, EntryLeads
  <2> DEFINE g == [fetch[r] EXCEPT !.pc = "update", !.from = kv[Key(r)].owner]
  <2>2. fetch \in [Requests -> Goroutine] /\ fetch[r] \in Goroutine
    BY <1>2 DEF AccessTypeOK
  <2>3. g \in Goroutine /\ g.from = kv[Key(r)].owner
    BY <1>3, <2>1, <2>2 DEF Goroutine
  <2>4. fetch' = [fetch EXCEPT ![r] = g]
    BY <1>4 DEF GetFqdn
  <2> HIDE DEF g
  <2>5. AccessTypeOK'
    BY <1>2, <1>4, <2>1, <2>2, <2>3, <2>4 DEF AccessTypeOK, GetFqdn, Smooth
  <2>6. FetchLeads'
    BY <1>1, <1>2, <2>1, <2>2, <2>3, <2>4 DEF FetchLeads, Exported
  <2> QED BY <2>5, <2>6
<1>5. CASE ~GetFqdn(r)
  <2>1. \E pc \in FetchPCs : /\ Step(r, pc)
                             /\ pc = "failed" \/ fetch[r].pc \in {"update", "list", "proxy", "done"}
    BY <1>3, <1>5 DEF GoroutineStep, PollsExpire, GetFails, UpdatePod, ListServices, CreateProxy, At
  <2>2. /\ fetch' \in [Requests -> Goroutine]
        /\ \A q \in Requests : fetch'[q].from = fetch[q].from
        /\ \A q \in Requests : fetch'[q].pc \in {"update", "list", "proxy", "done"}
                                  => fetch'[q].from # None
    BY <1>2, <2>1, StepType
  <2>3. FetchLeads'
    BY <1>1, <1>2, <2>2 DEF FetchLeads, Exported
  <2>4. /\ label' \in [Keys -> Requests \cup {None}]
        /\ proxy' \in [Keys -> Requests \cup {None}]
    BY <1>2, <1>5 DEF AccessTypeOK, GoroutineStep, PollsExpire, GetFails, UpdatePod,
                      ListServices, CreateProxy, MakeProxy
  <2>5. mishaps' \in [MishapKinds -> Nat]
    <3>1. UNCHANGED mishaps \/ Mishap("expire") \/ Mishap("fault")
      BY <1>5, Zenon DEF GoroutineStep, PollsExpire, GetFails, UpdatePod,
                  ListServices, CreateProxy, MakeProxy, Smooth
    <3> QED BY <1>2, <1>3, <3>1, MishapType DEF AccessTypeOK
  <2> QED BY <2>2, <2>3, <2>4, <2>5 DEF AccessTypeOK
<1> QED BY <1>4, <1>5

\* A step that starts or ends goroutines, and leaves the rest of them alone.
LEMMA AccessProtocol ==
  ASSUME AccessInv, [Next]_vars, Steal \/ \E d \in Donors : ProcessDies(d)
  PROVE  AccessTypeOK' /\ FetchLeads'
<1>1. AccessTypeOK /\ FetchLeads /\ ExposeInv
  BY DEF AccessInv
<1>2. fetch \in [Requests -> Goroutine] /\ \A r \in Requests : fetch[r] \in Goroutine
  BY <1>1 DEF AccessTypeOK
<1>3. \A r \in Requests : /\ [fetch[r] EXCEPT !.pc = "poll"] \in Goroutine
                          /\ [fetch[r] EXCEPT !.pc = "failed"] \in Goroutine
                          /\ [fetch[r] EXCEPT !.pc = "poll"].from = fetch[r].from
                          /\ [fetch[r] EXCEPT !.pc = "failed"].from = fetch[r].from
                          /\ [fetch[r] EXCEPT !.pc = "poll"].pc = "poll"
                          /\ [fetch[r] EXCEPT !.pc = "failed"].pc = "failed"
  BY <1>2 DEF Goroutine, FetchPCs
<1>4. /\ DOMAIN fetch' = Requests
      /\ fetch' = [r \in Requests |-> fetch'[r]]
      /\ \A r \in Requests : \/ fetch'[r] = fetch[r]
                             \/ fetch'[r] = [fetch[r] EXCEPT !.pc = "poll"]
                             \/ fetch'[r] = [fetch[r] EXCEPT !.pc = "failed"]
  BY DEF Steal, ProcessDies
<1>5. /\ fetch' \in [Requests -> Goroutine]
      /\ \A r \in Requests : fetch'[r].from = fetch[r].from
      /\ \A r \in Requests : fetch'[r].pc \in {"update", "list", "proxy", "done"}
                                => fetch'[r].from # None
  <2>1. \A r \in Requests :
           fetch[r].pc \in {"update", "list", "proxy", "done"} => fetch[r].from # None
    BY <1>1 DEF AccessTypeOK
  <2>2. ASSUME NEW r \in Requests
        PROVE  /\ fetch'[r] \in Goroutine /\ fetch'[r].from = fetch[r].from
               /\ fetch'[r].pc \in {fetch[r].pc, "poll", "failed"}
    BY <1>2, <1>3, <1>4
  <2>3. \A r \in Requests : fetch'[r].pc \in {"update", "list", "proxy", "done"}
                                => fetch'[r].from # None
    BY <2>1, <2>2
  <2> QED BY <1>4, <2>2, <2>3
<1>6. FetchLeads'
  <2> SUFFICES ASSUME NEW r \in Requests, fetch'[r].from # None
               PROVE  fetch'[r].from \in Stealers /\ Exported(exports', Key(r), fetch'[r].from)
    BY DEF FetchLeads, Exported
  <2>1. fetch[r].from \in Stealers /\ Exported(exports, Key(r), fetch[r].from)
    BY <1>1, <1>5 DEF FetchLeads
  <2>2. Exported(exports', Key(r), fetch[r].from)
    BY <1>1, <1>5, <2>1, ExportedStays DEF Exported
  <2> QED BY <1>5, <2>1, <2>2 DEF Exported
<1>7. label' \in [Keys -> Requests \cup {None}]
  BY <1>1 DEF AccessTypeOK, Steal, ProcessDies, Relabelled
<1>8. mishaps' \in [MishapKinds -> Nat] /\ UNCHANGED proxy
  <2> "death" \in MishapKinds
    BY DEF MishapKinds
  <2> QED BY <1>1, MishapType DEF AccessTypeOK, Steal, ProcessDies, Smooth
<1> QED BY <1>1, <1>5, <1>6, <1>7, <1>8 DEF AccessTypeOK

LEMMA AccessInvNext == ASSUME AccessInv, [AccessNext]_allVars PROVE AccessInv'
<1>1. [Next]_vars
  BY AccessStepIsStep
<1>2. ExposeInv'
  BY <1>1, ExposeNext DEF AccessInv
<1>3. AccessTypeOK' /\ FetchLeads'
  <2>1. CASE UNCHANGED allVars
    <3>1. UNCHANGED <<fetch, label, proxy, mishaps, exports>>
      BY <2>1 DEF allVars, accessVars, vars
    <3> QED BY <3>1 DEF AccessInv, AccessTypeOK, FetchLeads, Exported
  <2>2. CASE Steal \/ \E d \in Donors : ProcessDies(d)
    BY <1>1, <2>2, AccessProtocol
  <2>3. CASE \E r \in Requests : GoroutineStep(r)
    BY <2>3, AccessGoroutine
  <2> QED BY <2>1, <2>2, <2>3 DEF AccessNext
<1> QED BY <1>2, <1>3 DEF AccessInv

LEMMA AccessInvAlways == AccessSpec => []AccessInv
<1> QED BY AccessInvInit, AccessInvNext, PTL DEF AccessSpec

\* Whatever fails or dies, a goroutine past its poll has some stealer's FQDN.
THEOREM AccessTypeCorrect == AccessSpec => []AccessTypeOK
<1>1. AccessInv => AccessTypeOK
  BY DEF AccessInv
<1> QED BY <1>1, AccessInvAlways, PTL

\* An FQDN the donor's cluster gets to use is that of an exported Service,
\* whatever crashes, fails or is redelivered, and with any use of names.
THEOREM FqdnIsExportedTheorem == AccessSpec => []FqdnIsExported
<1>1. AccessInv => FqdnIsExported
  BY KeyPod DEF AccessInv, FetchLeads, Exported, FqdnIsExported
<1> QED BY <1>1, AccessInvAlways, PTL

------------------------------------------------------------------------------
(* Whose FQDN it is.  A goroutine runs for a request that was answered with a *)
(* stealer; among requests with names of their own that stealer owns the      *)
(* entry, so the FQDN in it is its own.                                       *)

ThiefOK(r) == /\ fetch[r].pc = "off" \/ req[r].by \in Stealers
              /\ fetch[r].from \in {None, req[r].by}
ThiefInv   == AccessInv /\ SoleInv /\ \A r \in Requests : ThiefOK(r)

LEMMA ThiefNext == ASSUME UniqueNames, ThiefInv, [AccessNext]_allVars PROVE ThiefInv'
<1>1. [Next]_vars
  BY AccessStepIsStep
<1>2. AccessInv' /\ SoleInv'
  BY <1>1, AccessInvNext, SoleInvStep DEF ThiefInv
<1>3. ASSUME NEW r \in Requests PROVE ThiefOK(r)'
  <2>1. /\ ThiefOK(r) /\ EntryOK(r) /\ Key(r) \in Keys
        /\ fetch \in [Requests -> Goroutine] /\ fetch[r] \in Goroutine
        /\ fetch[r].from # None => fetch[r].from \in Stealers
    BY Truths DEF ThiefInv, AccessInv, AccessTypeOK, FetchLeads
  <2>2. req[r].by \in Stealers => req'[r].by = req[r].by
    BY <1>1, AnswerStays DEF ThiefInv
  <2>3. CASE Steal
    <3>1. CASE Starts(r)
      <4>1. fetch'[r] = [fetch[r] EXCEPT !.pc = "poll"]
        BY <2>3, <3>1 DEF Steal
      <4>2. fetch'[r].from = fetch[r].from /\ req'[r].by \in Stealers
        BY <2>1, <3>1, <4>1 DEF Goroutine, Starts
      <4>3. fetch[r].from = None
        BY <2>1, <3>1, OwnersAssumption DEF ThiefOK, Starts
      <4> QED BY <4>2, <4>3 DEF ThiefOK
    <3>2. CASE ~Starts(r)
      <4>1. fetch'[r] = fetch[r]
        BY <2>3, <3>2 DEF Steal
      <4> QED BY <2>1, <2>2, <4>1 DEF ThiefOK
    <3> QED BY <3>1, <3>2
  <2>4. CASE \E d \in Donors : ProcessDies(d)
    <3>1. \/ fetch'[r] = fetch[r]
          \/ Alive(r) /\ fetch'[r] = [fetch[r] EXCEPT !.pc = "failed"]
      BY <2>4 DEF ProcessDies
    <3>2. /\ fetch'[r].from = fetch[r].from
          /\ fetch[r].pc = "off" => fetch'[r].pc = "off"
      BY <2>1, <3>1 DEF Goroutine, Alive
    <3> QED BY <2>1, <2>2, <3>2 DEF ThiefOK
  <2>5. ASSUME NEW q \in Requests, GoroutineStep(q) PROVE ThiefOK(r)'
    <3>1. UNCHANGED req
      BY <2>5, GoroutineLeavesProtocol DEF vars
    <3>2. CASE q # r
      <4>1. fetch'[r] = fetch[r]
        BY <2>1, <2>5, <3>2 DEF GoroutineStep, GetFqdn, PollsExpire, GetFails, UpdatePod,
           ListServices, CreateProxy, Step
      <4> QED BY <2>1, <3>1, <4>1 DEF ThiefOK
    <3>3. CASE q = r /\ GetFqdn(r)
      <4>1. fetch[r].pc = "poll" /\ kv[Key(r)].fqdn
        BY <3>3 DEF GetFqdn, At
      <4>2. req[r].by \in Stealers /\ kv[Key(r)].owner = req[r].by
        BY <2>1, <4>1 DEF ThiefOK, EntryOK
      <4>3. fetch'[r].from = kv[Key(r)].owner
        BY <2>1, <3>3 DEF GetFqdn, Goroutine
      <4> QED BY <3>1, <4>2, <4>3 DEF ThiefOK
    <3>4. CASE q = r /\ ~GetFqdn(r)
      <4>1. fetch[r].pc # "off" /\ \E pc : Step(r, pc)
        BY <2>5, <3>4 DEF GoroutineStep, PollsExpire, GetFails, UpdatePod, ListServices,
           CreateProxy, At
      <4>2. fetch'[r].from = fetch[r].from
        BY <2>1, <4>1 DEF Step, Goroutine
      <4> QED BY <2>1, <3>1, <4>1, <4>2 DEF ThiefOK
    <3> QED BY <2>5, <3>2, <3>3, <3>4
  <2>6. CASE UNCHANGED allVars
    BY <2>1, <2>6 DEF allVars, accessVars, vars, ThiefOK
  <2> QED BY <2>3, <2>4, <2>5, <2>6 DEF AccessNext
<1> QED BY <1>2, <1>3 DEF ThiefInv

\* The FQDN that the goroutine takes is the one of the stealer the webhook
\* answered with, whatever happens to the goroutines, among requests with names
\* of their own; as long as no call of the protocol fails and no copy that a
\* stealer still holds is redelivered.
THEOREM FqdnOfOwnThiefTheorem ==
  ASSUME UniqueNames, Budget["fault"] = 0, Budget["slow"] = 0
  PROVE  AccessSpec => []FqdnOfOwnThief
<1>1. AccessInit => ThiefInv
  <2> SUFFICES ASSUME AccessInit PROVE ThiefInv
    OBVIOUS
  <2>1. AccessInv /\ SoleInv
    BY AccessInvInit, RunInit, SoleInvInit DEF AccessInit
  <2> QED BY <2>1 DEF AccessInit, ThiefInv, ThiefOK
<1>2. ThiefInv /\ [AccessNext]_allVars => ThiefInv'
  BY ThiefNext
<1>3. ThiefInv => FqdnOfOwnThief
  BY DEF ThiefInv, ThiefOK, FqdnOfOwnThief
<1> QED BY <1>1, <1>2, <1>3, PTL DEF AccessSpec
==============================================================================
