--------------------------- MODULE StealRun_proofs ---------------------------
(* Theorems about StealProtocol as long as no call fails: what a stealer      *)
(* executes was taken out of the donor's hands first, and leaves a            *)
(* placeholder there.                                                         *)
EXTENDS StealProtocol_proofs

\* A handler past its claim, and whoever created the pod, know that the offer
\* is passed.
Claimed == {"ack", "create", "wait", "reack", "expose", "export", "publish"}
ClaimedOK(s) == worker[s].pc \in Claimed => Passed(Msg(s))
RanOK(r)     == ran[r] # {} => Passed(r) /\ req[r].rev > 0

RunInv == /\ Inv
          /\ left["fault"] = 0
          /\ ran \in [Requests -> SUBSET Stealers]
          /\ \A s \in Stealers : ClaimedOK(s)
          /\ \A r \in Requests : RanOK(r)

\* Every step is free or paid for from one kind of the budget; what is used up
\* stays so.
LEMMA StepSpends == ASSUME Next PROVE Free \/ \E kind \in Kinds : Spend(kind)
<1>1. ASSUME NEW r \in Requests, HandlerStep(r) PROVE Free \/ \E kind \in Kinds : Spend(kind)
  BY <1>1 DEF HandlerStep, PassThrough, ConnectFails, PutPending, PutFails, LabelPanic,
     PublishOffer, PublishFails, PollStolen, WaitExpires, PollFails, Respond, Fault, Kinds
<1>2. ASSUME NEW s \in Stealers, WorkerStep(s) PROVE Free \/ \E kind \in Kinds : Spend(kind)
  BY <1>2 DEF WorkerStep, CheckPod, ReadOpen, ReadOwn, ReadTaken, ReadFails, Claim,
     LoseClaim, ClaimFails, AckClaim, CreatePod, WaitRunning, AckAgain, CreateService,
     ExportService, PublishDetails, RetryPublish, PublishDetailsFails, Ack, Fault, Kinds
<1> QED BY <1>1, <1>2 DEF Next, ProtocolStep, WebhookTimeout, AckWaitExpires, DonorCrash,
           DonorPodDeleted, Crash, Deliver, PodStarts, PodEnds, PodDeleted, Kinds

LEMMA UsedUp == ASSUME Typed, Next, NEW kind \in Kinds, left[kind] = 0
                PROVE  ~Spend(kind) /\ left'[kind] = 0
<1>1. left \in [Kinds -> Nat]
  BY DEF Typed, TypeOK
<1>2. ~Spend(kind)
  BY DEF Spend
<1>3. CASE Free
  BY <1>2, <1>3 DEF Free
<1>4. ASSUME NEW other \in Kinds \ {kind}, Spend(other) PROVE left'[kind] = 0
  BY <1>1, <1>4 DEF Spend
<1> QED BY <1>2, <1>3, <1>4, StepSpends

LEMMA NoFault == ASSUME RunInv, Next PROVE ~Fault /\ left'["fault"] = 0
  BY UsedUp DEF RunInv, Inv, Fault, Kinds

\* Entries are only ever rewritten at a higher revision.
LEMMA GrowingStep == ASSUME RunInv, Typed', Next PROVE Growing
<1> USE DEF donorVars, brokerVars, clusterVars, historyVars
<1>1. /\ kv \in [Keys -> StealerDetails] /\ req \in [Requests -> Handler]
      /\ ~Fault
      /\ \A q \in Requests : /\ Key(q) \in Keys /\ kv[Key(q)].rev \in Nat
                             /\ req[q].pc = "new" => req[q].rev = 0
  BY KeyType, Revisions, NoFault DEF RunInv, Inv, Typed, TypeOK, OfferOK
<1>2. ASSUME UNCHANGED kv PROVE \A r \in Requests : kv[Key(r)].rev <= kv'[Key(r)].rev
  BY <1>1, <1>2
<1>3. ASSUME NEW r \in Requests, HandlerStep(r) PROVE UNCHANGED kv \/ PutOffer(r)
  BY <1>3 DEF HandlerStep, PassThrough, ConnectFails, PutPending, PutFails, LabelPanic,
     PublishOffer, PublishFails, PollStolen, WaitExpires, PollFails, Respond
<1>4. ASSUME NEW s \in Stealers, WorkerStep(s)
      PROVE  UNCHANGED kv \/ \E fqdn \in BOOLEAN : WriteOwn(s, fqdn)
  <2>1. worker[s].exposed \in BOOLEAN
    BY DEF RunInv, Inv, Typed, TypeOK, WorkerState
  <2> QED BY <1>4, <2>1 DEF WorkerStep, CheckPod, Reading, ReadOpen, ReadOwn, ReadTaken,
             ReadFails, Claiming, Claim, LoseClaim, ClaimFails, TakeOffer, AckClaim, CreatePod,
             WaitRunning, AckAgain, CreateService, ExportService, Publishing, PublishDetails,
             RetryPublish, PublishDetailsFails
<1>5. \/ UNCHANGED kv
      \/ \E r \in Requests : PutOffer(r)
      \/ \E s \in Stealers : \E fqdn \in BOOLEAN : WriteOwn(s, fqdn)
  BY <1>3, <1>4 DEF Next, ProtocolStep, WebhookTimeout, AckWaitExpires, DonorCrash,
     DonorPodDeleted, Crash, Deliver, PodStarts, PodEnds, PodDeleted, SetPod
<1>6. \A q \in Requests : kv[Key(q)].rev <= kv'[Key(q)].rev
  BY <1>1, <1>2, <1>5 DEF PutOffer, WriteOwn
<1>7. ASSUME NEW q \in Requests, req[q].rev > 0 PROVE req'[q].rev = req[q].rev
  <2>1. req[q] \in Handler /\ ~PutPending(q)
    BY <1>1, <1>7 DEF PutPending, Arrives
  <2>2. CASE HandlerStep(q)
    <3>1. CASE LabelPanic(q) \/ PublishOffer(q)
      BY <1>1, <2>1, <3>1 DEF LabelPanic, PublishOffer, Handler
    <3>2. CASE Respond(q)
      BY <1>1, <2>1, <3>2 DEF Respond, Handler
    <3>3. CASE \E who : Decide(q, who)
      BY <1>1, <2>1, <3>3 DEF Decide, Handler
    <3> QED BY <2>1, <2>2, <3>1, <3>2, <3>3 DEF HandlerStep, PassThrough, ConnectFails,
               PutFails, PublishFails, PollStolen, WaitExpires, PollFails
  <2> QED BY <2>1, <2>2, RequestMoves DEF RunInv, Inv, Handler
<1> QED BY <1>6, <1>7 DEF Growing

LEMMA PassedKept == ASSUME Typed, Typed', Growing, NEW r \in Requests, Passed(r), req[r].rev > 0
                    PROVE  Passed(r)' /\ req'[r].rev > 0
  BY Revisions, NextRevisions DEF Growing, Passed

\* A claim, won or lost, leaves the offer passed.
LEMMA ClaimPasses == ASSUME RunInv, Typed', NEW s \in Stealers, Claim(s) \/ LoseClaim(s)
                     PROVE  Passed(Msg(s))'
<1> DEFINE m == Msg(s)
<1>1. /\ m \in Requests /\ worker[s].pc = "claim" /\ worker[s] \in WorkerState
      /\ kv \in [Keys -> StealerDetails] /\ Key(m) \in Keys
    BY KeyType DEF RunInv, Inv, Typed, TypeOK, Busy, Msg, Claim, LoseClaim, Claiming
<1>2. /\ req[m].rev \in Nat /\ kv[Key(m)].rev \in Nat /\ kv'[Key(m)].rev \in Nat
      /\ worker[s].rev \in Nat
  BY <1>1, Revisions, NextRevisions DEF RunInv, Inv, WorkerState
<1>3. req[m].rev <= worker[s].rev /\ worker[s].rev <= kv[Key(m)].rev
  BY <1>1 DEF RunInv, Inv, WorkerOK, Entry, Msg
<1>4. UNCHANGED req /\ worker'[s].msg = m
  BY <1>1 DEF Claim, LoseClaim, Claiming, Goto, donorVars, WorkerState, Msg,
     RunInv, Inv, Typed, TypeOK
<1>5. req[m].rev < kv'[Key(m)].rev
  <2>1. CASE Claim(s)
    <3>1. kv'[Key(m)].rev = kv[Key(m)].rev + 1
      BY <1>1, <2>1 DEF Claim, TakeOffer, WriteOwn
    <3> QED BY <1>2, <1>3, <3>1
  <2>2. CASE LoseClaim(s)
    <3>1. kv' = kv /\ worker[s].rev # kv[Key(m)].rev
      BY <2>2 DEF LoseClaim, AtRevision, Entry
    <3> QED BY <1>2, <1>3, <3>1
  <2> QED BY <2>1, <2>2
<1> QED BY <1>4, <1>5 DEF Passed, Msg

LEMMA ClaimedStep == ASSUME RunInv, Typed', Next, NEW s \in Stealers PROVE ClaimedOK(s)'
<1> USE DEF donorVars, brokerVars, clusterVars, historyVars
<1>1. Growing /\ ~Fault
  BY GrowingStep, NoFault
<1>2. worker \in [Stealers -> WorkerState] /\ worker[s] \in WorkerState
  BY DEF RunInv, Inv, Typed, TypeOK
<1>3. worker[s].pc # "idle" => Msg(s) \in Requests /\ req[Msg(s)].rev > 0
  BY DEF RunInv, Inv, Typed, Busy, WorkerOK, Msg
<1>4. ASSUME worker[s].pc \in Claimed, worker'[s].msg = worker[s].msg PROVE ClaimedOK(s)'
  <2>1. Passed(Msg(s))'
    <3>1. Passed(Msg(s)) /\ Msg(s) \in Requests /\ req[Msg(s)].rev > 0
      BY <1>3, <1>4 DEF RunInv, ClaimedOK, Claimed
    <3>2. req'[Msg(s)].rev < kv'[Key(Msg(s))].rev
      BY <1>1, <3>1, PassedKept DEF RunInv, Inv, Passed
    <3> QED BY <1>4, <3>2 DEF Passed, Msg
  <2> QED BY <2>1 DEF ClaimedOK
<1>5. ASSUME worker'[s].pc \notin Claimed PROVE ClaimedOK(s)'
  BY <1>5 DEF ClaimedOK
<1>6. CASE UNCHANGED worker[s]
  BY <1>4, <1>5, <1>6
<1>7. CASE Return(s)
  BY <1>2, <1>5, <1>7 DEF Return, Idle, Claimed
<1>8. CASE WorkerStep(s)
  <2>1. CASE CheckPod(s) \/ ReadOpen(s)
    <3>1. UNCHANGED worker[s] \/ worker'[s].pc \in {"read", "claim"}
      BY <1>2, <2>1 DEF CheckPod, ReadOpen, Idle, WorkerState
    <3> QED BY <1>5, <1>6, <3>1 DEF Claimed
  <2>2. CASE ReadOwn(s)
    <3>1. /\ worker'[s].msg = Msg(s) /\ Msg(s) \in Requests /\ UNCHANGED <<req, kv>>
      BY <1>2, <1>3, <2>2 DEF ReadOwn, Reading, WorkerState, Msg
    <3>2. Entry(s).owner # Pending
      BY <2>2, OwnersAssumption DEF ReadOwn
    <3>3. Passed(Msg(s))
      <4>1. OfferOK(Msg(s)) /\ req[Msg(s)].rev \in Nat /\ kv[Key(Msg(s))].rev \in Nat
        BY <3>1, Revisions DEF RunInv, Inv
      <4> QED BY <1>3, <2>2, <3>2, <4>1 DEF ReadOwn, Reading, OfferOK, OpenOffer, Passed, Entry
    <3> QED BY <3>1, <3>3 DEF ClaimedOK, Passed, Msg
  <2>3. CASE Claim(s) \/ LoseClaim(s)
    BY <2>3, ClaimPasses DEF ClaimedOK
  <2>4. CASE AckClaim(s) \/ CreatePod(s) \/ WaitRunning(s)
    <3>1. worker[s].pc \in Claimed /\ worker'[s].msg = worker[s].msg
      BY <1>2, <2>4 DEF AckClaim, CreatePod, WaitRunning, Goto, Stolen, Claimed, WorkerState
    <3> QED BY <1>4, <3>1
  <2>5. CASE (CreateService(s) \/ ExportService(s)) /\ ~Return(s)
    <3>1. worker[s].pc \in Claimed /\ worker'[s].msg = worker[s].msg
      BY <1>1, <1>2, <2>5 DEF CreateService, ExportService, Goto, Claimed, WorkerState
    <3> QED BY <1>4, <3>1
  <2>6. CASE RetryPublish(s) /\ ~Return(s)
    <3>1. worker[s].pc \in Claimed /\ worker'[s].msg = worker[s].msg
      BY <1>2, <2>6 DEF RetryPublish, Publishing, Claimed, WorkerState
    <3> QED BY <1>4, <3>1
  <2> QED BY <1>1, <1>7, <1>8, <2>1, <2>2, <2>3, <2>4, <2>5, <2>6 DEF WorkerStep, ReadTaken,
             ReadFails, ClaimFails, AckAgain, PublishDetails, PublishDetailsFails
<1>9. CASE Crash(s)
  BY <1>7, <1>9 DEF Crash
<1> QED BY <1>6, <1>8, <1>9, StealerMoves DEF RunInv, Inv

\* A pod is made of a message by its worker, at one place in the handler.
LEMMA RanMade ==
  ASSUME Next
  PROVE  (\E s \in Stealers : MakePod(s) /\ worker[s].pc = "create") \/ UNCHANGED ran
<1> USE DEF donorVars, brokerVars, clusterVars, historyVars
<1>1. ASSUME NEW q \in Requests, HandlerStep(q) PROVE UNCHANGED ran
  BY <1>1 DEF HandlerStep, PassThrough, ConnectFails, PutPending, PutFails, LabelPanic,
     PublishOffer, PublishFails, PollStolen, WaitExpires, PollFails, Respond
<1>2. ASSUME NEW s \in Stealers, WorkerStep(s)
      PROVE  (MakePod(s) /\ worker[s].pc = "create") \/ UNCHANGED ran
  BY <1>2 DEF WorkerStep, CheckPod, Reading, ReadOpen, ReadOwn, ReadTaken, ReadFails,
     Claiming, Claim, LoseClaim, ClaimFails, AckClaim, CreatePod, WaitRunning, AckAgain,
     CreateService, ExportService, Publishing, PublishDetails, RetryPublish, PublishDetailsFails
<1>3. ASSUME NEW s \in Stealers, NEW p \in Pods,
             PodStarts(s, p) \/ PodEnds(s, p) \/ PodDeleted(s, p)
      PROVE  UNCHANGED ran
  BY <1>3 DEF PodStarts, PodEnds, PodDeleted, SetPod
<1>4. ASSUME NEW q \in Requests,
             \/ WebhookTimeout(q) \/ AckWaitExpires(q)
             \/ \E s \in Stealers : Deliver(q, s)
      PROVE  UNCHANGED ran
  BY <1>4 DEF WebhookTimeout, AckWaitExpires, Deliver
<1>5. ASSUME (\E d \in Donors : DonorCrash(d)) \/ (\E k \in Keys : DonorPodDeleted(k))
      PROVE  UNCHANGED ran
  BY <1>5 DEF DonorCrash, DonorPodDeleted
<1>6. ASSUME NEW s \in Stealers, Crash(s) PROVE UNCHANGED ran
  BY <1>6 DEF Crash
<1> QED BY <1>1, <1>2, <1>3, <1>4, <1>5, <1>6 DEF Next, ProtocolStep

LEMMA RanStep == ASSUME RunInv, Typed', Next, NEW r \in Requests PROVE RanOK(r)'
<1>1. Growing
  BY GrowingStep
<1>2. CASE ran'[r] = ran[r]
  BY <1>1, <1>2, PassedKept DEF RunInv, Inv, RanOK
<1>3. ASSUME NEW s \in Stealers, MakePod(s), worker[s].pc = "create" PROVE RanOK(r)'
  <2>1. CASE Msg(s) = r
    <3>1. Passed(r) /\ req[r].rev > 0
      BY <1>3, <2>1 DEF RunInv, ClaimedOK, Claimed, Inv, WorkerOK
    <3> QED BY <1>1, <3>1, PassedKept DEF RunInv, Inv, RanOK
  <2>2. CASE Msg(s) # r
    <3>1. ran'[r] = ran[r]
      BY <1>3, <2>2 DEF MakePod, RunInv
    <3> QED BY <1>2, <3>1
  <2> QED BY <2>1, <2>2
<1> QED BY <1>2, <1>3, RanMade

LEMMA RunInvStep == RunInv /\ [Next]_vars => RunInv'
<1> SUFFICES ASSUME RunInv, [Next]_vars PROVE RunInv'
  OBVIOUS
<1>1. Inv' /\ Typed'
  BY InvStep DEF RunInv, Inv
<1>2. CASE Next
  <2>1. ran' \in [Requests -> SUBSET Stealers]
    BY <1>1 DEF Typed, TypeOK
  <2> QED BY <1>1, <1>2, <2>1, NoFault, ClaimedStep, RanStep DEF RunInv
<1>3. CASE UNCHANGED vars
  BY <1>1, <1>3 DEF vars, RunInv, ClaimedOK, RanOK, Passed, Msg
<1> QED BY <1>2, <1>3

LEMMA RunInit == ASSUME Init, Budget["fault"] = 0 PROVE RunInv
<1>1. Inv
  BY InvInit
<1> QED BY <1>1 DEF Init, RunInv, ClaimedOK, RanOK, Claimed, Idle

\* Where no call fails, nobody executes a workload whose offer is still open:
\* StealResource is behind a claim that moved the entry, or behind a lost one,
\* whichever crashes, redeliveries and timeouts there are.
THEOREM NoRunOnOpenOfferTheorem ==
  ASSUME Budget["fault"] = 0 PROVE Spec => []NoRunOnOpenOffer
<1>1. Init => RunInv
  BY RunInit
<1>2. RunInv => NoRunOnOpenOffer
  BY Revisions DEF RunInv, Inv, RanOK, NoRunOnOpenOffer, OpenOffer, Passed
<1> QED BY <1>1, <1>2, RunInvStep, PTL DEF Spec
------------------------------------------------------------------------------
(* What the donor stores in place of a stolen pod.  A request whose message  *)
(* was published is answered, if nothing makes the donor or its API server   *)
(* give up on it, with a stealer; and if no other request has its pod's      *)
(* name, nothing is stored there when the answer arrives.                    *)

UniqueNames == \A q, r \in Requests : Key(q) = Key(r) => q = r
Patient(l)  == \A kind \in {"expire", "giveup", "donorcrash"} : l[kind] = 0

AnswerOK(r) ==
  /\ req[r].pc \in {"new", "offered"} => stream[r] = "none"
  /\ req[r].pc # "done" => req[r].open
  /\ req[r].pc \in {"new", "offered", "waiting"} => req[r].by = Pending
  /\ req[r].pc = "decided" => req[r].by # Pending
  /\ req[r].by = Local => req[r].rev = 0
  /\ req[r].pc = "done" /\ stream[r] # "none" => req[r].open /\ req[r].by \in Stealers
  /\ ran[r] # {} => stream[r] # "none"
StoredOK(k) == dpod[k] # None => Key(dpod[k]) = k /\ req[dpod[k]].pc = "done"
HeldOK(s)   == /\ worker[s].pc # "idle" => stream[Msg(s)] # "none"
               /\ \A i \in 1..Len(inbox[s]) : stream[inbox[s][i]] # "none"

PlaceholderInv == /\ RunInv
                  /\ Patient(left)
                  /\ \A r \in Requests : AnswerOK(r)
                  /\ \A k \in Keys : StoredOK(k)
                  /\ \A s \in Stealers : HeldOK(s)

\* What the types say of it, and what the budget rules out.
LEMMA PlaceholderTypes ==
  ASSUME PlaceholderInv
  PROVE  /\ Typed
         /\ req \in [Requests -> Handler] /\ dpod \in [Keys -> Requests \cup {None}]
         /\ kv \in [Keys -> StealerDetails] /\ stream \in [Requests -> MessageStates]
         /\ inbox \in [Stealers -> Seq(Requests)] /\ worker \in [Stealers -> WorkerState]
         /\ ran \in [Requests -> SUBSET Stealers]
         /\ \A s \in Stealers : worker[s].pc # "idle" => Msg(s) \in Requests
  BY DEF PlaceholderInv, RunInv, Inv, Typed, TypeOK, Busy, Msg

LEMMA Patience ==
  ASSUME PlaceholderInv, Next
  PROVE  ~Fault /\ Patient(left') /\ \A kind \in {"expire", "giveup", "donorcrash"} : ~Spend(kind)
<1>1. Typed /\ RunInv
  BY DEF PlaceholderInv, RunInv, Inv
<1>2. \A kind \in {"expire", "giveup", "donorcrash"} : kind \in Kinds /\ left[kind] = 0
  BY DEF PlaceholderInv, Patient, Kinds
<1> QED BY <1>1, <1>2, UsedUp, NoFault DEF Patient

\* A published message stays published, and is published by its webhook.
LEMMA PublishedKept ==
  ASSUME PlaceholderInv, Next, NEW r \in Requests
  PROVE  /\ stream[r] # "none" => stream'[r] # "none"
         /\ stream[r] = "none" => stream'[r] = "none" \/ PublishOffer(r)
<1>1. Typed /\ ~PublishFails(r)
  BY PlaceholderTypes, Patience DEF PublishFails
<1>2. \A s \in Stealers : worker[s].pc # "idle" /\ Msg(s) = r => stream[r] # "none"
  BY DEF PlaceholderInv, HeldOK
<1> QED BY <1>1, <1>2, MessageMoves

LEMMA HeldStep == ASSUME PlaceholderInv, Next, NEW s \in Stealers PROVE HeldOK(s)'
<1>1. /\ inbox \in [Stealers -> Seq(Requests)] /\ inbox[s] \in Seq(Requests)
      /\ worker \in [Stealers -> WorkerState]
      /\ worker[s].pc # "idle" => Msg(s) \in Requests /\ stream[Msg(s)] # "none"
      /\ \A i \in 1..Len(inbox[s]) : inbox[s][i] \in Requests /\ stream[inbox[s][i]] # "none"
  BY PlaceholderTypes DEF PlaceholderInv, HeldOK
<1>2. \A r \in Requests : stream[r] # "none" => stream'[r] # "none"
  BY PublishedKept
<1>3. ASSUME \/ worker'[s] = worker[s]
             \/ worker'[s].pc = "idle"
             \/ worker[s].pc # "idle" /\ worker'[s].msg = worker[s].msg,
             inbox'[s] = inbox[s] \/ inbox'[s] = <<>>
      PROVE  HeldOK(s)'
  BY <1>1, <1>2, <1>3 DEF HeldOK, Msg
<1>4. CASE UNCHANGED <<worker[s], inbox[s]>>
  BY <1>3, <1>4
<1>5. CASE Crash(s)
  BY <1>1, <1>3, <1>5 DEF Crash, Return, Idle
<1>6. ASSUME NEW m \in Requests, Deliver(m, s), UNCHANGED worker, inbox'[s] = Append(inbox[s], m)
      PROVE  HeldOK(s)'
  <2>1. stream[m] # "none"
    BY <1>6 DEF Deliver
  <2>2. \A i \in 1..Len(inbox'[s]) : inbox'[s][i] = m \/ \E j \in 1..Len(inbox[s]) : inbox'[s][i] = inbox[s][j]
    BY <1>1, <1>6
  <2>3. \A i \in 1..Len(inbox'[s]) : stream'[inbox'[s][i]] # "none"
    BY <1>1, <1>2, <2>1, <2>2
  <2> QED BY <1>1, <1>2, <1>6, <2>3 DEF HeldOK, Msg
<1>7. CASE WorkerStep(s)
  <2>1. CASE CheckPod(s)
    <3>1. inbox[s] # <<>> /\ inbox'[s] = Tail(inbox[s]) /\ worker[s].pc = "idle"
      BY <1>1, <2>1 DEF CheckPod
    <3>2. /\ Len(inbox[s]) \in Nat /\ Len(inbox[s]) > 0 /\ Head(inbox[s]) = inbox[s][1]
          /\ \A i \in 1..Len(inbox'[s]) : /\ i + 1 \in 1..Len(inbox[s])
                                          /\ inbox'[s][i] = inbox[s][i + 1]
      <4>1. Len(inbox[s]) \in Nat /\ Len(inbox[s]) > 0
        BY <1>1, <3>1
      <4>2. Len(inbox'[s]) = Len(inbox[s]) - 1
        BY <1>1, <3>1
      <4>3. \A i \in 1..(Len(inbox[s]) - 1) : Tail(inbox[s])[i] = inbox[s][i + 1]
        BY <1>1, <3>1
      <4> QED BY <1>1, <3>1, <4>1, <4>2, <4>3
    <3>3. \A i \in 1..Len(inbox'[s]) : stream'[inbox'[s][i]] # "none"
      BY <1>1, <1>2, <3>2
    <3>4. Head(inbox[s]) \in Requests /\ stream'[Head(inbox[s])] # "none"
      BY <1>1, <1>2, <3>2
    <3>5. worker'[s].pc = "idle" \/ worker'[s].msg = Head(inbox[s])
      BY <1>1, <2>1, <3>1 DEF CheckPod, Idle
    <3> QED BY <3>3, <3>4, <3>5 DEF HeldOK, Msg
  <2>2. CASE ~CheckPod(s)
    <3>1. /\ worker[s].pc # "idle" /\ inbox'[s] = inbox[s]
          /\ Return(s) \/ worker'[s].msg = worker[s].msg
      BY <1>7, <2>2, WorkerMoves, PlaceholderTypes DEF Msg
    <3>2. Return(s) => worker'[s].pc = "idle"
      BY <1>1 DEF Return, Idle
    <3> QED BY <1>3, <3>1, <3>2
  <2> QED BY <2>1, <2>2
<1> QED BY <1>4, <1>5, <1>6, <1>7, StealerMoves, PlaceholderTypes

\* An answered request has stored its pod or has not; a stored pod's request
\* is over.
LEMMA StoredStep == ASSUME PlaceholderInv, Next, NEW k \in Keys PROVE StoredOK(k)'
<1>1. /\ req \in [Requests -> Handler] /\ dpod \in [Keys -> Requests \cup {None}]
      /\ Typed /\ StoredOK(k) /\ dpod[k] \in Requests \cup {None}
  BY PlaceholderTypes DEF PlaceholderInv
<1>2. ASSUME NEW r \in Requests, req[r].pc = "done" PROVE req'[r].pc = "done"
  <2>1. ~HandlerStep(r)
    BY <1>2 DEF HandlerStep, PassThrough, ConnectFails, PutPending, PutFails, LabelPanic,
       PublishOffer, PublishFails, PollStolen, WaitExpires, PollFails, Respond, Arrives
  <2> QED BY <1>1, <1>2, <2>1, RequestMoves DEF Handler
<1>3. \/ dpod'[k] \in {dpod[k], None}
      \/ \E r \in Requests : Respond(r) /\ Key(r) = k /\ dpod'[k] = r
  <2>1. ASSUME NEW r \in Requests, HandlerStep(r)
        PROVE  dpod' = dpod \/ (Respond(r) /\ dpod' = [dpod EXCEPT ![Key(r)] = r])
    BY <2>1 DEF HandlerStep, PassThrough, ConnectFails, PutPending, PutFails, LabelPanic,
       PublishOffer, PublishFails, PollStolen, WaitExpires, PollFails, Respond
  <2>2. ASSUME NEW s \in Stealers, WorkerStep(s) PROVE UNCHANGED dpod
    BY <2>2 DEF WorkerStep, CheckPod, Reading, ReadOpen, ReadOwn, ReadTaken, ReadFails,
       Claiming, Claim, LoseClaim, ClaimFails, AckClaim, CreatePod, WaitRunning, AckAgain,
       CreateService, ExportService, Publishing, PublishDetails, RetryPublish,
       PublishDetailsFails, donorVars
  <2>3. ASSUME NEW j \in Keys, DonorPodDeleted(j) PROVE dpod'[k] \in {dpod[k], None}
    BY <1>1, <2>3 DEF DonorPodDeleted
  <2> QED BY <1>1, <2>1, <2>2, <2>3 DEF Next, ProtocolStep, WebhookTimeout, AckWaitExpires,
             Deliver, DonorCrash, PodStarts, PodEnds, PodDeleted, SetPod, Crash, donorVars
<1>4. ASSUME NEW r \in Requests, Respond(r) PROVE req'[r].pc = "done"
  BY <1>1, <1>4 DEF Respond, Handler
<1> QED BY <1>1, <1>2, <1>3, <1>4 DEF StoredOK, Key

LEMMA AnswerStep ==
  ASSUME PlaceholderInv, UniqueNames, Next, NEW r \in Requests PROVE AnswerOK(r)'
<1> USE DEF donorVars, brokerVars, clusterVars, historyVars
<1>1. /\ req \in [Requests -> Handler] /\ req[r] \in Handler /\ AnswerOK(r) /\ OfferOK(r)
      /\ Key(r) \in Keys /\ kv[Key(r)].owner \in Owners /\ Typed /\ ~Fault /\ ~Spend("expire")
      /\ Pending # Local /\ Local \notin Owners /\ Pending \notin Stealers
  BY PlaceholderTypes, Patience, KeyType, OwnersAssumption
     DEF PlaceholderInv, RunInv, Inv, Owners, StealerDetails
<1>2. /\ stream[r] # "none" => stream'[r] # "none"
      /\ stream[r] = "none" => stream'[r] = "none" \/ PublishOffer(r)
  BY PublishedKept
<1>3. ran'[r] # {} => ran[r] # {} \/ stream[r] # "none"
  <2>1. ran'[r] = ran[r] \/ \E s \in Stealers : worker[s].pc = "create" /\ Msg(s) = r
    BY RanMade, PlaceholderTypes DEF MakePod
  <2> QED BY <2>1 DEF PlaceholderInv, HeldOK
<1>4. CASE req'[r] = req[r]
  <2>1. ~PublishOffer(r)
    BY <1>1, <1>4 DEF PublishOffer, Handler
  <2> QED BY <1>1, <1>2, <1>3, <1>4, <2>1 DEF AnswerOK
<1>5. CASE PassThrough(r) \/ ConnectFails(r)
  <2>1. /\ req[r].pc = "new" /\ req'[r].pc = "decided" /\ req'[r].by = Local
        /\ req'[r].rev = 0 /\ req'[r].open /\ UNCHANGED <<stream, ran>>
    BY <1>1, <1>5 DEF PassThrough, ConnectFails, Arrives, Decide, OfferOK, AnswerOK, Handler
  <2> QED BY <1>1, <2>1 DEF AnswerOK
<1>6. CASE PutPending(r)
  <2>1. /\ req[r].pc = "new" /\ req'[r].pc = "offered" /\ req'[r].by = Pending
        /\ req'[r].open /\ UNCHANGED <<stream, ran>>
    BY <1>1, <1>6 DEF PutPending, Arrives, AnswerOK, Handler
  <2> QED BY <1>1, <2>1 DEF AnswerOK
<1>7. CASE LabelPanic(r)
  <2>1. /\ req[r].pc = "offered" /\ req'[r].pc = "done" /\ req'[r].by = Pending
        /\ UNCHANGED <<stream, ran>>
    BY <1>1, <1>7 DEF LabelPanic, AnswerOK, Handler
  <2> QED BY <1>1, <2>1 DEF AnswerOK
<1>8. CASE PublishOffer(r)
  <2>1. /\ req[r].pc = "offered" /\ req'[r].pc = "waiting" /\ req'[r].by = Pending
        /\ req'[r].open /\ stream'[r] = "ready"
    BY <1>1, <1>8, PlaceholderTypes DEF PublishOffer, AnswerOK, Handler
  <2> QED BY <1>1, <2>1 DEF AnswerOK
<1>9. CASE PollStolen(r)
  <2>1. /\ req[r].pc = "waiting" /\ req'[r].pc = "decided" /\ req'[r].by \in Stealers
        /\ req'[r].open /\ UNCHANGED <<stream, ran>>
    BY <1>1, <1>9 DEF PollStolen, Decide, AnswerOK, Owners, Handler
  <2> QED BY <1>1, <2>1 DEF AnswerOK, Owners
<1>10. CASE Respond(r)
  <2>1. /\ req[r].pc = "decided" /\ req'[r].pc = "done" /\ req'[r].by = req[r].by
        /\ req'[r].rev = req[r].rev /\ UNCHANGED <<stream, ran>>
        /\ req'[r].open = (req[r].open /\ dpod[Key(r)] = None)
    BY <1>1, <1>10 DEF Respond, Handler
  <2>2. dpod[Key(r)] = None
    <3>1. dpod[Key(r)] \in Requests \cup {None} /\ StoredOK(Key(r))
      BY <1>1, PlaceholderTypes DEF PlaceholderInv
    <3> QED BY <2>1, <3>1 DEF StoredOK, UniqueNames
  <2>3. stream[r] # "none" => req[r].by \in Stealers
    <3>1. stream[r] # "none" => req[r].rev > 0
      BY <1>1 DEF OfferOK
    <3>2. req[r].by \in {Pending, Local} \cup Stealers
      BY <1>1 DEF Handler, Answers
    <3> QED BY <1>1, <2>1, <3>1, <3>2 DEF AnswerOK
  <2> QED BY <1>1, <2>1, <2>2, <2>3 DEF AnswerOK
<1>11. ~Spend("giveup") /\ ~Spend("donorcrash")
  BY Patience
<1> QED BY <1>1, <1>4, <1>5, <1>6, <1>7, <1>8, <1>9, <1>10, <1>11, RequestMoves
        DEF HandlerStep, PutFails, PublishFails, WaitExpires, PollFails

LEMMA PlaceholderStep ==
  ASSUME UniqueNames, PlaceholderInv, [Next]_vars PROVE PlaceholderInv'
<1>1. RunInv'
  BY RunInvStep DEF PlaceholderInv
<1>2. CASE Next
  BY <1>1, <1>2, Patience, AnswerStep, StoredStep, HeldStep DEF PlaceholderInv
<1>3. CASE UNCHANGED vars
  BY <1>1, <1>3 DEF vars, PlaceholderInv, AnswerOK, StoredOK, HeldOK, Msg, Key
<1> QED BY <1>2, <1>3

\* Among requests with names of their own, every pod that a stealer made is
\* answered with a placeholder the API server stored, whatever the stealers'
\* crashes, premature redeliveries and deletions of pods; as long as no call
\* fails and neither the donor nor its API server gives up on the request.
THEOREM StolenHasPlaceholderTheorem ==
  ASSUME UniqueNames, Budget["fault"] = 0, Patient(Budget)
  PROVE  Spec => []StolenHasPlaceholder
<1>1. Init => PlaceholderInv
  <2> SUFFICES ASSUME Init PROVE PlaceholderInv
    OBVIOUS
  <2>1. RunInv /\ Patient(left)
    BY RunInit DEF Init
  <2>2. Pending # Local /\ Pending \notin Stealers
    BY OwnersAssumption
  <2>3. \A r \in Requests : AnswerOK(r)
    BY <2>2 DEF Init, AnswerOK
  <2>4. \A k \in Keys : StoredOK(k)
    BY DEF Init, StoredOK
  <2>5. \A s \in Stealers : HeldOK(s)
    BY DEF Init, HeldOK, Idle
  <2> QED BY <2>1, <2>3, <2>4, <2>5 DEF PlaceholderInv
<1>2. PlaceholderInv => StolenHasPlaceholder
  BY DEF PlaceholderInv, AnswerOK, StolenHasPlaceholder
<1>3. PlaceholderInv /\ [Next]_vars => PlaceholderInv'
  BY PlaceholderStep
<1> QED BY <1>1, <1>2, <1>3, PTL DEF Spec
==============================================================================
