---------------------------- MODULE StealProtocol ----------------------------
(***************************************************************************)
(* The work-stealing protocol between a donor's mutating webhook           *)
(* (internal/services/donor/mutate/mutate.go) and the stealers' workers    *)
(* (internal/services/stealer/worker/worker.go), over a NATS JetStream     *)
(* work queue and a NATS key-value bucket.                                 *)
(*                                                                         *)
(* One action is one call of the code to the broker or to a Kubernetes API *)
(* together with what the handler does with its outcome; everything        *)
(* between two calls is local to the handler.  Whatever the environment    *)
(* may do a number of times (lose a connection, crash a process, fail a    *)
(* call, ...) is paid for from Budget, so that every bound has a name.     *)
(***************************************************************************)
EXTENDS Naturals, Sequences, FiniteSets

CONSTANTS
  Requests,    \* admission requests: one CREATE of one pod, retries are others
  Stealers,    \* stealer clusters, each with one worker process
  Donors,      \* donor clusters, each with one webhook process
  Pods,        \* namespaced pod names
  DonorOf,     \* DonorOf[r], PodOf[r]: the cluster and the name r asks for
  PodOf,
  After,       \* After[r]: requests whose pods must be gone before r is made, as when
               \* a controller replaces a deleted pod
  Ineligible,  \* requests with the filter label, the failed label or an ignored namespace
  Unlabelled,  \* requests for a pod whose Labels map is nil
  Exposing,    \* requests for a pod that declares container ports
  Budget,      \* how often each kind of misfortune may happen
  Tries,       \* attempts to publish the FQDN (3 in the code)
  None,        \* no request
  Pending,     \* "Pending", the owner of an offer nobody took
  Local        \* the answer "run it in the donor's own cluster"

(***************************************************************************)
(* connect   the webhook cannot reach NATS                                 *)
(* expire    a wait of the donor runs out (WAIT_TIME minutes for a stealer *)
(*           to claim, 60 s for it to publish the FQDN)                    *)
(* giveup    the API server stops waiting for the webhook (10 s)           *)
(* slow      a delivered message is still buffered or being handled when   *)
(*           its AckWait ends                                              *)
(* crash     a stealer process dies, donorcrash: a webhook process dies    *)
(* fault     a call to the KV store, JetStream or an API server fails      *)
(* undo      someone deletes a pod in the donor                            *)
(* cleanup   someone deletes a stolen pod in the stealer's cluster         *)
(***************************************************************************)
Kinds == {"connect", "expire", "giveup", "slow", "crash", "donorcrash", "fault",
          "undo", "cleanup"}

ASSUME RequestsAssumption ==
         /\ DonorOf \in [Requests -> Donors]
         /\ PodOf \in [Requests -> Pods]
         /\ After \in [Requests -> SUBSET Requests]
         /\ Ineligible \subseteq Requests
         /\ Unlabelled \subseteq Requests
         /\ Exposing \subseteq Requests
         /\ None \notin Requests
ASSUME OwnersAssumption ==
         /\ Pending \notin Stealers
         /\ Local \notin Stealers
         /\ Pending # Local
ASSUME BoundsAssumption == /\ Budget \in [Kinds -> Nat]
                           /\ Tries \in Nat \ {0}

\* common.GenerateStealWorkloadKVKey: the donor and the pod name the entry.
Keys == Donors \X Pods

\* Mutation of Key: the pod's name is left out.
Key_NoName(r) == <<DonorOf[r], CHOOSE p \in Pods : TRUE>>

Key(r) == <<DonorOf[r], PodOf[r]>>

VARIABLES
  req,     \* per request: the webhook handler and the API server's patience
  dpod,    \* per key: the request that stored the donor's pod, or None
  kv,      \* per key: owner, revision (0: no entry) and whether an FQDN is set
  stream,  \* per request: where its message is in the work-queue stream
  inbox,   \* per stealer: delivered copies the subscription has buffered
  worker,  \* per stealer: the state of InputMsgHandler
  spod,    \* per stealer and pod name: the pod object in the stealer's cluster
  svc,     \* per stealer and pod name: the request its Service was made for, or None
  exports, \* per stealer and pod name: the request its ServiceExport was made for, or None
  left,    \* what is left of the budget
  won,     \* history: stealers whose claim took the offer of each request
  ran      \* history: stealers that created a pod from each request's message

donorVars   == <<req, dpod>>
brokerVars  == <<kv, stream>>
clusterVars == <<spod, svc, exports>>
historyVars == <<won, ran>>
vars == <<req, dpod, kv, stream, inbox, worker, spod, svc, exports, left, won, ran>>

HandlerPCs    == {"new", "offered", "waiting", "decided", "done"}
WorkerPCs     == {"idle", "read", "claim", "ack", "create", "wait", "reack",
                  "expose", "export", "publish"}
MessageStates == {"none", "ready", "outstanding", "gone"}
Owners        == {Pending} \cup Stealers
Answers       == {Pending, Local} \cup Stealers

\* The webhook handler of a request: rev is the revision its Put produced,
\* by its answer, open whether the API server still wants it (at the end:
\* whether the pod was stored).
Handler == [pc : HandlerPCs, rev : Nat, by : Answers, open : BOOLEAN]

\* An entry of the bucket; ports go with the FQDN.
StealerDetails == [owner : Owners, rev : Nat, fqdn : BOOLEAN]

\* The worker: the revision of the entry it read, whether it has settled its
\* copy, whether it steals again, whether the Service is exported.
WorkerState == [pc : WorkerPCs, msg : Requests \cup {None}, rev : Nat,
                settled : BOOLEAN, again : BOOLEAN, exposed : BOOLEAN, tries : 1..Tries]

StolenPod == [req : Requests \cup {None},
              phase : {"Absent", "Pending", "Running", "Succeeded"}]

Idle  == [pc |-> "idle", msg |-> None, rev |-> 0, settled |-> FALSE,
          again |-> FALSE, exposed |-> FALSE, tries |-> Tries]
NoPod == [req |-> None, phase |-> "Absent"]

Init ==
  /\ req    = [r \in Requests |-> [pc |-> "new", rev |-> 0, by |-> Pending,
                                   open |-> TRUE]]
  /\ dpod   = [k \in Keys |-> None]
  /\ kv     = [k \in Keys |-> [owner |-> Pending, rev |-> 0, fqdn |-> FALSE]]
  /\ stream = [r \in Requests |-> "none"]
  /\ inbox  = [s \in Stealers |-> <<>>]
  /\ worker = [s \in Stealers |-> Idle]
  /\ spod   = [s \in Stealers |-> [p \in Pods |-> NoPod]]
  /\ svc     = [s \in Stealers |-> [p \in Pods |-> None]]
  /\ exports = [s \in Stealers |-> [p \in Pods |-> None]]
  /\ left   = Budget
  /\ won    = [r \in Requests |-> {}]
  /\ ran    = [r \in Requests |-> {}]

Spend(kind) == /\ left[kind] > 0
               /\ left' = [left EXCEPT ![kind] = @ - 1]
Free == UNCHANGED left

\* Either the call goes through, or it fails with an error.
Fault == Spend("fault")

------------------------------------------------------------------------------
(* The donor: one webhook handler per admission request.                    *)

\* The handler has its answer: Local (Allowed, unmodified) or the stealer
\* whose name goes on the placeholder.
Decide(r, who) == req' = [req EXCEPT ![r].pc = "decided", ![r].by = who]

\* A put writes a whole new value at the next revision, whatever was there.
PutOffer(r) ==
  kv' = [kv EXCEPT ![Key(r)] = [owner |-> Pending, rev |-> @.rev + 1, fqdn |-> FALSE]]

\* The API server calls the webhook with request r.
Arrives(r) == /\ req[r].pc = "new"
              /\ \A q \in After[r] : req[q].pc = "done" /\ dpod[Key(q)] # q

\* Filter labels and ignored namespaces: allowed and left alone.
PassThrough(r) ==
  /\ Arrives(r) /\ r \in Ineligible
  /\ Decide(r, Local)
  /\ Free /\ UNCHANGED <<dpod, brokerVars, inbox, worker, clusterVars, historyVars>>

\* GetNATSConnectJetStreamAndKeyValue returns an error.
ConnectFails(r) ==
  /\ Arrives(r) /\ r \notin Ineligible
  /\ Spend("connect")
  /\ Decide(r, Local)
  /\ UNCHANGED <<dpod, brokerVars, inbox, worker, clusterVars, historyVars>>

\* InformAboutResource starts with an unconditional kv.Put of "Pending".
PutPending(r) ==
  /\ Arrives(r) /\ r \notin Ineligible
  /\ PutOffer(r)
  /\ req' = [req EXCEPT ![r].pc = "offered", ![r].rev = kv[Key(r)].rev + 1]
  /\ Free /\ UNCHANGED <<dpod, stream, inbox, worker, clusterVars, historyVars>>

\* The Put returns an error, whether or not the broker stored the value.
PutFails(r) ==
  /\ Arrives(r) /\ r \notin Ineligible
  /\ Fault
  /\ PutOffer(r) \/ UNCHANGED kv
  /\ Decide(r, Local)
  /\ UNCHANGED <<dpod, stream, inbox, worker, clusterVars, historyVars>>

\* Labels["donorUUID"] = ... on a nil map panics; net/http recovers, the
\* connection is closed and the API server rejects the pod.
LabelPanic(r) ==
  /\ req[r].pc = "offered" /\ r \in Unlabelled
  /\ req' = [req EXCEPT ![r].pc = "done", ![r].open = FALSE]
  /\ Free /\ UNCHANGED <<dpod, brokerVars, inbox, worker, clusterVars, historyVars>>

PublishOffer(r) ==
  /\ req[r].pc = "offered" /\ r \notin Unlabelled
  /\ stream' = [stream EXCEPT ![r] = "ready"]
  /\ req' = [req EXCEPT ![r].pc = "waiting"]
  /\ Free /\ UNCHANGED <<dpod, kv, inbox, worker, clusterVars, historyVars>>

\* js.Publish returns an error, whether or not the stream stored the message.
PublishFails(r) ==
  /\ req[r].pc = "offered" /\ r \notin Unlabelled
  /\ Fault
  /\ stream' \in {stream, [stream EXCEPT ![r] = "ready"]}
  /\ Decide(r, Local)
  /\ UNCHANGED <<dpod, kv, inbox, worker, clusterVars, historyVars>>

\* Mutation of PollStolen: the wait ends with its first poll.
PollStolen_Once(r) ==
  /\ req[r].pc = "waiting"
  /\ Decide(r, IF kv[Key(r)].owner = Pending THEN Local ELSE kv[Key(r)].owner)
  /\ Free /\ UNCHANGED <<dpod, brokerVars, inbox, worker, clusterVars, historyVars>>

\* WaitToGetResourceStolen: a poll finds an owner that is not "Pending".
PollStolen(r) ==
  /\ req[r].pc = "waiting" /\ kv[Key(r)].owner # Pending
  /\ Decide(r, kv[Key(r)].owner)
  /\ Free /\ UNCHANGED <<dpod, brokerVars, inbox, worker, clusterVars, historyVars>>

\* Mutation of WaitExpires: the wait has no bound.
WaitExpires_Unbounded(r) == FALSE

\* The last poll still reads "Pending": the answer is Local, and neither the
\* message nor the entry is withdrawn.
WaitExpires(r) ==
  /\ req[r].pc = "waiting" /\ kv[Key(r)].owner = Pending
  /\ Spend("expire")
  /\ Decide(r, Local)
  /\ UNCHANGED <<dpod, brokerVars, inbox, worker, clusterVars, historyVars>>

\* A poll whose kv.Get fails ends the wait at once.
PollFails(r) ==
  /\ req[r].pc = "waiting"
  /\ Fault
  /\ Decide(r, Local)
  /\ UNCHANGED <<dpod, brokerVars, inbox, worker, clusterVars, historyVars>>

\* The API server gives up on the webhook (timeoutSeconds: 10, failurePolicy
\* Fail by default) and rejects the pod; the handler does not notice.
WebhookTimeout(r) ==
  /\ req[r].open /\ req[r].pc \in {"offered", "waiting", "decided"}
  /\ Spend("giveup")
  /\ req' = [req EXCEPT ![r].open = FALSE]
  /\ UNCHANGED <<dpod, brokerVars, inbox, worker, clusterVars, historyVars>>

\* The response reaches the API server, which stores the pod, patched into a
\* placeholder if it was stolen, unless a pod of that name is already there.
Respond(r) ==
  /\ req[r].pc = "decided"
  /\ LET stored == req[r].open /\ dpod[Key(r)] = None
     IN /\ req' = [req EXCEPT ![r].pc = "done", ![r].open = stored]
        /\ dpod' = IF stored THEN [dpod EXCEPT ![Key(r)] = r] ELSE dpod
  /\ Free /\ UNCHANGED <<brokerVars, inbox, worker, clusterVars, historyVars>>

\* The webhook process of donor d dies with all its handlers.
DonorCrash(d) ==
  /\ Spend("donorcrash")
  /\ LET dying == {r \in Requests : /\ DonorOf[r] = d
                                    /\ req[r].pc \in {"offered", "waiting", "decided"}}
     IN /\ dying # {}
        /\ req' = [r \in Requests |-> IF r \in dying
                                      THEN [req[r] EXCEPT !.pc = "done", !.open = FALSE]
                                      ELSE req[r]]
  /\ UNCHANGED <<dpod, brokerVars, inbox, worker, clusterVars, historyVars>>

\* A user, a controller or the results consumer deletes the donor's pod.
DonorPodDeleted(k) ==
  /\ dpod[k] # None
  /\ Spend("undo")
  /\ dpod' = [dpod EXCEPT ![k] = None]
  /\ UNCHANGED <<req, brokerVars, inbox, worker, clusterVars, historyVars>>

------------------------------------------------------------------------------
(* JetStream: a work-queue stream with one queue group of stealers.         *)

\* A ready message goes to one member of the queue group, which buffers it.
Deliver(r, s) ==
  /\ stream[r] = "ready"
  /\ stream' = [stream EXCEPT ![r] = "outstanding"]
  /\ inbox' = [inbox EXCEPT ![s] = Append(@, r)]
  /\ Free /\ UNCHANGED <<donorVars, kv, worker, clusterVars, historyVars>>

\* A copy of r that some stealer still holds and has not settled.
HeldCopy(r) == \E s \in Stealers :
                  \/ \E i \in 1..Len(inbox[s]) : inbox[s][i] = r
                  \/ worker[s].msg = r /\ ~worker[s].settled

\* 30 s without an acknowledgement: the message may be delivered again, also
\* when the copy is not lost but buffered behind a handler that waits minutes.
AckWaitExpires(r) ==
  /\ stream[r] = "outstanding"
  /\ IF HeldCopy(r) THEN Spend("slow") ELSE Free
  /\ stream' = [stream EXCEPT ![r] = "ready"]
  /\ UNCHANGED <<donorVars, kv, inbox, worker, clusterVars, historyVars>>

\* An Ack removes the message for good, a Nak makes an outstanding one ready
\* at once.  Of each copy only the first Ack or Nak is sent.  Nobody looks at
\* their errors: an Ack may be lost, and the message stays outstanding; a lost
\* Nak is no more than a late one, as AckWaitExpires does the same.
Ack(m) == \/ Free /\ stream' = [stream EXCEPT ![m] = "gone"]
          \/ Fault /\ UNCHANGED stream
Nak(m) == stream' = [stream EXCEPT ![m] = IF @ = "outstanding" THEN "ready" ELSE @]

------------------------------------------------------------------------------
(* The stealer: InputMsgHandler, called for one message at a time.          *)

Goto(s, pc) == worker' = [worker EXCEPT ![s].pc = pc]
Return(s)   == worker' = [worker EXCEPT ![s] = Idle]
Msg(s)      == worker[s].msg
Entry(s)    == kv[Key(Msg(s))]            \* the entry the handler works on
PodAt(s)    == spod[s][PodOf[Msg(s)]]     \* the pod of that name in its cluster

\* The subscription hands over the next message.  A pod of that name (or an
\* API error) sends it back to the queue.
CheckPod(s) ==
  /\ worker[s].pc = "idle" /\ inbox[s] # <<>>
  /\ inbox' = [inbox EXCEPT ![s] = Tail(@)]
  /\ LET m == Head(inbox[s])
         absent == spod[s][PodOf[m]] = NoPod
     IN \/ /\ absent /\ Free /\ UNCHANGED stream
           /\ worker' = [worker EXCEPT ![s] = [Idle EXCEPT !.pc = "read", !.msg = m]]
        \/ ~absent /\ Free /\ Nak(m) /\ UNCHANGED worker
        \/ Fault /\ Nak(m) /\ UNCHANGED worker
  /\ UNCHANGED <<donorVars, kv, clusterVars, historyVars>>

\* kv.Get of the entry named in the message.
Reading(s) == /\ worker[s].pc = "read"
              /\ UNCHANGED <<donorVars, kv, inbox, clusterVars, historyVars>>

\* Mutation of ReadOpen: the pod is stolen on the strength of the read alone.
ReadOpen_NoClaim(s) ==
  /\ Reading(s) /\ Entry(s).owner = Pending
  /\ Goto(s, "ack")
  /\ Free /\ UNCHANGED stream

\* "Pending": the stealer means to claim the offer at the revision it read.
ReadOpen(s) ==
  /\ Reading(s) /\ Entry(s).owner = Pending
  /\ worker' = [worker EXCEPT ![s].pc = "claim", ![s].rev = Entry(s).rev]
  /\ Free /\ UNCHANGED stream

\* Its own name (it claimed and never acknowledged): steal the pod again.
ReadOwn(s) ==
  /\ Reading(s) /\ Entry(s).owner = s
  /\ worker' = [worker EXCEPT ![s].pc = "create", ![s].again = TRUE]
  /\ Free /\ UNCHANGED stream

\* Mutations of ReadTaken: the early return is missing; the message is sent
\* back to the queue like in the other early returns.
ReadTaken_GoesOn(s) ==
  /\ Reading(s) /\ Entry(s).owner \notin {Pending, s}
  /\ Goto(s, "ack") /\ Free /\ UNCHANGED stream
ReadTaken_Naks(s) ==
  /\ Reading(s) /\ Entry(s).owner \notin {Pending, s}
  /\ Nak(Msg(s)) /\ Return(s) /\ Free

\* ...; an open entry is taken for another stealer's.
ReadTaken_Pending(s) ==
  /\ Reading(s) /\ Entry(s).owner # s
  /\ Ack(Msg(s)) /\ Return(s)

\* Another stealer's name: return, upon which nats.go acknowledges.
ReadTaken(s) ==
  /\ Reading(s) /\ Entry(s).owner \notin {Pending, s}
  /\ Ack(Msg(s)) /\ Return(s)

ReadFails(s) == Reading(s) /\ Fault /\ Nak(Msg(s)) /\ Return(s)

\* Mutation of AtRevision: kv.Put in place of kv.Update.
AtRevision_Ignored(s) == TRUE

\* kv.Update writes only if the entry is still at the revision that was read.
AtRevision(s) == worker[s].rev = Entry(s).rev
WriteOwn(s, fqdn) ==
  kv' = [kv EXCEPT ![Key(Msg(s))] = [owner |-> s, rev |-> @.rev + 1, fqdn |-> fqdn]]

\* The claim takes the offer whose Put produced the revision that was read.
Taken(s) == {r \in Requests : Key(r) = Key(Msg(s)) /\ req[r].rev = worker[s].rev}
TakeOffer(s) ==
  /\ AtRevision(s) /\ WriteOwn(s, FALSE)
  /\ won' = [r \in Requests |-> IF r \in Taken(s) THEN won[r] \cup {s} ELSE won[r]]

Claiming(s) == /\ worker[s].pc = "claim"
               /\ UNCHANGED <<donorVars, inbox, clusterVars, ran>>
Claim(s) == Claiming(s) /\ TakeOffer(s) /\ Free /\ Goto(s, "ack") /\ UNCHANGED stream

\* ErrKeyExists, a race lost to another stealer or to a newer Put, is no
\* error to this handler: it goes on as if it had won.
LoseClaim(s) == /\ Claiming(s) /\ ~AtRevision(s)
                /\ Free /\ Goto(s, "ack") /\ UNCHANGED <<kv, stream, won>>

\* Any other error, after the write or without it, is answered with a Nak and
\* does not end the handler either.
ClaimFails(s) ==
  /\ Claiming(s) /\ Fault /\ Nak(Msg(s))
  /\ TakeOffer(s) \/ UNCHANGED <<kv, won>>
  /\ worker' = [worker EXCEPT ![s].pc = "ack", ![s].settled = TRUE]

\* Mutation of AckClaim: the handler returns after the acknowledgement.
AckClaim_Returns(s) ==
  /\ worker[s].pc = "ack"
  /\ IF worker[s].settled THEN Free /\ UNCHANGED stream ELSE Ack(Msg(s))
  /\ Return(s)
  /\ UNCHANGED <<donorVars, kv, inbox, clusterVars, historyVars>>

AckClaim(s) ==
  /\ worker[s].pc = "ack"
  /\ IF worker[s].settled THEN Free /\ UNCHANGED stream ELSE Ack(Msg(s))
  /\ worker' = [worker EXCEPT ![s].pc = "create", ![s].settled = TRUE]
  /\ UNCHANGED <<donorVars, kv, inbox, clusterVars, historyVars>>

\* StealResource returned; running: it created a pod and saw it run.  The
\* handler goes on either way; without a resource or without ports there is
\* nothing to expose.
Stolen(s, running) ==
  worker' = [worker EXCEPT ![s].pc = IF worker[s].again THEN "reack"
                                     ELSE IF running /\ Msg(s) \in Exposing THEN "expose"
                                     ELSE "publish"]

MakePod(s) ==
  /\ PodAt(s) = NoPod
  /\ spod' = [spod EXCEPT ![s][PodOf[Msg(s)]] = [req |-> Msg(s), phase |-> "Pending"]]
  /\ ran' = [ran EXCEPT ![Msg(s)] = @ \cup {s}]

\* StealResource up to Pods().Create.  An existing pod is an error: the labels of
\* a stolen pod never equal those of a message (StolenLabelsDiffer).
CreatePod(s) ==
  /\ worker[s].pc = "create"
  /\ \/ MakePod(s) /\ Free /\ Goto(s, "wait")
     \/ PodAt(s) # NoPod /\ Free /\ Stolen(s, FALSE) /\ UNCHANGED <<spod, ran>>
     \/ Fault /\ (MakePod(s) \/ UNCHANGED <<spod, ran>>) /\ Stolen(s, FALSE)
  /\ UNCHANGED <<donorVars, brokerVars, inbox, svc, exports, won>>

\* isResourceSuccessfullyRunning: only the phase Running counts; the wait ends
\* without it after 5 minutes, or at once when the Get fails.
WaitRunning(s) ==
  /\ worker[s].pc = "wait"
  /\ \/ PodAt(s).phase = "Running" /\ Free /\ Stolen(s, TRUE)
     \/ PodAt(s).phase # "Running" /\ Free /\ Stolen(s, FALSE)
     \/ Fault /\ Stolen(s, FALSE)
  /\ UNCHANGED <<donorVars, brokerVars, inbox, clusterVars, historyVars>>

\* The handler of a re-stolen message ends without exposing anything.
AckAgain(s) ==
  /\ worker[s].pc = "reack"
  /\ Ack(Msg(s)) /\ Return(s)
  /\ UNCHANGED <<donorVars, kv, inbox, clusterVars, historyVars>>

\* ExposeServiceAndExportViaSubmariner, for a running pod with ports.  Nobody
\* deletes the Service of an earlier pod of that name: the Create fails on it
\* and the handler returns.
AddService(s) == /\ svc[s][PodOf[Msg(s)]] = None
                 /\ svc' = [svc EXCEPT ![s][PodOf[Msg(s)]] = Msg(s)]
CreateService(s) ==
  /\ worker[s].pc = "expose"
  /\ \/ AddService(s) /\ Free /\ Goto(s, "export")
     \/ svc[s][PodOf[Msg(s)]] # None /\ Free /\ Return(s) /\ UNCHANGED svc
     \/ Fault /\ (AddService(s) \/ UNCHANGED svc) /\ Return(s)
  /\ UNCHANGED <<donorVars, brokerVars, inbox, spod, exports, historyVars>>

\* The ServiceExport, annotated with the donor whose cluster may use it; a
\* failure ends the handler and leaves the Service behind.
AddExport(s) == exports' = [exports EXCEPT ![s][PodOf[Msg(s)]] = Msg(s)]
ExportService(s) ==
  /\ worker[s].pc = "export"
  /\ \/ /\ AddExport(s) /\ Free
        /\ worker' = [worker EXCEPT ![s].pc = "publish", ![s].exposed = TRUE]
     \/ Fault /\ (AddExport(s) \/ UNCHANGED exports) /\ Return(s)
  /\ UNCHANGED <<donorVars, brokerVars, inbox, spod, svc, historyVars>>

\* The loop that publishes the FQDN.
Publishing(s) == /\ worker[s].pc = "publish"
                 /\ UNCHANGED <<donorVars, stream, inbox, clusterVars, historyVars>>
PublishDetails(s) ==
  Publishing(s) /\ AtRevision(s) /\ WriteOwn(s, worker[s].exposed) /\ Return(s) /\ Free

\* Mutation of RetryPublish: the loop tests its counter one round too late.
RetryPublish_OneMore(s) ==
  /\ Publishing(s) /\ ~AtRevision(s)
  /\ IF worker[s].tries = 0
     THEN Return(s)
     ELSE worker' = [worker EXCEPT ![s].rev = Entry(s).rev, ![s].tries = @ - 1]
  /\ Free /\ UNCHANGED kv

\* A wrong revision: fetch the current one and try again, whoever owns the
\* entry by now.
RetryPublish(s) ==
  /\ Publishing(s) /\ ~AtRevision(s)
  /\ IF worker[s].tries = 1
     THEN Return(s)
     ELSE worker' = [worker EXCEPT ![s].rev = Entry(s).rev, ![s].tries = @ - 1]
  /\ Free /\ UNCHANGED kv

PublishDetailsFails(s) ==
  /\ Publishing(s) /\ Fault /\ Return(s)
  /\ (AtRevision(s) /\ WriteOwn(s, worker[s].exposed)) \/ UNCHANGED kv

\* The worker process dies with its handler and its buffer, and is restarted.
Crash(s) ==
  /\ worker[s] # Idle \/ inbox[s] # <<>>
  /\ Spend("crash")
  /\ Return(s)
  /\ inbox' = [inbox EXCEPT ![s] = <<>>]
  /\ UNCHANGED <<donorVars, brokerVars, clusterVars, historyVars>>

------------------------------------------------------------------------------
(* The stolen pods in the stealers' clusters.                               *)

SetPod(s, p, pod) ==
  /\ spod' = [spod EXCEPT ![s][p] = pod]
  /\ UNCHANGED <<donorVars, brokerVars, inbox, worker, svc, exports, historyVars>>

PodStarts(s, p)  == /\ spod[s][p].phase = "Pending"
                    /\ SetPod(s, p, [spod[s][p] EXCEPT !.phase = "Running"]) /\ Free
PodEnds(s, p)    == /\ spod[s][p].phase = "Running"
                    /\ SetPod(s, p, [spod[s][p] EXCEPT !.phase = "Succeeded"]) /\ Free
PodDeleted(s, p) == /\ spod[s][p] # NoPod /\ Spend("cleanup")
                    /\ SetPod(s, p, NoPod)

------------------------------------------------------------------------------
HandlerStep(r) == \/ PassThrough(r) \/ ConnectFails(r) \/ PutPending(r) \/ PutFails(r)
                  \/ LabelPanic(r) \/ PublishOffer(r) \/ PublishFails(r)
                  \/ PollStolen(r) \/ WaitExpires(r) \/ PollFails(r) \/ Respond(r)
WorkerStep(s) == \/ CheckPod(s)
                 \/ ReadOpen(s) \/ ReadOwn(s) \/ ReadTaken(s) \/ ReadFails(s)
                 \/ Claim(s) \/ LoseClaim(s) \/ ClaimFails(s) \/ AckClaim(s)
                 \/ CreatePod(s) \/ WaitRunning(s) \/ AckAgain(s)
                 \/ CreateService(s) \/ ExportService(s)
                 \/ PublishDetails(s) \/ RetryPublish(s) \/ PublishDetailsFails(s)

\* Every step but the death of a webhook process.
ProtocolStep ==
  \/ \E r \in Requests : HandlerStep(r) \/ WebhookTimeout(r) \/ AckWaitExpires(r)
  \/ \E k \in Keys : DonorPodDeleted(k)
  \/ \E s \in Stealers : WorkerStep(s) \/ Crash(s)
  \/ \E r \in Requests, s \in Stealers : Deliver(r, s)
  \/ \E s \in Stealers, p \in Pods : PodStarts(s, p) \/ PodEnds(s, p) \/ PodDeleted(s, p)
Next == ProtocolStep \/ \E d \in Donors : DonorCrash(d)

Spec == Init /\ [][Next]_vars

\* Fairness: handlers and workers take their next step (their loops sleep and
\* retry, no step waits for another component), a ready message is delivered
\* to some stealer, and a copy nobody holds is redelivered when AckWait ends.
\* Nothing is assumed about misfortunes, deletions, or when a pod starts or ends.
Fairness == /\ \A r \in Requests : /\ WF_vars(HandlerStep(r))
                                   /\ WF_vars(\E s \in Stealers : Deliver(r, s))
                                   /\ WF_vars(AckWaitExpires(r) /\ ~HeldCopy(r))
            /\ \A s \in Stealers : WF_vars(WorkerStep(s))

FairSpec == Spec /\ Fairness

------------------------------------------------------------------------------
\* The types of the variables: one record per handler, one entry per key.
TypeOK ==
  /\ req \in [Requests -> Handler]
  /\ dpod \in [Keys -> Requests \cup {None}]
  /\ kv \in [Keys -> StealerDetails]
  /\ stream \in [Requests -> MessageStates]
  /\ inbox \in [Stealers -> Seq(Requests)]
  /\ worker \in [Stealers -> WorkerState]
  /\ spod \in [Stealers -> [Pods -> StolenPod]]
  /\ svc \in [Stealers -> [Pods -> Requests \cup {None}]]
  /\ exports \in [Stealers -> [Pods -> Requests \cup {None}]]
  /\ left \in [Kinds -> Nat]
  /\ won \in [Requests -> SUBSET Stealers]
  /\ ran \in [Requests -> SUBSET Stealers]

\* The offer of r is open: the bucket still holds the value r's own Put wrote.
OpenOffer(r) == req[r].rev > 0 /\ kv[Key(r)].rev = req[r].rev

\* A webhook that waits on an offer nobody has taken can still be served: the
\* message is in the stream or out for redelivery.  Every Nak, auto-ack, lost
\* claim race, crash and redelivery in InputMsgHandler bears on this.
OfferNotLost ==
  \A r \in Requests :
     req[r].pc = "waiting" /\ OpenOffer(r) => stream[r] \in {"ready", "outstanding"}

\* At most one stealer takes an offer: kv.Update at the revision read is all
\* that decides between stealers that were handed copies of the same message.
OneWinnerPerOffer ==
  \A r \in Requests : \A s, t \in won[r] : s = t

\* While an offer is open nobody executes its workload: StealResource runs
\* only after the claim (or someone else's) moved the entry.
NoRunOnOpenOffer ==
  \A r \in Requests : OpenOffer(r) => ran[r] = {}

\* A message is processed once: at most one stealer makes a pod of it.
ProcessedOnce ==
  \A r \in Requests : \A s, t \in ran[r] : s = t

\* The stealer named on the placeholder is the one whose claim took the offer,
\* and nobody else executes the pod.  The webhook takes the name from a poll
\* that is not tied to the message, to the claim or to the execution.
AnswerNamesThief ==
  \A r \in Requests :
     req[r].by \in Stealers => won[r] = {req[r].by} /\ ran[r] \subseteq {req[r].by}

\* An entry never changes hands: neither the claim nor the publication of the
\* details, which retries at whatever revision the entry has by now, writes over
\* the name of another stealer.
OwnerKept == [][\A k \in Keys : kv[k].owner \in Stealers => kv'[k].owner = kv[k].owner]_vars

\* A pod that was stolen has been answered with a placeholder that the API
\* server accepted, once its admission request is over.
StolenHasPlaceholder ==
  \A r \in Requests :
     ran[r] # {} /\ req[r].pc = "done" => req[r].open /\ req[r].by \in Stealers

------------------------------------------------------------------------------
(* The contract.  The choice is made by the claim or by the webhook's        *)
(* fallback, whichever the protocol lets happen first.                       *)

Chosen(r) == IF won[r] # {} THEN CHOOSE s \in Stealers : s \in won[r]
             ELSE IF req[r].by = Local THEN Local
             ELSE Pending
RunsIn(r) == ran[r] \cup
             (IF req[r].by = Local /\ req[r].pc = "done" /\ req[r].open THEN {Local} ELSE {})

Contract == INSTANCE StealContract WITH
              Clusters  <- Stealers \cup {Local},
              Undecided <- Pending,
              chosen    <- [r \in Requests |-> Chosen(r)],
              runs      <- [r \in Requests |-> RunsIn(r)],
              answer    <- [r \in Requests |-> req[r].by]

\* The protocol implements the contract (in the runs whose budget allows no
\* expired wait, no failed call and no premature redelivery).
ImplementsContract == Contract!ContractSpec

\* What the contract is for: a workload is executed by one cluster, the donor's
\* own included, and the donor is told the truth about which.
ExecutedOnce == Contract!ExecutedOnce

------------------------------------------------------------------------------
(* The life of the workloads, which ResultReturn continues.                  *)

\* The pod its thief makes of r: not made, there, or gone.
PhaseOf(r) == IF Chosen(r) \notin Stealers THEN "none"
              ELSE IF spod[Chosen(r)][PodOf[r]].req = r THEN spod[Chosen(r)][PodOf[r]].phase
              ELSE IF ran[r] = {} THEN "none" ELSE "gone"

\* The donor's pod for r: not stored, there, or deleted.
PlaceOf(r) == IF dpod[Key(r)] = r THEN "stored"
              ELSE IF req[r].pc = "done" /\ req[r].open THEN "withdrawn" ELSE "none"

Life == INSTANCE WorkloadLife WITH
          Workloads <- Requests,
          Thieves   <- Stealers,
          NameOf    <- PodOf,
          Home      <- Local,
          Nobody    <- Pending,
          thief     <- [r \in Requests |-> Chosen(r)],
          pod       <- [r \in Requests |-> PhaseOf(r)],
          place     <- [r \in Requests |-> PlaceOf(r)]

\* The stealing leads a workload through this life as far as the deletion of the
\* thief's pod: decided once, stored by the donor after the decision, made in
\* the thief's cluster only, and never beside another pod of its name.
ImplementsLife == Life!LifeSpec

------------------------------------------------------------------------------
\* Every request that waits for a stealer gets its response in the end, also
\* when every stealer keeps sending its message back.
EveryRequestAnswered ==
  \A r \in Requests : req[r].pc = "waiting" ~> req[r].pc = "done"

\* A published offer leaves the queue in the end: no poison message.
OfferSettles ==
  \A r \in Requests : stream[r] = "ready" ~> stream[r] = "gone"

\* What the donor takes for stolen is executed by the stealer it names.
StolenIsRun ==
  \A r \in Requests, s \in Stealers : req[r].by = s ~> s \in ran[r]
==============================================================================
