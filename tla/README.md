# Verification of cross-cluster work stealing

TLA+ specifications of `hiro-cross-cluster-workloads`, their TLC runs and their
TLAPS proofs. Paths below are relative to the repository.

A *donor* cluster runs a mutating admission webhook that offers every new pod to
other clusters over NATS and waits for a taker; a *stealer* cluster takes offers,
creates the pods, exposes them and reports their end. All coordination goes
through three places: a JetStream work-queue stream, a NATS key-value bucket and
the two clusters' API servers. No process talks to another one directly.

## 1. Inventory

| component | code | state it keeps | operations |
|---|---|---|---|
| donor webhook | `internal/services/donor/mutate/mutate.go`, `controller/server.go` | one goroutine per admission request, nothing persistent | eligibility, connect, `kv.Put("Pending")`, publish, poll the entry, answer with a placeholder or unmodified |
| donor service access | `mutate.go:514-639`, `proxy.go` | one goroutine per stolen pod with ports | poll the FQDN (60 s), update the placeholder, create a headless proxy Service |
| donor results consumer | `internal/services/donor/results/get_results.go` | a core NATS subscription | compare labels and phase, delete the placeholder |
| stealer worker | `internal/services/stealer/worker/worker.go` | one message at a time; the rest is local | check the pod, read the entry, claim it (`kv.Update`), Ack, create the pod, wait for Running, expose, publish the FQDN |
| service exposure | `worker.go:395-475`, `exporter.go` | Service and ServiceExport objects | create both |
| stealer results informer | `internal/services/stealer/results/send_results.go` | a pod watch, a core NATS connection | publish the results of deleted stolen pods |
| HTTP server | `controller/server.go` | one goroutine per request | decode the review, call Mutate, encode the response |
| NATS connector | `pkg/connector/nats/nats.go` | stream (WorkQueuePolicy), bucket | connect, create stream and bucket on first use, publish, get |
| helpers | `pkg/core/common/common.go` | the shared map `StolenPodLablesMap` | label and namespace predicates, keys, map merges |
| start-up, metrics, manifests | `cmd/`, `pkg/metrics`, `deploy/`, `scripts/` | configuration | wiring |

Interaction, in the order of one successful steal:

1. The API server calls the webhook with a CREATE; it stores `Pending` under
   `<donor>.<namespace>.<name>`, publishes the pod, and polls the entry each second.
2. JetStream hands the message to one member of the queue group. Its worker
   checks that it has no such pod, reads the entry and writes its own name with
   `kv.Update` at the revision it read.
3. The webhook reads the name and answers with a patched pod that cannot be
   scheduled (the placeholder).
4. The worker acknowledges, creates the pod, waits up to 5 minutes for Running,
   creates the Service and its export, and writes the FQDN to the entry.
5. When the stolen pod is deleted the informer publishes its results and the
   donor deletes the placeholder.

**What is hard here.** One entry is shared by everybody who asks for the same pod
name; the message and the entry are two stores that are never updated together;
messages are redelivered after 30 s while handlers take minutes; error branches
differ in whether they return; the admission request outlives the API server's
patience; a worker may die between any two of its five writes. `PROJECT.json`
lists each such hazard at its line.

**What makes it correct.** *Webhook*: every request is answered; a pod that is
executed elsewhere has a placeholder, one that runs at home is not executed
elsewhere. *Worker*: an offer has one winner, a loser does not execute, a winner
does; no message is lost while somebody waits for it, none circulates for ever.
*Bucket*: an entry is only overwritten by whom it belongs to. *Results*: each
placeholder goes when its pod is gone, and only then. *Service access*: a
placeholder with ports becomes reachable, by an FQDN that leads somewhere.
*Front*: only what may leave the cluster is offered, and a broker set up by all at
once is no failure. *Helpers*: they compute what their names say.

## 2. Modules

| module | what it is |
|---|---|
| `StealContract` | the abstract promise: one cluster is chosen per workload, once; only it starts the workload; the answer names it |
| `WorkloadLife` | the abstract life of one workload in both clusters: decided once, stored by the donor, made and run by its thief, and removed from the donor when the thief's pod is gone |
| `StealProtocol` | webhook handlers, stream, bucket, workers, stolen pods; all code of `mutate.go:62-337` and `worker.go:44-475` that the deployed webhook can reach |
| `ResultReturn` | the stealer's informer and the donors' result consumers, all of `send_results.go` and `get_results.go`; the stealing is its environment |
| `ServiceAccess` | the webhook's FQDN goroutine (`mutate.go:514-639`, `proxy.go:138-159`), composed with all of `StealProtocol` |
| `Admission` | what stands before an offer and a subscription: HTTP handler, Mutate, eligibility, connector, start of the worker |
| `LabelMaps` | the helpers on label maps as pure operators, used by `ServiceAccess` and `Admission` |
| `MCSteal`, `MCService`, `MCReturn`, `MCAdmission` | constants of the TLC instances: which donor and name each request has, one budget per question |
| `StealProtocol_proofs` | typing and the protocol's inductive invariant |
| `StealRun_proofs` | runs in which no call fails: nothing is executed on an open offer, and what is executed has its placeholder |
| `StealRefinement_proofs` | one copy of each message: an offer is processed once, its answer names the thief, an entry keeps its owner; the protocol implements `StealContract` and begins `WorkloadLife` |
| `StealContract_proofs` | what the contract means |
| `ResultReturn_proofs` | typing, true results, the deletion by name, and the end of `WorkloadLife` |
| `ServiceAccess_proofs` | the composition implements the protocol, and so the contract; typing; an FQDN leads somewhere, and to the goroutine's own thief |
| `Admission_proofs` | typing and the three invariants of the front |
| `LabelMaps_proofs` | what the map helpers compute, for all maps |

### How StealProtocol corresponds to the code

`req[r]` is the handler of admission request `r` (`new` → `offered` after the
Put → `waiting` after the publication → `decided` → `done`) together with whether the API
server still waits (`open`). `kv[k]` is the entry of one donor and pod name with
its revision; `stream[r]` says where the message of `r` is; `inbox[s]` is what the
subscription of stealer `s` has been handed; `worker[s]` is its handler; `spod`,
`svc` and `exports` are the API objects in its cluster; `dpod` is the donor's pod of each
name. `won` and `ran` are history: who took an offer, who created a pod.

An action is one call to the broker or an API server with everything the handler
does until its next call. So `Claim`, `LoseClaim` and `ClaimFails` are the three
outcomes of `kv.Update` at `worker.go:143`, and the code after the call (including
the Nak that does not return) is part of the action. A call that fails may have
taken effect or not: `ClaimFails` offers both. `LoseClaim` continues like `Claim`
because `worker.go:144` excepts `nats.ErrKeyExists`.

`isResourceSuccessfullyRunning`, the waits of minutes and the polls of a second are single steps
without time; an expiry may happen whenever the condition it waits for does not
hold. `StealResource` reads the pod again and then creates it; the two calls are
one step, since a pod that appears between them makes the Create fail just as the
read would have.

Outside the repository, and modelled from how the code uses it: JetStream's
delivery (`Deliver`, `AckWaitExpires`), `Ack` and `Nak` of the client, which sends
one of them per copy and acknowledges by itself when a handler returns without
either, and whose errors nobody looks at: an Ack may be lost, which is a `fault`, and the message
then stays outstanding (so is what the client sends for that copy at the handler's end); the kubelet and users (`PodStarts`, `PodEnds`, `PodDeleted`,
`DonorPodDeleted`); the API server's patience (`deploy/donor/webhook.yaml`:
10 seconds, `failurePolicy` left at its default Fail).

### How ResultReturn corresponds to the code

`Steals` are the donor's pods, each created once; two of them with one `Key` are a pod
and its replacement. `thief[x]` is the stealer named in the labels of `x`, `pod[x]`
the stolen pod, `dpod[k]` what the donor's API server has under a name.
`events[s]` is the channel of the informer's watch, `net[d]` what the donor's
subscription has been sent, `consumer[d]` the result whose callback stands between
its Get and its Delete.

The informer's loop takes one event per step: it skips it (`Skip`), publishes
(`Notify`, which a failed publication ends just as quietly) or panics on a pod
without a start time (`StartTimePanic`). A pod that is still Pending here is one the
kubelet has not taken, so its start time is nil. When the watch ends, `Start` returns, `main` returns, and the unread
events are gone (`WatchEnds`); the container starts again (`InformerStarts`) and
watches from then on. What a new watch first shows are the existing pods, as
Added, which the informer skips; these events are left out, as are events of pods
that were not stolen.

The consumer's callback is two steps because the code makes two API calls: `Look`
(every early return included) and `Remove`, which deletes by name what is there by
then. `Matches` compares the UUIDs of donor and stealer. The phase check adds nothing to it, as a
placeholder cannot be scheduled and stays Pending. `msg.Ack()` has no effect on a core NATS message and
is no step.

The environment (`Claimed` to `PodDeleted`) is freer than `StealProtocol`: a placeholder
may never be stored, a thief may never create the pod. What `StealProtocol` allows
only after a misfortune is paid for from the budget (`overtake`, `late`, `again`). The last
one is the branch of a worker that finds its own name in the entry (`worker.go:122-127`): it
logs that it skips the pod and steals it again, so a copy that was redelivered early, or that a
crash left unsettled, makes a pod a second time that was made and has gone.

### How the two halves fit together

`WorkloadLife` has three variables, the thief, the thief's pod and the donor's pod of each
workload, and eight actions. `StealProtocol` implements it with `Chosen`, `PhaseOf` and
`PlaceOf`, and takes every step but `Remove`; `ResultReturn` implements it with its own `thief`
and `pod` and with `PlaceOf`, and takes every step including `Remove`, of which it has to show
that it only hits a workload whose pod at the thief is gone. So what the one module takes for
granted of the stealing is what the other one's stealing does, as far as these three variables
show it. This is a common abstraction and not a composition: no run has
both halves in one state.

### How ServiceAccess corresponds to the code

`fetch[r]` is the goroutine that the webhook starts just before it answers request
`r`: `poll` (`getExposedFQDN`), `update` (`updatePodWithFQDN`), `list`
(`ServiceAssocitedWithResource`), `proxy` (`CreateProxyServiceWithHeadLessType`).
`from` is the stealer whose FQDN it took: the FQDN itself is made of the pod's name
and namespace, so only its owner matters. `label[k]` says whose labels are on the stored pod,
`proxy[k]` who made the proxy Service.

`Steal` is any step of `StealProtocol`; what the goroutine adds is read off its effect:
a handler that has learned of its thief starts the goroutine, and an object that is new under a name has
the labels it was created with. `ProcessDies` takes handlers and goroutines together, as
they share a process; a process without a request in flight, which `StealProtocol` does
not see, may die as well. Errors of the update are ignored by the code, so
`UpdatePod` goes on in each of its outcomes; an error of the list or of the proxy ends the
goroutine. Every poll of an entry without an FQDN goes on, also of one that a later request made Pending. A Service
of a user that shares one pair of labels with the pod ends the search, and the pod gets no proxy: not even
one that selects the pod leads to it, since the placeholder it selects is never scheduled. So a stolen
pod is `Reachable` only through a proxy, with its own Service exported at the stealer. The donor's `Update` by name succeeds on another placeholder, which differs
only in labels, and fails on a pod that runs at home, whose spec is another.

What may go wrong in a goroutine is paid for from `Mishaps`, which is separate from
`Budget` so that a run can have trouble on one side only.

### How Admission corresponds to the code

A handler whose response is written must be at its end, which is part of `TypeOK`: `http.Error` does not
return by itself. Webhook requests and workers run the same connector code, so `pc[p]` is one function over both:
`connect`, `stream`, `bucket`, `create` are its calls. A review goes `new` → `mutate` →
connector → `offer`, where `StealProtocol` takes over, or ends `answered`; `broken` is the
panic on a nil response. A worker goes from the connector to `listening`, to `deaf` if the
ignored error of `QueueSubscribe` struck, or `exited`, from where the container starts again.

The handler accepts more than the deployed webhook sends (creations of pods): kinds,
operations and objects that do not decode are part of the samples because the code
branches on them. Namespaces and patterns are reduced to which names a pattern matches once it is
anchored and whether it is a regular expression at all. `Offer` has no failures of its
own; those are `StealProtocol`'s. `AddStream` and `CreateKeyValue` of something that exists with the same
configuration succeed, which is how JetStream defines them.

### Bounds

Everything that may go wrong is paid for from `Budget`, a number per kind of
misfortune, and each run names the kinds it grants. `Tries` is the code's own
bound of 3 on the publication loop; `steal_samekey` takes 2, which has a
first attempt and a repeated last one, to keep its state space small. Nothing else is bounded: revisions grow only
with writes, and each handler writes a bounded number of times. Two stealers are enough for
every race between claims (a third would only lose like the second); two requests
are enough for one entry to be shared and to be rewritten under a handler; a
budget of one of each kind shows every pair of misfortunes of two kinds the run
grants. In `ResultReturn` each steal runs once through its life, so its queues are as long as
the steals allow; `return_safe` needs two donors to see a result at the wrong one, and
`return_removed` three steals, for a name used twice beside an ignored one.
`service_safe` makes a pod twice under one name, the second after the first is gone, so that the
entry, the Service and the proxy of the first are all met again; each mishap of a goroutine may happen
once. `service_reached` has two names, two stealers and a user's Service that has no pair in common with
the pods: both are reached through a proxy. In `steal_settles` one entry has two possible writers: a stealer that
dies between its claim and its Ack leaves its message to the other one. `admission_front`
has two reviews and a stealer on a broker with or without stream and bucket, so three processes may create
the bucket at once, and ten samples, one for each way through the predicates.
The proofs do without all of these bounds.

`CHECK_DEADLOCK FALSE` is in every cfg because the system is meant to stop: when
each request is answered and each message settled nothing is left to do.
`SYMMETRY` over the stealers is used in passing runs without liveness only. The action
properties and refinements among them are steps of the form `[A]_v` that treat all stealers alike, so
a step violates them whenever a permuted one does.

### Fairness

`FairSpec` assumes weak fairness of each handler and each worker: both are loops
of calls with time-outs, and no step of theirs waits for another component. It
assumes that a ready message is delivered to some stealer, and that a copy which
no live stealer holds is redelivered when AckWait ends; both are JetStream's. A wait's expiry is
part of the handler, so it happens if the wait lasts, but only as often as the
budget allows: the runs that need it grant one expiry per request. Nothing is assumed about misfortunes, deletions, or when pods
start and end.

In `ResultReturn` the informer, the consumers and their restarts are weakly fair: each is a
loop over a channel, and both processes run in containers that a Deployment restarts.

`AccessFairSpec` adds weak fairness of each goroutine, a loop of polls a second apart and three single calls.
In `Admission` each HTTP handler and each worker is weakly fair, the restart of a worker's
container included; every step is one call with a time-out.

## 3. Runs

Passing:

| run | question | instance |
|---|---|---|
| `steal_contract` | Does the protocol implement `StealContract` and begin `WorkloadLife` as long as only processes, connections and pods go away? Is a workload executed once (`ExecutedOnce`), does an entry keep its owner (`OwnerKept`)? | 2 requests with different names, 2 stealers; one each of connect, giveup, crash, donorcrash, cleanup, undo |
| `steal_samekey` | Is an offer ever lost, won twice, or executed while open, when two requests share an entry? | early redelivery and a worker crash; types are checked here too |
| `steal_answered` | Is every webhook answered although a message circulates for ever, a call fails and the worker crashes? | two donors offer the same pod name to one stealer: once it has one, it sends the other back at once; two expiries, one fault, one crash |
| `steal_settles` | Does every message leave the queue, and is the stealer that a donor is told of the only winner and the only one to execute (`AnswerNamesThief`)? Does the donor take that stealer's FQDN (`FqdnOfOwnThief`)? | a worker crash, expired waits, different names; the protocol with its goroutines |
| `steal_executed` | Is a pod that was reported stolen executed by that stealer? | no crash and no failed call; a rejected request, a deleted stolen pod, an unlabelled and an ineligible pod |
| `service_safe` | Does an FQDN the donor takes always lead to a Service exported to it? | 1 donor, a pod made twice under its name, 2 stealers; worker crash, webhook crash, deletion, each mishap once |
| `service_reached` | Does every executed pod have its placeholder? Does a stolen pod that keeps running become reachable in the donor? | 2 names, 2 stealers, an unrelated Service; deletions on both sides, a lost connection |
| `admission_front` | Is only offered what may be stolen? Does a pod stay at home only for a reason? Is each review answered, and does the stealer get to listen? | 2 reviews of ten kinds, 1 stealer, any initial broker; each call fails once |
| `return_safe` | Is what is published true, does no placeholder go before its pod, does the return of results end `WorkloadLife`? | two donors with a pod of the same name, 2 stealers; every kind of misfortune once, but `again` |
| `return_removed` | Does the placeholder go when the pod is deleted, and no pod that runs at home with it (`HomePodsKept`)? | 1 donor, 1 stealer; a name used twice and an ignored one; no misfortune |

`steal_answered` needs one stealer only: a second could end the loop by taking the second pod. `OfferNotLost` and
`OneWinnerPerOffer` with failing calls are left to the theorems, which hold for every budget.

`OfferSettles` is not claimed when names collide across donors: there the message
circulates until the first pod is deleted, which `steal_answered` contains.

Runs that TLC must find violated, each a disagreement between a comment or the
README and the code:

| run | statement | what happens |
|---|---|---|
| `once_redelivered` | "Ensures a message is only processed once" (`nats.go:82`) | a copy still buffered is redelivered; both stealers read Pending; the loser of `kv.Update` creates the pod too |
| `return_ended` | "When the stolen pod completes its execution ... the donor can delete its placeholder" (`README.md:8`) | only a deletion is published, and nobody deletes a completed pod |

### With another budget

The passing runs grant what the property can stand. Each line below changes a run's cfg, with
definitions that `MCSteal`, `MCService` or `MCReturn` has, and TLC then finds the
named property violated:

| cfg | change | property | what happens |
|---|---|---|---|
| `once_redelivered` | `Budget <- Faults` | `ProcessedOnce` | `kv.Update` fails, the handler Naks and goes on (`worker.go:146`); the next stealer creates the pod too |
| `steal_contract` | `Budget <- Faults` or `Redeliveries`, or `Budget <- Calm` with `PodOf <- SameName` | `ImplementsContract`, `ImplementsLife`, `ExecutedOnce`, `OwnerKept`, `AnswerNamesThief` | a cluster that was not chosen runs the pod, and publishes its name over the winner's; or the second Put of a name does (see section 4) |
| `steal_contract` | `Budget <- Expiries` | `ImplementsContract`, `ImplementsLife`, `ExecutedOnce` | the donor runs a pod that is then stolen |
| `steal_contract` | `Budget <- Faults` | `NoRunOnOpenOffer`, `StolenHasPlaceholder` | the pod is created after a claim that was not written, or the webhook's poll fails and the pod stays at home while its offer stands |
| `steal_contract` | `Budget <- DonorCrashes`, or `Budget <- Calm` with `PodOf <- SameName` | `StolenHasPlaceholder` | the answer is lost with the webhook's process, or meets another pod of that name, and the offer stands |
| `steal_contract` | `Budget <- TwoCrashes`, `PodOf <- SameName` | `ProcessedOnce` | a worker that finds its own name creates the pod before it acknowledges (`worker.go:125`) and dies; the Put of a second request makes the entry Pending, and the next stealer creates the pod too |
| `service_reached` | `Budget <- Expiries` | `StolenHasPlaceholder` | the wait expires (`mutate.go:279`), the pod runs at home, message and entry still stand and the pod is stolen as well |
| `service_reached` | `Budget <- Timeouts` | `StolenHasPlaceholder` | the API server rejects the pod after 10 s (`webhook.yaml:26`), the offer still stands and is stolen |
| `steal_executed` | `Budget <- Crashes` | `StolenIsRun` | the worker dies between the Ack and the creation (`worker.go:150`): a placeholder for a pod nobody executes |
| `steal_executed` | `Requests = {r1, r2}`, `PodOf <- SameName`, `After <- Recreation`, `Budget <- Undo`, `Ineligible = {}`, `Unlabelled = {}` | `StolenIsRun` | a late FQDN publication overwrites the Pending entry of a re-created pod (`worker.go:190`), whose donor is told a stealer that never claimed it |
| `service_reached` | `Mishaps <- Late` | `RunningIsReached` | the donor polls 60 s (`mutate.go:547`) for an FQDN that comes after up to 5 minutes |
| `service_reached` | `Selectors <- OtherService` or `OwnService` | `RunningIsReached` | a Service that shares one label with the pod is taken for its own (`mutate.go:632`) and the pod gets no proxy; even a Service that selects it leads nowhere, as the placeholder has no endpoints |
| `service_reached` | `Budget <- Crashes` | `RunningIsReached` | the message of a worker that died is recognised as its own (`worker.go:125`), and the pod is never exposed |
| `service_reached` | `Donors = {d1, d2}`, `DonorOf <- TwoDonors`, `Pods = {p1}`, `PodOf <- SameName` | `RunningIsReached` | the Service of an earlier steal of that name makes Create fail (`worker.go:465`) |
| `steal_settles` | `Budget <- Redeliveries`, or `Budget <- Faults` | `FqdnOfOwnThief` | the loser of a claim publishes as well |
| `service_safe` | `Budget <- Undo`, `Mishaps <- Smoothly`, added INVARIANT | `FqdnOfOwnThief`, `LabelledByOwnSteal` | the goroutine of a deleted placeholder takes the FQDN of its replacement and writes its own labels over the replacement's (`mutate.go:582`) |
| `return_safe` | `DonorOf <- OneDonor`, `Budget <- Calm` | `PlaceholderOutlivesPod`, `ImplementsLife` | a pod is removed and created again, the same stealer takes it; the first one's result deletes the second one's placeholder (`get_results.go:79`) |
| `return_safe` | `Budget <- Again` | `ResultsAreTrue`, `PlaceholderOutlivesPod`, `ImplementsLife` | a stealer makes a pod a second time (`worker.go:125`); the result of the first one deletes the placeholder of the second, which runs |
| `return_removed` | `Budget <- Undo` | `HomePodsKept` | the consumer finds the placeholder (`get_results.go:74-93`), someone deletes it, a pod that runs at home is stored under the name, and the deletion by name (`get_results.go:97`) hits that one |
| `return_removed` | `Budget <- Down` | `PlaceholderRemoved` | core NATS keeps no message: a donor that is down when a result is published (`send_results.go:101`) never gets it, although its Ack is meant to "remove the message from the NATS server" (`get_results.go:104`) |
| `return_removed` | `Budget <- Restart` | `PlaceholderRemoved` | a pod deleted between two watches is never reported (`send_results.go:60`) |
| `return_ended` | `PROPERTIES OnlyCompletedReported` | `OnlyCompletedReported` | "Pod Execution Completed" with the status "Success" (`send_results.go:117`) is also published of a pod that is deleted while it runs |
| `return_removed` | `Budget <- Early` | `PlaceholderRemoved` | the informer panics on a pod without a start time (`send_results.go:119`) and reports nothing |
| `return_removed` | `Budget <- Late` | `PlaceholderRemoved` | the result arrives before the placeholder is stored (`get_results.go:74`), and there is no second one |

## 4. Theorems

All hold for any sets of requests, donors, stealers and pods and any budget, from
`RequestsAssumption`, `OwnersAssumption` and `BoundsAssumption` (the parameters
are functions on the requests, the special values are no stealers, bounds are natural numbers).

* `TypeCorrect`: `Spec => []TypeOK`. Typing alone is not inductive: a busy worker
  must have a message (`Busy`).
* `OfferNotLostTheorem`: `Spec => []OfferNotLost`. The property speaks of handlers of
  the donor and of the stream, but what can break it is an Ack by a worker that
  started long ago. The invariant `Inv` ties them together by revisions: an offer
  the entry has moved past (`Passed`) never opens again, since revisions grow and a
  request's own revision is set once; a worker about to claim has read an entry no
  older than the offer its message announces; whoever may still acknowledge
  knows its offer to be passed, or has used up its answer already (the `settled`
  of the Nak that does not return).
* `OneWinnerTheorem`: `Spec => []OneWinnerPerOffer`, from the same invariant: an
  open offer has no winner, and taking it passes it.
* `NoRunOnOpenOfferTheorem`: if no call fails, `Spec => []NoRunOnOpenOffer`. The invariant `RunInv`
  adds to `Inv` that every worker behind its claim, won or lost, has a passed offer,
  and so has every request somebody created a pod for. With failed calls it is false: a
  handler whose claim failed goes on with the offer open (see "With another
  budget" above).
* `StolenHasPlaceholderTheorem`: `Spec => []StolenHasPlaceholder` for requests with keys of their own
  (`UniqueNames`), if no call fails and nobody gives up on a request: no expired wait, no
  impatient API server, no dead webhook process (`Patient`). Premature redeliveries, worker crashes and
  deletions are allowed. `PlaceholderInv` adds to `RunInv` a chain that ends at the pod: a pod was
  made of a copy a worker held (`HeldOK`), a copy exists only of a published message, a published
  request is answered with a stealer and finds the name free (`AnswerOK`), because a stored pod's
  own request is over (`StoredOK`).

The next theorems are about requests with keys of their own too, while no call fails and no held copy
is redelivered; waits may expire, API servers give up, processes of both sides die, and pods may be deleted, any
number of times. Their invariant `SoleInv` adds two parts to `RunInv`. `Messages`: of a message there is
one copy, in a buffer or with one worker, and it is gone from the stream once settled. `Entries`: the
entry's owner is the only winner, the only one who may have created a pod, and the only name the
donor can read; a worker behind its claim finds itself there, so a claim is never lost.

* `ProcessedOnceTheorem`: `Spec => []ProcessedOnce`. No passing run checks this one: while
  no copy is redelivered early, the prompt Ack and the entry both keep a second
  stealer from the pod, and no mutation of one definition was found that removes both. `once_redelivered` shows
  that the condition is needed.
* `AnswerNamesThiefTheorem`: `Spec => []AnswerNamesThief`, and `OwnerKeptTheorem`: `Spec => OwnerKept`. So what
  is left of the contract when a wait expires is all of it but the donor's
  own copy: one stealer at most executes the pod, and the donor is never told of another one.

Where no wait of the donor expires either, `RefInv` adds to `SoleInv` that the donor keeps only pods
it never offered (`LocalOK`).

* `ExecutedOnceTheorem`: `Spec => []ExecutedOnce`, the donor's own cluster included.
* `ImplementsContractTheorem`: `Spec => ImplementsContract`. Without one of the conditions or without
  `UniqueNames` it is false: an expired wait runs the pod
  in both clusters, a redelivered copy or a failed claim lets another stealer than the winner create it,
  and a second Put of a name lets the message of the first take the offer of the second.
* `StealingLivesTheorem`: `Spec => ImplementsLife`, under the same conditions. `LifeInv` adds to `RefInv` where
  the pods come from: one in a stealer's cluster was made there of a request that has its name, one in the donor
  belongs to an accepted request that is over, and a webhook never decides on "Pending". The proof has one lemma per
  kind of step: each either leaves all three variables of every workload alone
  (`Still`) or moves one workload by one step of `WorkloadLife`. Two donors may offer the same pod name here.
* `ContractExecutesOnce`: the contract implies that a workload runs in one cluster at most,
  the one the donor was told.

`ResultReturn` (from `StealsAssumption`, `ThievesAssumption`, `BudgetAssumption`):

* `TypeCorrect`: `Spec => []TypeOK`, which includes that a name stands for a pod of
  that name and that a consumer only acts on results of its own donor.
* `ResultsAreTrueTheorem`: if no steal is repeated (`Budget["again"] = 0`), `Spec => []ResultsAreTrue`. The
  invariant `Truth` follows the information: a Deleted event, a result in the net and a result being acted on each
  belong to a pod in `Finished`, which was made and, if no steal is repeated, is gone for good.
* `PlaceholderOutlivesPodTheorem`: if no name is used twice in a donor either,
  `Spec => []PlaceholderOutlivesPod`. The deletion by name is then one of the right pod,
  with any losses and failures in between; the table above shows that both conditions are needed.
* `HomePodsKeptTheorem`: if nobody deletes pods in the donors, `Spec => []HomePodsKept`, also where names are used
  again and steals repeated. `Checked` says what the consumer's check is worth by the time it deletes: as long as only the consumer
  takes pods away, what it found under the name is still there, with a thief on it.
* `ImplementsLifeTheorem`: under the conditions of `PlaceholderOutlivesPodTheorem`, `Spec => ImplementsLife`.
  The invariant `Returning` adds that what is in the donor was stored and not removed, so
  that no placeholder is removed twice.

`ServiceAccess` (from the protocol's assumptions and `AccessAssumption`):

* `AccessImplementsProtocol`: `AccessSpec => Spec`. Every step of the composition is a protocol step or a
  stutter of it, so all theorems of `StealProtocol` hold of the composition.
* `AccessTypeCorrect`: `AccessSpec => []AccessTypeOK`.
* `FqdnIsExportedTheorem`: `AccessSpec => []FqdnIsExported`. The invariant follows the information
  against its flow: a goroutine's FQDN was in an entry, an entry with an FQDN was written by a worker
  that had passed its export, and a worker that has passed it has made one for its message's key.
  Exports are never deleted, and each of the links survives crashes, re-creations and overwritten
  entries, which is why the theorem needs no condition on the budget.
* `FqdnOfOwnThiefTheorem`: `AccessSpec => []FqdnOfOwnThief` under the conditions of `SoleInv`. The goroutine never compares
  names; what makes it right is that by then the entry names the stealer the webhook answered with (`Entries`) and that an
  answer does not change. `ThiefInv` adds to `SoleInv` that a goroutine only runs for an
  answered request and holds that stealer's FQDN or none, whatever happens to its own calls.
* `AccessImplementsContract`: the composition implements `StealContract` where the protocol does.

`Admission` (from its three assumptions): `TypeCorrect`, `OnlyStealableOfferedTheorem`,
`FallbackOnlyOnFailureTheorem`, `ReadyIsSetUpTheorem`. They share an invariant on where a process may be and what it
has found out by then: a review past `mutate` is sound, expected, decoded and eligible; a process past
`AddStream` has a stream or a failure to show for it, and past the bucket calls a bucket.

`LabelMaps`: `AreMapsEqualDecides`, `StolenLabelsDiffer`, `StolenLabelsWin`,
`SelectedIsAssociated`. The second one is why `CreatePod` of `StealProtocol` treats every pod it finds as an error: a pod
stolen earlier, by any offer of any donor, is labelled `is-pod-stolen` and the offer is not. A user who sets that label
to `"true"` on a pod of his own is the exception, and is not modelled.

Every invariant, action property and refinement of a passing run is stated by one of these theorems. Only
model-checked are the liveness properties (`EveryRequestAnswered`, `OfferSettles`, `StolenIsRun`,
`RunningIsReached`, `PlaceholderRemoved`, `EveryReviewAnswered`, `StealerListens`), as fairness
and ENABLED are beyond the prover. None of the conditions above can be dropped: for each theorem and each of its
conditions, "With another budget" names an instance without it that violates the property.

## 5. Not modelled

* Deployments and Jobs past the eligibility tests: the webhook is registered for pods
  (`deploy/donor/webhook.yaml:13-17`) and the worker unmarshals a pod.
* Pods created with `generateName`, whose name is still empty in the admission request.
* Undecodable messages on the stream; `pollStolenPodStatus`, `createResourceWithLabel`,
  `checkForAnyFailuresOrRestarts`, `GetKeyValue`, `PutKeyValue`, `PublishNATSMessage` and the reverse-proxy
  variant of the proxy, which have no caller.
* `validateHandler` and `Validate`: they allow everything, and the deployed webhook does not call them.
* Regular expressions as such: `Admission` has the set of names each pattern matches.
* Events of pods that were not stolen, and the data race on `StolenPodLablesMap`.
* The contents of the patch, annotations, ports, the text of the FQDN, metrics, logging.
* Leaked connections, environment variables and the wiring of the two `main` functions.

## 6. Plan

1. `StealContract`, `StealProtocol` with its runs, typing, the offer invariant: done.
2. `ResultReturn` with its runs and safety theorems, and `WorkloadLife` as its abstract
   specification, with the refinement: done.
3. `ServiceAccess`, composed with the protocol, its runs and theorems: done.
4. `Admission` and `LabelMaps` with their theorems: done.
5. `StealProtocol` and `ResultReturn` both implement `WorkloadLife`: done. Open: one run of their
   composition, from the admission of a workload to the removal of its placeholder.
6. `StealProtocol` implements `StealContract`, and what remains of it when a wait expires
   (`ProcessedOnce`, `AnswerNamesThief`, `OwnerKept`): done. Open: what remains when a
   copy is redelivered early.
