---------------------------- MODULE ServiceAccess ----------------------------
(***************************************************************************)
(* How the donor's cluster gets to reach a stolen pod: the goroutine that  *)
(* the webhook starts before it answers (redeployMutatedResource-          *)
(* WithStolenDetails in internal/services/donor/mutate/mutate.go, with     *)
(* proxy.go), composed with the whole of StealProtocol.  The goroutine     *)
(* outlives the admission request, reads the entry that the stealer writes *)
(* the FQDN to, labels the placeholder and creates a proxy Service.        *)
(*                                                                         *)
(* What may go wrong in it is paid for from Mishaps, apart from the        *)
(* protocol's own budget, so that the protocol is not disturbed by it.     *)
(***************************************************************************)
EXTENDS StealProtocol, LabelMaps

CONSTANTS
  LabelsOf,   \* LabelsOf[r]: the labels of the pod that r asks for
  Selectors,  \* Selectors[d]: the selectors of the Services users made in donor d
  Mishaps     \* how often each of MishapKinds may happen

\* expire: no FQDN within 60 s; fault: a call fails; death: the webhook's
\* process dies when it has no request in flight.
MishapKinds == {"expire", "fault", "death"}

ASSUME AccessAssumption ==
         /\ Mishaps \in [MishapKinds -> Nat]
         /\ None \notin Stealers

VARIABLES
  fetch,   \* per request: the goroutine of redeployMutatedResourceWithStolenDetails
  label,   \* per key: the request whose goroutine last labelled the stored pod, or None
  proxy,   \* per key: the request whose goroutine made the proxy Service, or None
  mishaps  \* what is left of Mishaps

accessVars == <<fetch, label, proxy, mishaps>>
allVars    == <<vars, accessVars>>

FetchPCs  == {"off", "poll", "update", "list", "proxy", "done", "failed"}

\* from: the stealer whose FQDN the goroutine took from the entry.
Goroutine == [pc : FetchPCs, from : Stealers \cup {None}]

AccessInit ==
  /\ Init
  /\ fetch = [r \in Requests |-> [pc |-> "off", from |-> None]]
  /\ label = [k \in Keys |-> None]
  /\ proxy = [k \in Keys |-> None]
  /\ mishaps = Mishaps

Mishap(kind) == /\ mishaps[kind] > 0
                /\ mishaps' = [mishaps EXCEPT ![kind] = @ - 1]
Smooth == UNCHANGED mishaps

------------------------------------------------------------------------------
(* The protocol, as far as the goroutines can see it.                       *)

\* The webhook learned that r was stolen, has patched the pod and, before it
\* answers, starts the goroutine; without ports that returns at once.
Starts(r) == /\ r \in Exposing
             /\ req[r].by = Pending /\ req'[r].by \in Stealers

\* A new object under a name has the labels it was created with.
Relabelled(k) == IF dpod'[k] = dpod[k] THEN label[k] ELSE None

Steal ==
  /\ ProtocolStep
  /\ fetch' = [r \in Requests |-> IF Starts(r) THEN [fetch[r] EXCEPT !.pc = "poll"]
                                               ELSE fetch[r]]
  /\ label' = [k \in Keys |-> Relabelled(k)]
  /\ UNCHANGED <<proxy, mishaps>>

\* The webhook's process dies with its handlers and its goroutines.
Alive(r) == fetch[r].pc \in {"poll", "update", "list", "proxy"}
ProcessDies(d) ==
  /\ \/ DonorCrash(d) /\ Smooth
     \/ /\ \E r \in Requests : DonorOf[r] = d /\ Alive(r)
        /\ \A r \in Requests : DonorOf[r] = d => req[r].pc \in {"new", "done"}
        /\ Mishap("death") /\ UNCHANGED vars
  /\ fetch' = [r \in Requests |-> IF DonorOf[r] = d /\ Alive(r)
                                  THEN [fetch[r] EXCEPT !.pc = "failed"]
                                  ELSE fetch[r]]
  /\ UNCHANGED <<label, proxy>>

------------------------------------------------------------------------------
(* The goroutine of request r.                                              *)

At(r, pc)   == fetch[r].pc = pc /\ UNCHANGED vars
Step(r, pc) == fetch' = [fetch EXCEPT ![r].pc = pc]

\* Mutation of GetFqdn: any entry of a stealer will do, also one without an
\* FQDN.
GetFqdn_Empty(r) ==
  /\ At(r, "poll") /\ kv[Key(r)].owner \in Stealers
  /\ fetch' = [fetch EXCEPT ![r].pc = "update", ![r].from = kv[Key(r)].owner]
  /\ Smooth /\ UNCHANGED <<label, proxy>>

\* getExposedFQDN: the first FQDN that a poll of the entry finds, whoever
\* wrote it.
GetFqdn(r) ==
  /\ At(r, "poll") /\ kv[Key(r)].fqdn
  /\ fetch' = [fetch EXCEPT ![r].pc = "update", ![r].from = kv[Key(r)].owner]
  /\ Smooth /\ UNCHANGED <<label, proxy>>

\* Mutation of PollsExpire: the error of getExposedFQDN is ignored.
PollsExpire_GoesOn(r) ==
  /\ At(r, "poll") /\ ~kv[Key(r)].fqdn /\ Mishap("expire")
  /\ Step(r, "update") /\ UNCHANGED <<label, proxy>>

\* The sixtieth poll finds none, or a Get fails: nobody hears of it.  An entry
\* without an FQDN, also one made Pending by a later request, is polled again.
PollsExpire(r) ==
  /\ At(r, "poll") /\ ~kv[Key(r)].fqdn /\ Mishap("expire")
  /\ Step(r, "failed") /\ UNCHANGED <<label, proxy>>
GetFails(r) ==
  /\ At(r, "poll") /\ Mishap("fault")
  /\ Step(r, "failed") /\ UNCHANGED <<label, proxy>>

\* updatePodWithFQDN writes the whole patched pod under its name, whatever
\* object has that name by now.  It finds none before the webhook's answer or
\* after a deletion; a pod of another request is immutable but for its labels,
\* so only another placeholder with the same containers can be overwritten.
Overwrites(r) == LET q == dpod[Key(r)]
                 IN q = r \/ (q # None /\ req[q].by \in Stealers)
UpdatePod(r) ==
  /\ At(r, "update")
  /\ \/ Overwrites(r) /\ Smooth /\ label' = [label EXCEPT ![Key(r)] = r]
     \/ dpod[Key(r)] # r /\ Smooth /\ UNCHANGED label
     \/ Mishap("fault") /\ UNCHANGED label
  /\ Step(r, "list") /\ UNCHANGED proxy

\* Mutation of Served: the selectors are not looked at.
Served_Any(r) == Selectors[DonorOf[r]] # {}

\* handleServiceAssociation: any Service that ServiceAssocitedWithResource
\* finds ends the search; it is logged, and the pod gets no proxy.
Served(r) == ServiceAssociated(Selectors[DonorOf[r]], LabelsOf[r])
ListServices(r) ==
  /\ At(r, "list")
  /\ \/ Smooth /\ Step(r, IF Served(r) THEN "done" ELSE "proxy")
     \/ Mishap("fault") /\ Step(r, "failed")
  /\ UNCHANGED <<label, proxy>>

\* CreateProxyServiceWithHeadLessType: nobody deletes the proxy of an earlier
\* pod of that name, and the Create fails on it.
MakeProxy(r) == proxy[Key(r)] = None /\ proxy' = [proxy EXCEPT ![Key(r)] = r]
CreateProxy(r) ==
  /\ At(r, "proxy")
  /\ \/ MakeProxy(r) /\ Smooth /\ Step(r, "done")
     \/ proxy[Key(r)] # None /\ Smooth /\ Step(r, "done") /\ UNCHANGED proxy
     \/ Mishap("fault") /\ (MakeProxy(r) \/ UNCHANGED proxy) /\ Step(r, "failed")
  /\ UNCHANGED label

------------------------------------------------------------------------------
GoroutineStep(r) == \/ GetFqdn(r) \/ PollsExpire(r) \/ GetFails(r)
                    \/ UpdatePod(r) \/ ListServices(r) \/ CreateProxy(r)

AccessNext == \/ Steal
              \/ \E d \in Donors : ProcessDies(d)
              \/ \E r \in Requests : GoroutineStep(r)

AccessSpec == AccessInit /\ [][AccessNext]_allVars

\* The protocol's fairness, and a goroutine that goes on: its poll sleeps a
\* second at a time, its other steps are single calls.
AccessFairSpec == /\ AccessSpec /\ Fairness
                  /\ \A r \in Requests : WF_allVars(GoroutineStep(r))

------------------------------------------------------------------------------
\* The types of the variables this module adds; a goroutine past its poll has
\* the FQDN of some stealer.
AccessTypeOK ==
  /\ fetch \in [Requests -> Goroutine]
  /\ \A r \in Requests : fetch[r].pc \in {"update", "list", "proxy", "done"} => fetch[r].from # None
  /\ label \in [Keys -> Requests \cup {None}]
  /\ proxy \in [Keys -> Requests \cup {None}]
  /\ mishaps \in [MishapKinds -> Nat]

\* An FQDN the donor takes leads somewhere: the stealer that published it has
\* exported a Service of that pod name, to this donor's cluster.  Service,
\* export, publication, poll and the update of the placeholder are five calls
\* of two processes, and each may fail or be the last one before a crash.
FqdnIsExported ==
  \A r \in Requests : fetch[r].from # None =>
     \E q \in Requests : Key(q) = Key(r) /\ exports[fetch[r].from][PodOf[r]] = q

\* The FQDN is that of the stealer the webhook answered with.  The goroutine
\* compares nothing: it relies on nobody else writing to the entry.
FqdnOfOwnThief ==
  \A r \in Requests : fetch[r].from \in {None, req[r].by}

\* A placeholder carries the labels of its own steal, the stealer's name among
\* them, by which the results consumer finds it.
LabelledByOwnSteal ==
  \A k \in Keys : dpod[k] # None => label[k] \in {None, dpod[k]}

\* A stolen pod with ports that a stealer has seen running becomes reachable in
\* the donor, if it goes on running: a proxy Service leads to the FQDN of its
\* name, and at the stealer that FQDN is exported for a Service made for it.  A
\* Service in the donor that selects the placeholder leads nowhere, as the
\* placeholder is never scheduled.
Reachable(r, s) == /\ proxy[Key(r)] # None
                   /\ svc[s][PodOf[r]] = r /\ exports[s][PodOf[r]] = r
RunsAt(r, s) == spod[s][PodOf[r]] = [req |-> r, phase |-> "Running"]
RunningIsReached ==
  \A r \in Exposing, s \in Stealers :
     worker[s].pc = "wait" /\ Msg(s) = r /\ RunsAt(r, s)
       ~> Reachable(r, s) \/ ~RunsAt(r, s)
==============================================================================
