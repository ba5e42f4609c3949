----------------------------- MODULE ResultReturn -----------------------------
(***************************************************************************)
(* The way back of a stolen pod's result: the stealer's informer           *)
(* (internal/services/stealer/results/send_results.go) watches the pods of *)
(* its cluster and publishes a result over core NATS when a stolen one is  *)
(* deleted; every donor's consumer (internal/services/donor/results/       *)
(* get_results.go) receives it, and the one it is meant for deletes the    *)
(* placeholder.  The stealing itself (StealProtocol) appears as the        *)
(* environment that creates a placeholder and a stolen pod.                *)
(***************************************************************************)
EXTENDS Naturals, Sequences

CONSTANTS
  Steals,      \* donor's pods that are or are not stolen, each created once
  Stealers, Donors, Names,
  DonorOf,     \* DonorOf[x], NameOf[x]: the donor and the namespaced name of x
  NameOf,
  Ignored,     \* names in namespaces that the informer ignores
  Budget,      \* how often each kind of misfortune may happen
  None,        \* no pod
  Home         \* the thief of a pod that stays in the donor

(***************************************************************************)
(* overtake  a stealer is named on a pod before it has created and lost an *)
(*           earlier one of that name: it died, or the entry says so only  *)
(* again     a stealer is handed the message of a pod it has made and lost *)
(*           once more (redelivered early, or unsettled by a crash)        *)
(* late      the placeholder is stored after the stolen pod was deleted    *)
(* early     a stolen pod is deleted before the kubelet set its start time *)
(* watchend  the API server ends a pod watch, or a stealer process dies    *)
(* down      a donor process dies or loses its connection                  *)
(* undo      someone deletes a donor's pod                                 *)
(* fault     a publication or a call to an API server fails                *)
(***************************************************************************)
Kinds == {"overtake", "again", "late", "early", "watchend", "down", "undo", "fault"}

ASSUME StealsAssumption == /\ DonorOf \in [Steals -> Donors]
                           /\ NameOf \in [Steals -> Names]
                           /\ None \notin Steals
ASSUME ThievesAssumption == Home \notin Stealers /\ None \notin Stealers /\ Home # None
ASSUME BudgetAssumption == Budget \in [Kinds -> Nat]

Keys   == Donors \X Names
Key(x) == <<DonorOf[x], NameOf[x]>>

VARIABLES
  thief,     \* per steal: the stealer named on it, Home, or None before that
  pod,       \* per steal: the stolen pod in the thief's cluster
  dpod,      \* per donor and name: the pod that is there, a placeholder if stolen
  stored,    \* the steals whose pod the donor's API server has stored
  watching,  \* the stealers whose informer has a watch
  events,    \* per stealer: the watch events its informer has not handled
  online,    \* the donors whose consumer is subscribed
  net,       \* per donor: results it has been sent and not looked at
  consumer,  \* per donor: the result it is deleting a pod for, or None
  left,      \* what is left of the budget
  removed    \* history: the pods that a consumer deleted

clusterVars == <<thief, pod, dpod, stored>>
stealerVars == <<watching, events>>
donorVars   == <<online, net, consumer>>
vars == <<thief, pod, dpod, stored, watching, events, online, net, consumer, left, removed>>

Phases == {"none", "Pending", "Running", "Succeeded", "gone"}
Event  == [type : {"Added", "Modified", "Deleted"}, of : Steals, phase : Phases]

Init == /\ thief    = [x \in Steals |-> None]
        /\ pod      = [x \in Steals |-> "none"]
        /\ dpod     = [k \in Keys |-> None]
        /\ stored   = {}
        /\ watching = Stealers
        /\ events   = [s \in Stealers |-> <<>>]
        /\ online   = Donors
        /\ net      = [d \in Donors |-> <<>>]
        /\ consumer = [d \in Donors |-> None]
        /\ left     = Budget
        /\ removed  = {}

Spend(kind) == left[kind] > 0 /\ left' = [left EXCEPT ![kind] = @ - 1]
Free == UNCHANGED left

------------------------------------------------------------------------------
(* The environment: what StealProtocol and the users do to the two clusters. *)

\* A stealer claims a pod, or it stays at home.  A worker sends the message
\* back while it has a pod of that name, and takes one message at a time.
Claimed(x, who) ==
  /\ thief[x] = None
  /\ thief' = [thief EXCEPT ![x] = who]
  /\ IF \E y \in Steals : thief[y] = who /\ who # Home /\ NameOf[y] = NameOf[x] /\ pod[y] # "gone"
     THEN Spend("overtake") ELSE Free
  /\ UNCHANGED <<pod, dpod, stored, stealerVars, donorVars, removed>>

\* The API server stores the pod, in no order with what its thief does.
Stored(x) ==
  /\ thief[x] # None /\ x \notin stored /\ dpod[Key(x)] = None
  /\ IF pod[x] = "gone" THEN Spend("late") ELSE Free
  /\ stored' = stored \cup {x}
  /\ dpod' = [dpod EXCEPT ![Key(x)] = x]
  /\ UNCHANGED <<thief, pod, stealerVars, donorVars, removed>>

\* A user or a controller deletes the donor's pod, and may create one anew.
DonorPodDeleted(k) ==
  /\ dpod[k] # None /\ Spend("undo")
  /\ dpod' = [dpod EXCEPT ![k] = None]
  /\ UNCHANGED <<thief, pod, stored, stealerVars, donorVars, removed>>

\* A change of the stolen pod x, of which an open watch gets an event with the
\* pod's last state.
Change(x, phase, type, shown) ==
  /\ pod' = [pod EXCEPT ![x] = phase]
  /\ events' = IF thief[x] \in watching
               THEN [events EXCEPT ![thief[x]] =
                       Append(@, [type |-> type, of |-> x, phase |-> shown])]
               ELSE events
  /\ UNCHANGED <<thief, dpod, stored, watching, donorVars, removed>>

\* The worker creates a pod only if it has none of that name; one that finds its
\* own name in the entry creates the pod again.
PodCreated(x) ==
  /\ thief[x] \in Stealers
  /\ \A y \in Steals : thief[y] = thief[x] /\ NameOf[y] = NameOf[x] =>
                          pod[y] \in {"none", "gone"}
  /\ Change(x, "Pending", "Added", "Pending")
  /\ IF pod[x] = "gone" THEN Spend("again") ELSE Free
PodStarts(x) == pod[x] = "Pending" /\ Change(x, "Running", "Modified", "Running") /\ Free
PodEnds(x)   == pod[x] = "Running" /\ Change(x, "Succeeded", "Modified", "Succeeded") /\ Free
PodDeleted(x) ==
  /\ pod[x] \in {"Pending", "Running", "Succeeded"}
  /\ Change(x, "gone", "Deleted", pod[x])
  /\ IF pod[x] = "Pending" THEN Spend("early") ELSE Free

------------------------------------------------------------------------------
(* The stealer's informer.                                                   *)

\* The watch ends, Start returns and with it main: the process exits, and the
\* events it has not handled are gone.
Exits(s) == /\ watching' = watching \ {s}
            /\ events' = [events EXCEPT ![s] = <<>>]
WatchEnds(s) ==
  /\ s \in watching /\ Spend("watchend") /\ Exits(s)
  /\ UNCHANGED <<clusterVars, donorVars, removed>>

\* The container is restarted and watches from now on.  What a new watch adds
\* for the pods that exist are no deletions.
InformerStarts(s) ==
  /\ s \notin watching /\ watching' = watching \cup {s}
  /\ Free /\ UNCHANGED <<clusterVars, events, donorVars, removed>>

\* A core NATS publication reaches the subscribers of the moment, every donor.
Publish(x) == net' = [d \in Donors |-> IF d \in online THEN Append(net[d], x) ELSE net[d]]

Handle(s) == /\ events[s] # <<>>
             /\ UNCHANGED <<clusterVars, online, consumer, removed>>
Handled(s) == UNCHANGED watching /\ events' = [events EXCEPT ![s] = Tail(@)]

\* Mutation: the test of the event's type is missing.
Relevant_AnyEvent(e) == NameOf[e.of] \notin Ignored

\* What the loop publishes: deletions of stolen pods in other namespaces.
Relevant(e) == e.type = "Deleted" /\ NameOf[e.of] \notin Ignored

\* Mutation: the loop returns where it should continue.
Skip_Returns(s) == Handle(s) /\ ~Relevant(Head(events[s])) /\ Exits(s) /\ Free /\ UNCHANGED net

\* Other events, and pods in ignored namespaces, are skipped.
Skip(s) == Handle(s) /\ ~Relevant(Head(events[s])) /\ Handled(s) /\ Free /\ UNCHANGED net

\* generatePodResults dereferences the start time: a pod that never got one
\* takes the process down.
StartTimePanic(s) == /\ Handle(s) /\ Relevant(Head(events[s]))
                     /\ Head(events[s]).phase = "Pending"
                     /\ Exits(s) /\ Free /\ UNCHANGED net

Notify(s) == /\ Handle(s) /\ Relevant(Head(events[s]))
             /\ Head(events[s]).phase # "Pending"
             /\ Handled(s)
             /\ \/ Publish(Head(events[s]).of) /\ Free
                \/ UNCHANGED net /\ Spend("fault")

------------------------------------------------------------------------------
(* The donor's consumer.                                                     *)

DonorStops(d) == /\ d \in online /\ Spend("down")
                 /\ online' = online \ {d}
                 /\ net' = [net EXCEPT ![d] = <<>>]
                 /\ consumer' = [consumer EXCEPT ![d] = None]
                 /\ UNCHANGED <<clusterVars, stealerVars, removed>>
DonorStarts(d) == /\ d \notin online /\ online' = online \cup {d}
                  /\ Free /\ UNCHANGED <<clusterVars, stealerVars, net, consumer, removed>>

\* Mutation: neither UUID is compared.
Matches_NameOnly(d, m) == dpod[<<d, NameOf[m]>>] # None

\* The result is for this donor, and the pod of that name has the labels of
\* the same donor and thief.  Such a pod is a placeholder and always Pending.
Matches(d, m) == /\ DonorOf[m] = d
                 /\ dpod[Key(m)] # None
                 /\ thief[dpod[Key(m)]] = thief[m]

\* The callback up to its Get; every mismatch and error ends it.
Look(d) ==
  /\ consumer[d] = None /\ net[d] # <<>>
  /\ net' = [net EXCEPT ![d] = Tail(@)]
  /\ LET m == Head(net[d])
     IN \/ Matches(d, m) /\ consumer' = [consumer EXCEPT ![d] = m] /\ Free
        \/ ~Matches(d, m) /\ UNCHANGED consumer /\ Free
        \/ UNCHANGED consumer /\ Spend("fault")
  /\ UNCHANGED <<clusterVars, stealerVars, online, removed>>

\* The Delete, by name, of whatever pod is there by now.
DeletePod(k) == /\ dpod[k] # None
                /\ dpod' = [dpod EXCEPT ![k] = None]
                /\ removed' = removed \cup {dpod[k]}
Remove(d) ==
  /\ consumer[d] # None
  /\ LET k == <<d, NameOf[consumer[d]]>>
     IN \/ DeletePod(k) /\ Free
        \/ dpod[k] = None /\ Free /\ UNCHANGED <<dpod, removed>>
        \/ Spend("fault") /\ (DeletePod(k) \/ UNCHANGED <<dpod, removed>>)
  /\ consumer' = [consumer EXCEPT ![d] = None]
  /\ UNCHANGED <<thief, pod, stored, stealerVars, online, net>>

------------------------------------------------------------------------------
InformerStep(s) == Skip(s) \/ StartTimePanic(s) \/ Notify(s) \/ InformerStarts(s)
ConsumerStep(d) == Look(d) \/ Remove(d) \/ DonorStarts(d)
Environment == \/ \E x \in Steals : \/ \E who \in Stealers \cup {Home} : Claimed(x, who)
                                    \/ Stored(x) \/ PodCreated(x) \/ PodStarts(x)
                                    \/ PodEnds(x) \/ PodDeleted(x)
               \/ \E k \in Keys : DonorPodDeleted(k)
               \/ \E s \in Stealers : WatchEnds(s)
               \/ \E d \in Donors : DonorStops(d)

Next == \/ Environment
        \/ \E s \in Stealers : InformerStep(s)
        \/ \E d \in Donors : ConsumerStep(d)

Spec == Init /\ [][Next]_vars

\* The informer's loop, the subscription and the restarts of both processes
\* go on; nothing is assumed about pods and users.
FairSpec == /\ Spec
            /\ \A s \in Stealers : WF_vars(InformerStep(s))
            /\ \A d \in Donors : WF_vars(ConsumerStep(d))

------------------------------------------------------------------------------
(* The life of the workloads, which StealProtocol begins.                    *)

PlaceOf(x) == IF x \in removed THEN "removed"
              ELSE IF dpod[Key(x)] = x THEN "stored"
              ELSE IF x \in stored THEN "withdrawn" ELSE "none"

Life == INSTANCE WorkloadLife WITH
          Workloads <- Steals,
          Thieves   <- Stealers,
          Nobody    <- None,
          place     <- [x \in Steals |-> PlaceOf(x)]

\* The return of results ends that life: a placeholder is removed once, after
\* its thief's pod, and is the only pod a consumer removes.
ImplementsLife == Life!LifeSpec

------------------------------------------------------------------------------
\* Types; a donor keeps its own pods and only works on its own results.
TypeOK == /\ thief \in [Steals -> Stealers \cup {Home, None}]
          /\ pod \in [Steals -> Phases]
          /\ dpod \in [Keys -> Steals \cup {None}]
          /\ \A k \in Keys : dpod[k] # None => Key(dpod[k]) = k
          /\ stored \subseteq Steals
          /\ watching \subseteq Stealers
          /\ events \in [Stealers -> Seq(Event)]
          /\ online \subseteq Donors
          /\ net \in [Donors -> Seq(Steals)]
          /\ consumer \in [Donors -> Steals \cup {None}]
          /\ \A d \in Donors : consumer[d] # None => DonorOf[consumer[d]] = d
          /\ left \in [Kinds -> Nat]
          /\ removed \subseteq Steals

\* A result under way or being acted on is true in what the consumer takes from
\* it: its pod is gone.
ResultsAreTrue ==
  \A d \in Donors : /\ \A i \in 1..Len(net[d]) : pod[net[d][i]] = "gone"
                    /\ consumer[d] # None => pod[consumer[d]] = "gone"

\* A consumer deletes no pod but the placeholder of a stolen pod that is gone.
PlaceholderOutlivesPod == \A x \in removed : pod[x] = "gone"

\* A consumer deletes no pod that runs at home: the pod it has found to be a
\* placeholder is still there, or another one of that thief, when it deletes by name.
HomePodsKept == \A x \in removed : thief[x] # Home

\* A placeholder whose stolen pod was deleted, in a namespace the informer does
\* not ignore, is deleted in the end.
PlaceholderRemoved ==
  \A x \in Steals : NameOf[x] \notin Ignored =>
                       (pod[x] = "gone" /\ dpod[Key(x)] = x ~> dpod[Key(x)] # x)

\* What the informer publishes as "Pod Execution Completed" and "Success" was
\* the result of a pod that had completed when it was deleted.
OnlyCompletedReported ==
  [][\A s \in Stealers : Notify(s) /\ net' # net => Head(events[s]).phase = "Succeeded"]_vars

\* A placeholder whose stolen pod has completed its execution is deleted
\* as well.
EndedIsRemoved ==
  \A x \in Steals : pod[x] = "Succeeded" /\ dpod[Key(x)] = x ~> dpod[Key(x)] # x
==============================================================================
