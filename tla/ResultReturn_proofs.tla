------------------------- MODULE ResultReturn_proofs --------------------------
(* Theorems about ResultReturn, for every set of steals, stealers and donors *)
(* and every budget.                                                         *)
EXTENDS ResultReturn, SequenceTheorems, TLAPS

\* What is in a sequence after an Append or a Tail.
LEMMA InAppend == ASSUME NEW S, NEW q \in Seq(S), NEW e \in S,
                         NEW i \in 1..Len(Append(q, e))
                  PROVE  Append(q, e)[i] = e \/ (i \in 1..Len(q) /\ Append(q, e)[i] = q[i])
  BY AppendProperties, LenProperties

LEMMA InTail == ASSUME NEW S, NEW q \in Seq(S), q # <<>>, NEW i \in 1..Len(Tail(q))
                PROVE  i + 1 \in 1..Len(q) /\ Tail(q)[i] = q[i + 1]
  BY HeadTailProperties, LenProperties

LEMMA AtHead == ASSUME NEW S, NEW q \in Seq(S), q # <<>>
                PROVE  1 \in 1..Len(q) /\ Head(q) = q[1] /\ Head(q) \in S /\ Tail(q) \in Seq(S)
  BY HeadTailProperties, LenProperties, EmptySeq

------------------------------------------------------------------------------
(* Typing.                                                                   *)

LEMMA KeyType == ASSUME NEW x \in Steals
                 PROVE  Key(x) \in Keys /\ DonorOf[x] \in Donors /\ NameOf[x] \in Names
  BY StealsAssumption DEF Key, Keys

LEMMA SpendType == ASSUME TypeOK, NEW kind \in Kinds, Spend(kind)
                   PROVE  left' \in [Kinds -> Nat]
  BY DEF Spend, TypeOK

LEMMA KindsAre == /\ "overtake" \in Kinds /\ "again" \in Kinds /\ "late" \in Kinds /\ "early" \in Kinds /\ "watchend" \in Kinds
                  /\ "down" \in Kinds /\ "undo" \in Kinds /\ "fault" \in Kinds
  BY DEF Kinds

LEMMA ChangeType ==
  ASSUME TypeOK, NEW x \in Steals, NEW phase \in Phases, NEW shown \in Phases,
         NEW type \in {"Added", "Modified", "Deleted"}, Change(x, phase, type, shown)
  PROVE  pod' \in [Steals -> Phases] /\ events' \in [Stealers -> Seq(Event)]
<1> DEFINE e == [type |-> type, of |-> x, phase |-> shown]
<1>1. e \in Event
  BY DEF Event
<1>2. thief[x] \in watching => Append(events[thief[x]], e) \in Seq(Event)
  BY <1>1, AppendProperties DEF TypeOK
<1>3. pod' \in [Steals -> Phases]
  BY DEF Change, TypeOK
<1>4. events' \in [Stealers -> Seq(Event)]
  BY <1>2 DEF Change, TypeOK
<1> QED BY <1>3, <1>4

LEMMA HandledType == ASSUME TypeOK, NEW s \in Stealers, Handle(s)
                     PROVE  /\ Head(events[s]) \in Event
                            /\ Handled(s) \/ Exits(s) =>
                                 events' \in [Stealers -> Seq(Event)] /\ watching' \subseteq Stealers
<1>1. events[s] \in Seq(Event) /\ events[s] # <<>>
  BY DEF Handle, TypeOK
<1>2. Head(events[s]) \in Event /\ Tail(events[s]) \in Seq(Event) /\ <<>> \in Seq(Event)
  BY <1>1, AtHead, EmptySeq
<1> QED BY <1>2 DEF Handled, Exits, TypeOK

LEMMA PublishType == ASSUME TypeOK, NEW x \in Steals, Publish(x)
                     PROVE  net' \in [Donors -> Seq(Steals)]
<1>1. \A d \in Donors : net[d] \in Seq(Steals) /\ Append(net[d], x) \in Seq(Steals)
  BY AppendProperties DEF TypeOK
<1> QED BY <1>1 DEF Publish

LEMMA DeleteType == ASSUME TypeOK, NEW k \in Keys, DeletePod(k)
                    PROVE  /\ dpod' \in [Keys -> Steals \cup {None}]
                           /\ \A l \in Keys : dpod'[l] # None => Key(dpod'[l]) = l
                           /\ removed' \subseteq Steals
  BY DEF DeletePod, TypeOK

LEMMA TypedInit == Init => TypeOK
<1> SUFFICES ASSUME Init PROVE TypeOK
  OBVIOUS
<1>1. <<>> \in Seq(Event) /\ <<>> \in Seq(Steals)
  BY EmptySeq
<1> QED BY <1>1, BudgetAssumption DEF Init, TypeOK, Phases

LEMMA TypedEnvironment == ASSUME TypeOK, Environment PROVE TypeOK'
<1> USE KindsAre DEF clusterVars, stealerVars, donorVars, Free
<1>1. ASSUME NEW x \in Steals, NEW who \in Stealers \cup {Home}, Claimed(x, who) PROVE TypeOK'
  BY <1>1, SpendType DEF Claimed, TypeOK, Key
<1>2. ASSUME NEW x \in Steals, Stored(x) PROVE TypeOK'
  <2>1. left' \in [Kinds -> Nat]
    BY <1>2, SpendType DEF Stored, TypeOK
  <2>2. dpod' \in [Keys -> Steals \cup {None}] /\ \A l \in Keys : dpod'[l] # None => Key(dpod'[l]) = l
    BY <1>2, KeyType DEF Stored, TypeOK
  <2> QED BY <1>2, <2>1, <2>2 DEF Stored, TypeOK, Key
<1>3. ASSUME NEW x \in Steals, PodCreated(x) \/ PodStarts(x) \/ PodEnds(x) \/ PodDeleted(x)
      PROVE  TypeOK'
  <2>1. pod' \in [Steals -> Phases] /\ events' \in [Stealers -> Seq(Event)]
    BY <1>3, ChangeType DEF PodCreated, PodStarts, PodEnds, PodDeleted, Phases
  <2>2. left' \in [Kinds -> Nat]
    BY <1>3, SpendType DEF PodCreated, PodStarts, PodEnds, PodDeleted, TypeOK
  <2> QED BY <1>3, <2>1, <2>2 DEF PodCreated, PodStarts, PodEnds, PodDeleted, Change, TypeOK, Key
<1>4. ASSUME NEW k \in Keys, DonorPodDeleted(k) PROVE TypeOK'
  BY <1>4, SpendType DEF DonorPodDeleted, TypeOK, Key
<1>5. ASSUME NEW s \in Stealers, WatchEnds(s) PROVE TypeOK'
  <2>1. events' \in [Stealers -> Seq(Event)]
    BY <1>5, EmptySeq DEF WatchEnds, Exits, TypeOK
  <2> QED BY <1>5, <2>1, SpendType DEF WatchEnds, Exits, TypeOK, Key
<1>6. ASSUME NEW d \in Donors, DonorStops(d) PROVE TypeOK'
  <2>1. net' \in [Donors -> Seq(Steals)]
    BY <1>6, EmptySeq DEF DonorStops, TypeOK
  <2> QED BY <1>6, <2>1, SpendType DEF DonorStops, TypeOK, Key
<1> QED BY <1>1, <1>2, <1>3, <1>4, <1>5, <1>6 DEF Environment

LEMMA TypedInformer == ASSUME TypeOK, NEW s \in Stealers, InformerStep(s) PROVE TypeOK'
<1> USE KindsAre DEF clusterVars, stealerVars, donorVars, Free
<1>1. CASE Skip(s)
  BY <1>1, HandledType DEF Skip, Handle, TypeOK, Key
<1>2. CASE StartTimePanic(s)
  BY <1>2, HandledType DEF StartTimePanic, Handle, TypeOK, Key
<1>3. CASE Notify(s)
  <2>1. Head(events[s]).of \in Steals
    BY <1>3, HandledType DEF Notify, Event
  <2>2. net' \in [Donors -> Seq(Steals)]
    BY <1>3, <2>1, PublishType DEF Notify, TypeOK
  <2>3. left' \in [Kinds -> Nat]
    BY <1>3, SpendType DEF Notify, TypeOK
  <2> QED BY <1>3, <2>2, <2>3, HandledType DEF Notify, Handle, TypeOK, Key
<1>4. CASE InformerStarts(s)
  BY <1>4 DEF InformerStarts, TypeOK, Key
<1> QED BY <1>1, <1>2, <1>3, <1>4 DEF InformerStep

LEMMA TypedConsumer == ASSUME TypeOK, NEW d \in Donors, ConsumerStep(d) PROVE TypeOK'
<1> USE KindsAre DEF clusterVars, stealerVars, donorVars, Free
<1>1. CASE Look(d)
  <2>1. net[d] \in Seq(Steals) /\ net[d] # <<>>
    BY <1>1 DEF Look, TypeOK
  <2>2. Head(net[d]) \in Steals /\ Tail(net[d]) \in Seq(Steals)
    BY <2>1, AtHead
  <2>3. consumer' \in [Donors -> Steals \cup {None}]
        /\ \A e \in Donors : consumer'[e] # None => DonorOf[consumer'[e]] = e
    BY <1>1, <2>2 DEF Look, Matches, TypeOK
  <2>4. left' \in [Kinds -> Nat]
    BY <1>1, SpendType DEF Look, TypeOK
  <2> QED BY <1>1, <2>2, <2>3, <2>4 DEF Look, TypeOK, Key
<1>2. CASE Remove(d)
  <2> DEFINE k == <<d, NameOf[consumer[d]]>>
  <2>1. k \in Keys
    BY <1>2, KeyType DEF Remove, TypeOK, Keys
  <2>2. DeletePod(k) \/ UNCHANGED <<dpod, removed>>
    BY <1>2 DEF Remove
  <2>3. /\ dpod' \in [Keys -> Steals \cup {None}]
        /\ \A l \in Keys : dpod'[l] # None => Key(dpod'[l]) = l
        /\ removed' \subseteq Steals
    BY <2>1, <2>2, DeleteType DEF TypeOK
  <2>4. left' \in [Kinds -> Nat]
    BY <1>2, SpendType DEF Remove, TypeOK
  <2> QED BY <1>2, <2>3, <2>4, StealsAssumption DEF Remove, TypeOK, Key
<1>3. CASE DonorStarts(d)
  BY <1>3 DEF DonorStarts, TypeOK, Key
<1> QED BY <1>1, <1>2, <1>3 DEF ConsumerStep

LEMMA TypedNext == ASSUME TypeOK, [Next]_vars PROVE TypeOK'
<1>1. CASE UNCHANGED vars
  BY <1>1 DEF vars, TypeOK, Key
<1> QED BY <1>1, TypedEnvironment, TypedInformer, TypedConsumer DEF Next

\* Every variable of ResultReturn keeps its type; a donor's name stands for a
\* pod of that name, and a consumer only works on results of its own donor.
THEOREM TypeCorrect == Spec => []TypeOK
<1>1. TypeOK /\ [Next]_vars => TypeOK'
  BY TypedNext
<1> QED BY TypedInit, <1>1, PTL DEF Spec
------------------------------------------------------------------------------
(* What is on its way.  A result is true because the event behind it was:    *)
(* an event that says Deleted, a result in the net and a result that is      *)
(* being acted on each belong to a pod that was made, and that is gone       *)
(* unless its thief may make it again.                                       *)

Finished == {x \in Steals : pod[x] # "none" /\ (Budget["again"] = 0 => pod[x] = "gone")}

EventsAreTrue ==
  \A s \in Stealers : \A i \in 1..Len(events[s]) :
     events[s][i].type = "Deleted" => events[s][i].of \in Finished

ReportsAreTrue ==
  \A d \in Donors : /\ \A i \in 1..Len(net[d]) : net[d][i] \in Finished
                    /\ consumer[d] # None => consumer[d] \in Finished

MadeByThief == \A x \in Steals : pod[x] # "none" => thief[x] \in Stealers

Spared(kind) == Budget[kind] = 0 => left[kind] = 0

Truth == TypeOK /\ Spared("again") /\ MadeByThief /\ EventsAreTrue /\ ReportsAreTrue

LEMMA SparedStays == ASSUME TypeOK, [Next]_vars, NEW kind \in Kinds, Spared(kind)
                     PROVE  Spared(kind)'
<1> USE KindsAre DEF Free
<1>1. UNCHANGED left \/ \E k \in Kinds : Spend(k)
  BY DEF Next, vars, Environment, Claimed, Stored, DonorPodDeleted, PodCreated, PodStarts,
         PodEnds, PodDeleted, WatchEnds, DonorStops, InformerStep, Skip, StartTimePanic,
         Notify, InformerStarts, ConsumerStep, Look, Remove, DonorStarts
<1>2. CASE UNCHANGED left
  BY <1>2 DEF Spared
<1>3. ASSUME NEW k \in Kinds, Spend(k) PROVE Spared(kind)'
  BY <1>3 DEF Spend, Spared, TypeOK
<1> QED BY <1>1, <1>2, <1>3

\* How a step may change a stolen pod.
LEMMA PodMoves ==
  ASSUME TypeOK, [Next]_vars, NEW x \in Steals
  PROVE  /\ pod[x] # "none" => pod'[x] # "none"
         /\ pod'[x] # "none" => pod[x] # "none" \/ thief[x] \in Stealers
         /\ pod[x] = "gone" /\ pod'[x] # "gone" => Spend("again")
<1> USE DEF clusterVars
<1>1. ASSUME NEW y \in Steals, PodCreated(y) \/ PodStarts(y) \/ PodEnds(y) \/ PodDeleted(y)
      PROVE  /\ pod[x] # "none" => pod'[x] # "none"
             /\ pod'[x] # "none" => pod[x] # "none" \/ thief[x] \in Stealers
             /\ pod[x] = "gone" /\ pod'[x] # "gone" => Spend("again")
  BY <1>1 DEF PodCreated, PodStarts, PodEnds, PodDeleted, Change, TypeOK
<1>2. \/ UNCHANGED pod
      \/ \E y \in Steals : PodCreated(y) \/ PodStarts(y) \/ PodEnds(y) \/ PodDeleted(y)
  BY DEF Next, vars, Environment, Claimed, Stored, DonorPodDeleted, WatchEnds, DonorStops,
         InformerStep, Skip, StartTimePanic, Notify, InformerStarts, Handle, ConsumerStep,
         Look, Remove, DonorStarts
<1> QED BY <1>1, <1>2

LEMMA ThiefStays == ASSUME TypeOK, [Next]_vars, NEW x \in Steals, thief[x] # None
                    PROVE  thief'[x] = thief[x]
<1> USE DEF clusterVars
<1> QED BY DEF Next, vars, Environment, Claimed, Stored, DonorPodDeleted, PodCreated, PodStarts,
           PodEnds, PodDeleted, Change, WatchEnds, DonorStops, InformerStep, Skip,
           StartTimePanic, Notify, InformerStarts, Handle, ConsumerStep, Look, Remove,
           DonorStarts, TypeOK

LEMMA FinishedStays == ASSUME Truth, [Next]_vars, NEW x \in Finished PROVE x \in Finished'
<1>1. x \in Steals /\ TypeOK /\ pod[x] # "none" /\ Spared("again")
  BY DEF Finished, Truth
<1>2. pod'[x] # "none"
  BY <1>1, PodMoves
<1>3. ASSUME Budget["again"] = 0 PROVE pod'[x] = "gone"
  <2>1. pod[x] = "gone" /\ left["again"] = 0
    BY <1>1, <1>3 DEF Finished, Spared
  <2> QED BY <1>1, <2>1, PodMoves DEF Spend
<1> QED BY <1>1, <1>2, <1>3 DEF Finished

LEMMA MadeByThiefStays == ASSUME Truth, [Next]_vars PROVE MadeByThief'
<1> SUFFICES ASSUME NEW x \in Steals, pod'[x] # "none" PROVE thief'[x] \in Stealers
  BY DEF MadeByThief
<1>1. TypeOK /\ (pod[x] # "none" => thief[x] \in Stealers)
  BY DEF Truth, MadeByThief
<1>2. thief[x] \in Stealers
  BY <1>1, PodMoves
<1>3. thief[x] # None
  BY <1>2, ThievesAssumption
<1> QED BY <1>1, <1>2, <1>3, ThiefStays

\* It is enough to look at what a step puts on its way.
LEMMA KeepEvents ==
  ASSUME Truth, [Next]_vars, TypeOK',
         \A s \in Stealers : \A i \in 1..Len(events'[s]) :
            \/ \E j \in 1..Len(events[s]) : events'[s][i] = events[s][j]
            \/ events'[s][i].type = "Deleted" => events'[s][i].of \in Finished'
  PROVE  EventsAreTrue'
<1> SUFFICES ASSUME NEW s \in Stealers, NEW i \in 1..Len(events'[s]),
                    NEW j \in 1..Len(events[s]), events'[s][i] = events[s][j],
                    events'[s][i].type = "Deleted"
             PROVE  events'[s][i].of \in Finished'
  BY DEF EventsAreTrue
<1>1. events[s][j] \in Event
  BY ElementOfSeq DEF Truth, TypeOK
<1>2. events[s][j].of \in Finished
  BY <1>1 DEF Truth, EventsAreTrue, Event
<1> QED BY <1>2, FinishedStays

LEMMA KeepReports ==
  ASSUME Truth, [Next]_vars, TypeOK',
         \A d \in Donors :
            /\ \A i \in 1..Len(net'[d]) :
                  \/ \E j \in 1..Len(net[d]) : net'[d][i] = net[d][j]
                  \/ net'[d][i] \in Finished'
            /\ consumer'[d] \in {consumer[d], None} \/ consumer'[d] \in Finished'
  PROVE  ReportsAreTrue'
<1>1. ASSUME NEW d \in Donors, NEW i \in 1..Len(net'[d]) PROVE net'[d][i] \in Finished'
  <2> SUFFICES ASSUME NEW j \in 1..Len(net[d]), net'[d][i] = net[d][j]
               PROVE  net'[d][i] \in Finished'
    OBVIOUS
  <2>1. net[d][j] \in Finished
    BY DEF Truth, ReportsAreTrue
  <2> QED BY <2>1, FinishedStays
<1>2. ASSUME NEW d \in Donors, consumer'[d] # None PROVE consumer'[d] \in Finished'
  <2> SUFFICES ASSUME consumer'[d] = consumer[d] PROVE consumer'[d] \in Finished'
    BY <1>2
  <2>1. consumer[d] \in Finished
    BY <1>2 DEF Truth, ReportsAreTrue
  <2> QED BY <2>1, FinishedStays
<1> QED BY <1>1, <1>2 DEF ReportsAreTrue

\* What every step keeps, and the rest of the invariant.
LEMMA TruthFrom ==
  ASSUME Truth, [Next]_vars, EventsAreTrue', ReportsAreTrue' PROVE Truth'
<1>1. TypeOK' /\ Spared("again")'
  BY TypedNext, SparedStays, KindsAre DEF Truth
<1> QED BY <1>1, MadeByThiefStays DEF Truth

LEMMA TruthInit == Init => Truth
<1> SUFFICES ASSUME Init PROVE Truth
  OBVIOUS
<1>1. EventsAreTrue /\ ReportsAreTrue
  BY EmptySeq DEF Init, EventsAreTrue, ReportsAreTrue
<1> QED BY <1>1, TypedInit, KindsAre, BudgetAssumption DEF Init, Truth, MadeByThief, Spared

\* A pod's change puts an event on its way, which says Deleted only if it is.
LEMMA TruthChange ==
  ASSUME Truth, TypeOK', [Next]_vars, NEW x \in Steals, NEW phase \in Phases,
         NEW shown \in Phases, NEW type \in {"Added", "Modified", "Deleted"},
         Change(x, phase, type, shown), type = "Deleted" => phase = "gone"
  PROVE  Truth'
<1> DEFINE e == [type |-> type, of |-> x, phase |-> shown]
<1>1. e \in Event /\ (e.type = "Deleted" => e.of \in Finished')
  BY DEF Event, Change, Finished, Truth, TypeOK
<1>2. ASSUME NEW s \in Stealers, NEW i \in 1..Len(events'[s])
      PROVE  events'[s][i] = e \/ \E j \in 1..Len(events[s]) : events'[s][i] = events[s][j]
  <2>1. events[s] \in Seq(Event) /\ (events'[s] = events[s] \/ events'[s] = Append(events[s], e))
    BY DEF Change, Truth, TypeOK
  <2> QED BY <1>1, <1>2, <2>1, InAppend
<1>3. EventsAreTrue'
  BY <1>1, <1>2, KeepEvents
<1>4. ReportsAreTrue'
  BY KeepReports DEF Change, donorVars
<1> QED BY <1>3, <1>4, TruthFrom

LEMMA TruthEnvironment == ASSUME Truth, TypeOK', [Next]_vars, Environment PROVE Truth'
<1> USE DEF clusterVars, stealerVars, donorVars
<1>1. ASSUME NEW x \in Steals, PodCreated(x) \/ PodStarts(x) \/ PodEnds(x) \/ PodDeleted(x)
      PROVE  Truth'
  <2>1. pod[x] \in Phases /\ {"Pending", "Running", "Succeeded", "gone"} \subseteq Phases
    BY DEF Truth, TypeOK, Phases
  <2> QED BY <1>1, <2>1, TruthChange DEF PodCreated, PodStarts, PodEnds, PodDeleted
<1>2. ASSUME NEW s \in Stealers, WatchEnds(s) PROVE Truth'
  <2>1. \A t \in Stealers : \A i \in 1..Len(events'[t]) : events'[t] = events[t]
    BY <1>2, EmptySeq DEF WatchEnds, Exits, Truth, TypeOK
  <2> QED BY <1>2, <2>1, KeepEvents, KeepReports, TruthFrom DEF WatchEnds
<1>3. ASSUME NEW d \in Donors, DonorStops(d) PROVE Truth'
  <2>1. \A e \in Donors : \A i \in 1..Len(net'[e]) : net'[e] = net[e]
    BY <1>3, EmptySeq DEF DonorStops, Truth, TypeOK
  <2>2. \A e \in Donors : consumer'[e] \in {consumer[e], None}
    BY <1>3 DEF DonorStops, Truth, TypeOK
  <2> QED BY <1>3, <2>1, <2>2, KeepEvents, KeepReports, TruthFrom DEF DonorStops
<1>4. CASE UNCHANGED <<pod, events, net, consumer>>
  BY <1>4, KeepEvents, KeepReports, TruthFrom
<1> QED BY <1>1, <1>2, <1>3, <1>4 DEF Environment, Claimed, Stored, DonorPodDeleted

LEMMA TruthInformer ==
  ASSUME Truth, TypeOK', [Next]_vars, NEW s \in Stealers, InformerStep(s) PROVE Truth'
<1> USE DEF clusterVars
<1>1. \A t \in Stealers : \A i \in 1..Len(events'[t]) :
         \E j \in 1..Len(events[t]) : events'[t][i] = events[t][j]
  <2> SUFFICES ASSUME NEW t \in Stealers, NEW i \in 1..Len(events'[t])
               PROVE  \E j \in 1..Len(events[t]) : events'[t][i] = events[t][j]
    OBVIOUS
  <2>1. events[t] \in Seq(Event)
    BY DEF Truth, TypeOK
  <2>2. CASE events'[t] = events[t]
    BY <2>2
  <2>3. CASE events'[t] = <<>>
    BY <2>3, EmptySeq
  <2>4. CASE events[t] # <<>> /\ events'[t] = Tail(events[t])
    BY <2>1, <2>4, InTail
  <2> QED BY <2>2, <2>3, <2>4 DEF InformerStep, Skip, StartTimePanic, Notify, InformerStarts,
                                  Handle, Handled, Exits, Truth, TypeOK
<1>2. \A d \in Donors : \A i \in 1..Len(net'[d]) :
         \/ \E j \in 1..Len(net[d]) : net'[d][i] = net[d][j]
         \/ net'[d][i] \in Finished'
  <2>1. CASE UNCHANGED net
    BY <2>1
  <2>2. CASE Notify(s) /\ Publish(Head(events[s]).of)
    <3> DEFINE x == Head(events[s]).of
    <3>1. 1 \in 1..Len(events[s]) /\ Head(events[s]) = events[s][1] /\ Head(events[s]) \in Event
      BY <2>2, AtHead DEF Notify, Handle, Truth, TypeOK
    <3>2. x \in Steals /\ x \in Finished
      BY <2>2, <3>1 DEF Notify, Relevant, Truth, EventsAreTrue, Event
    <3>3. x \in Finished'
      BY <3>2, FinishedStays
    <3>4. ASSUME NEW d \in Donors, NEW i \in 1..Len(net'[d])
          PROVE  net'[d][i] = x \/ \E j \in 1..Len(net[d]) : net'[d][i] = net[d][j]
      <4>1. net[d] \in Seq(Steals) /\ (net'[d] = net[d] \/ net'[d] = Append(net[d], x))
        BY <2>2 DEF Publish, Truth, TypeOK
      <4> QED BY <3>2, <3>4, <4>1, InAppend
    <3> QED BY <3>3, <3>4
  <2> QED BY <2>1, <2>2 DEF InformerStep, Skip, StartTimePanic, Notify, InformerStarts, donorVars
<1>3. UNCHANGED consumer
  BY DEF InformerStep, Skip, StartTimePanic, Notify, InformerStarts, Handle, donorVars
<1> QED BY <1>1, <1>2, <1>3, KeepEvents, KeepReports, TruthFrom

LEMMA TruthConsumer ==
  ASSUME Truth, TypeOK', [Next]_vars, NEW d \in Donors, ConsumerStep(d) PROVE Truth'
<1> USE DEF clusterVars, stealerVars
<1>1. EventsAreTrue'
  BY KeepEvents DEF ConsumerStep, Look, Remove, DonorStarts
<1>2. CASE Look(d)
  <2>1. net[d] \in Seq(Steals) /\ net[d] # <<>>
    BY <1>2 DEF Look, Truth, TypeOK
  <2>2. Head(net[d]) \in Finished
    BY <2>1, AtHead DEF Truth, ReportsAreTrue
  <2>3. Head(net[d]) \in Finished'
    BY <2>2, FinishedStays
  <2>4. \A e \in Donors : consumer'[e] \in {consumer[e], None} \/ consumer'[e] = Head(net[d])
    BY <1>2 DEF Look, Truth, TypeOK
  <2>5. ASSUME NEW e \in Donors, NEW i \in 1..Len(net'[e])
        PROVE  \E j \in 1..Len(net[e]) : net'[e][i] = net[e][j]
    <3>1. net'[e] = net[e] \/ (e = d /\ net'[e] = Tail(net[d]))
      BY <1>2 DEF Look, Truth, TypeOK
    <3> QED BY <2>1, <2>5, <3>1, InTail
  <2> QED BY <1>1, <2>3, <2>4, <2>5, KeepReports, TruthFrom
<1>3. CASE Remove(d) \/ DonorStarts(d)
  <2>1. \A e \in Donors : consumer'[e] \in {consumer[e], None}
    BY <1>3 DEF Remove, DonorStarts, Truth, TypeOK
  <2> QED BY <1>1, <1>3, <2>1, KeepReports, TruthFrom DEF Remove, DonorStarts
<1> QED BY <1>2, <1>3 DEF ConsumerStep

LEMMA TruthNext == ASSUME Truth, [Next]_vars PROVE Truth'
<1>1. TypeOK'
  BY TypedNext DEF Truth
<1>2. CASE UNCHANGED vars
  BY <1>2, KeepEvents, KeepReports, TruthFrom, <1>1 DEF vars
<1> QED BY <1>1, <1>2, TruthEnvironment, TruthInformer, TruthConsumer DEF Next

LEMMA TruthAlways == Spec => []Truth
<1>1. Truth /\ [Next]_vars => Truth'
  BY TruthNext
<1> QED BY TruthInit, <1>1, PTL DEF Spec

LEMMA FinishedIsGone ==
  ASSUME Budget["again"] = 0, Truth
  PROVE  ResultsAreTrue /\ \A x \in Steals : x \in Finished => pod[x] = "gone"
<1>1. \A x \in Finished : pod[x] = "gone"
  BY DEF Finished
<1> QED BY <1>1 DEF Truth, ReportsAreTrue, ResultsAreTrue

\* A result that is under way to a donor, or that a consumer acts on, is about a
\* stolen pod that is gone, as long as no stealer makes a pod once more.
THEOREM ResultsAreTrueTheorem ==
  ASSUME Budget["again"] = 0 PROVE Spec => []ResultsAreTrue
<1>1. Truth => ResultsAreTrue
  BY FinishedIsGone
<1> QED BY <1>1, TruthAlways, PTL

------------------------------------------------------------------------------
(* The deletion by name.  The consumer deletes what is there by then.         *)

\* How a step may change what is in the donor.
LEMMA PlaceMoves ==
  ASSUME TypeOK, [Next]_vars
  PROVE  \/ UNCHANGED <<dpod, stored, removed>>
         \/ \E x \in Steals : Stored(x)
         \/ \E k \in Keys : DonorPodDeleted(k)
         \/ \E d \in Donors : Remove(d) /\ DeletePod(<<d, NameOf[consumer[d]]>>)
<1> USE DEF clusterVars
<1> QED BY DEF Next, vars, Environment, Claimed, Change, PodCreated, PodStarts, PodEnds,
           PodDeleted, WatchEnds, DonorStops, InformerStep, Skip, StartTimePanic, Notify,
           InformerStarts, Handle, ConsumerStep, Look, DonorStarts, Remove

LEMMA RemovalIs ==
  ASSUME TypeOK, NEW d \in Donors, Remove(d), DeletePod(<<d, NameOf[consumer[d]]>>)
  PROVE  /\ consumer[d] \in Steals /\ DonorOf[consumer[d]] = d
         /\ Key(consumer[d]) = <<d, NameOf[consumer[d]]>> /\ Key(consumer[d]) \in Keys
         /\ dpod[Key(consumer[d])] \in Steals
         /\ Key(dpod[Key(consumer[d])]) = Key(consumer[d])
<1>1. consumer[d] \in Steals /\ DonorOf[consumer[d]] = d
  BY DEF Remove, TypeOK
<1>2. Key(consumer[d]) = <<d, NameOf[consumer[d]]>> /\ Key(consumer[d]) \in Keys
  BY <1>1, KeyType DEF Key
<1> QED BY <1>1, <1>2 DEF DeletePod, TypeOK

\* With names that are used once it is the pod that the result is about.
NamesAreUnique == \A x, y \in Steals : Key(x) = Key(y) => x = y

LEMMA RemovesItsOwn ==
  ASSUME NamesAreUnique, Truth, NEW d \in Donors, Remove(d),
         DeletePod(<<d, NameOf[consumer[d]]>>)
  PROVE  \E x \in Finished : /\ Key(x) \in Keys /\ dpod[Key(x)] = x /\ DeletePod(Key(x))
                             /\ removed' = removed \cup {x}
<1> DEFINE x == consumer[d]
<1>1. /\ x \in Steals /\ Key(x) = <<d, NameOf[x]>> /\ Key(x) \in Keys
      /\ dpod[Key(x)] \in Steals /\ Key(dpod[Key(x)]) = Key(x)
  BY RemovalIs DEF Truth
<1>2. dpod[Key(x)] = x
  BY <1>1 DEF NamesAreUnique
<1>3. x \in Finished
  BY <1>1, StealsAssumption DEF Truth, ReportsAreTrue
<1>4. removed' = removed \cup {x}
  BY <1>1, <1>2 DEF DeletePod
<1> QED BY <1>1, <1>2, <1>3, <1>4

Deletions == Truth /\ removed \subseteq Finished

LEMMA DeletionsNext == ASSUME NamesAreUnique, Deletions, [Next]_vars PROVE Deletions'
<1>1. Truth /\ Truth'
  BY TruthNext DEF Deletions
<1>2. ASSUME NEW x \in removed' PROVE x \in Finished
  <2>1. CASE removed' = removed
    BY <1>2, <2>1 DEF Deletions
  <2>2. ASSUME NEW d \in Donors, Remove(d), DeletePod(<<d, NameOf[consumer[d]]>>)
        PROVE  x \in Finished
    BY <1>1, <1>2, <2>2, RemovesItsOwn DEF Deletions
  <2> QED BY <1>1, <2>1, <2>2, PlaceMoves DEF Truth, Stored, DonorPodDeleted
<1> QED BY <1>1, <1>2, FinishedStays DEF Deletions

\* Where no pod name is used twice in a donor and no stealer makes a pod once
\* more, a consumer deletes nothing but placeholders of stolen pods that are
\* gone, whatever is lost, late or fails.
THEOREM PlaceholderOutlivesPodTheorem ==
  ASSUME NamesAreUnique, Budget["again"] = 0 PROVE Spec => []PlaceholderOutlivesPod
<1>1. Init => Deletions
  BY TruthInit DEF Init, Deletions
<1>2. Deletions /\ [Next]_vars => Deletions'
  BY DeletionsNext
<1>3. Deletions => PlaceholderOutlivesPod
  BY FinishedIsGone DEF Deletions, PlaceholderOutlivesPod, Finished
<1> QED BY <1>1, <1>2, <1>3, PTL DEF Spec

------------------------------------------------------------------------------
(* Pods at home.  Between its check and its deletion only the consumer itself *)
(* takes a pod away, unless somebody deletes one; so nothing can be stored    *)
(* under the name, and what is deleted is what was checked: a pod with the    *)
(* result's thief on it.                                                     *)

Checked ==
  \A d \in Donors : consumer[d] # None =>
     /\ dpod[Key(consumer[d])] # None
     /\ thief[dpod[Key(consumer[d])]] = thief[consumer[d]]

AtHome == /\ Truth /\ Spared("undo") /\ Checked
          /\ \A x \in removed : thief[x] \in Stealers

LEMMA CheckedNext ==
  ASSUME Truth, Checked, Spared("undo"), Budget["undo"] = 0, [Next]_vars PROVE Checked'
<1> USE DEF clusterVars
<1> SUFFICES ASSUME NEW d \in Donors, consumer'[d] # None
             PROVE  /\ dpod'[Key(consumer'[d])] # None
                    /\ thief'[dpod'[Key(consumer'[d])]] = thief'[consumer'[d]]
  BY DEF Checked, Key
<1> TypeOK
  BY DEF Truth
<1>1. ASSUME NEW m \in Steals, DonorOf[m] = d, consumer'[d] = m,
             dpod[Key(m)] # None, thief[dpod[Key(m)]] = thief[m], dpod'[Key(m)] = dpod[Key(m)],
             m \in Finished
      PROVE  /\ dpod'[Key(consumer'[d])] # None
             /\ thief'[dpod'[Key(consumer'[d])]] = thief'[consumer'[d]]
  <2>1. dpod[Key(m)] \in Steals /\ thief[m] \in Stealers /\ thief[m] # None
    BY <1>1, KeyType, ThievesAssumption DEF Truth, TypeOK, MadeByThief, Finished
  <2>2. thief'[m] = thief[m] /\ thief'[dpod[Key(m)]] = thief[m]
    BY <1>1, <2>1, ThiefStays
  <2> QED BY <1>1, <2>1, <2>2
<1>2. CASE consumer'[d] = consumer[d]
  <2> PICK m \in Steals : m = consumer[d] /\ DonorOf[m] = d
    BY <1>2 DEF TypeOK
  <2>1. m \in Finished /\ dpod[Key(m)] # None /\ thief[dpod[Key(m)]] = thief[m] /\ Key(m) \in Keys
    BY <1>2, KeyType DEF Truth, ReportsAreTrue, Checked
  <2>2. ~Spend("undo")
    BY DEF Spared, Spend
  <2>3. ASSUME NEW e \in Donors, Remove(e), dpod'[Key(m)] # dpod[Key(m)] PROVE FALSE
    <3>1. e # d
      BY <1>2, <2>3 DEF Remove, TypeOK
    <3>2. consumer[e] \in Steals /\ DonorOf[consumer[e]] = e
      BY <2>3 DEF Remove, TypeOK
    <3>3. <<e, NameOf[consumer[e]]>> # Key(m)
      BY <3>1, <2>1 DEF Key
    <3>4. \/ dpod' = dpod
          \/ dpod' = [dpod EXCEPT ![<<e, NameOf[consumer[e]]>>] = None]
      BY <2>3 DEF Remove, DeletePod
    <3>5. dpod'[Key(m)] = dpod[Key(m)]
      BY <2>1, <3>3, <3>4 DEF TypeOK
    <3> QED BY <2>3, <3>5
  <2>4. ASSUME NEW x \in Steals, Stored(x) PROVE dpod'[Key(m)] = dpod[Key(m)]
    BY <2>1, <2>4 DEF Stored, TypeOK
  <2>5. dpod'[Key(m)] = dpod[Key(m)]
    BY <2>2, <2>3, <2>4, PlaceMoves DEF DonorPodDeleted
  <2> QED BY <1>1, <1>2, <2>1, <2>5
<1>3. CASE Look(d) /\ consumer'[d] # consumer[d]
  <2> PICK m \in Steals : m = Head(net[d])
    BY <1>3, AtHead DEF Look, TypeOK
  <2>1. consumer'[d] = m /\ Matches(d, m) /\ dpod' = dpod
    BY <1>3 DEF Look, TypeOK
  <2>2. m \in Finished
    BY <1>3, AtHead DEF Look, TypeOK, Truth, ReportsAreTrue
  <2> QED BY <1>1, <2>1, <2>2 DEF Matches
<1>4. consumer'[d] = consumer[d] \/ Look(d)
  BY DEF Next, vars, Environment, Claimed, Stored, DonorPodDeleted, Change, PodCreated,
         PodStarts, PodEnds, PodDeleted, WatchEnds, DonorStops, InformerStep, Skip,
         StartTimePanic, Notify, InformerStarts, Handle, ConsumerStep, Look, Remove,
         DonorStarts, donorVars, TypeOK
<1> QED BY <1>2, <1>3, <1>4

LEMMA AtHomeNext == ASSUME AtHome, Budget["undo"] = 0, [Next]_vars PROVE AtHome'
<1>1. Truth' /\ Spared("undo")' /\ Checked' /\ TypeOK /\ TypeOK'
  BY TruthNext, CheckedNext, SparedStays, KindsAre DEF AtHome, Truth
<1>2. ASSUME NEW x \in removed' PROVE x \in Steals /\ thief[x] \in Stealers
  <2>1. CASE x \in removed
    BY <1>1, <2>1 DEF AtHome, TypeOK
  <2>2. ASSUME NEW d \in Donors, Remove(d), DeletePod(<<d, NameOf[consumer[d]]>>), x \notin removed
        PROVE  x \in Steals /\ thief[x] \in Stealers
    <3> DEFINE m == consumer[d]
    <3>1. m \in Steals /\ Key(m) = <<d, NameOf[m]>> /\ dpod[Key(m)] \in Steals
      BY <1>1, <2>2, RemovalIs
    <3>2. m # None /\ x = dpod[Key(m)]
      BY <1>2, <2>2, <3>1, StealsAssumption DEF DeletePod
    <3>3. thief[x] = thief[m]
      BY <3>2 DEF AtHome, Checked
    <3>4. m \in Finished
      BY <3>2 DEF AtHome, Truth, ReportsAreTrue
    <3>5. thief[m] \in Stealers
      BY <3>1, <3>4 DEF AtHome, Truth, Finished, MadeByThief
    <3> QED BY <3>1, <3>2, <3>3, <3>5
  <2>3. x \in removed \/ \E d \in Donors : Remove(d) /\ DeletePod(<<d, NameOf[consumer[d]]>>)
    BY <1>1, <1>2, PlaceMoves DEF Stored, DonorPodDeleted
  <2> QED BY <2>1, <2>2, <2>3
<1>3. \A x \in removed' : thief'[x] \in Stealers
  <2> TAKE x \in removed'
  <2>1. x \in Steals /\ thief[x] \in Stealers /\ thief[x] # None
    BY <1>2, ThievesAssumption
  <2> QED BY <1>1, <2>1, ThiefStays
<1> QED BY <1>1, <1>3 DEF AtHome

\* The consumer's Get and its Delete by name are two calls.  As long as nobody
\* else deletes pods in the donors, it deletes no pod that runs at home all the
\* same, also where names are used again.
THEOREM HomePodsKeptTheorem ==
  ASSUME Budget["undo"] = 0 PROVE Spec => []HomePodsKept
<1>1. Init => AtHome
  BY TruthInit, KindsAre, BudgetAssumption DEF Init, AtHome, Spared, Checked
<1>2. AtHome /\ [Next]_vars => AtHome'
  BY AtHomeNext
<1>3. AtHome => HomePodsKept
  BY ThievesAssumption DEF AtHome, HomePodsKept
<1> QED BY <1>1, <1>2, <1>3, PTL DEF Spec
------------------------------------------------------------------------------
(* The life of the workloads.                                                *)

\* What is in the donor has been stored and not been removed.
Returning == /\ Deletions
             /\ removed \subseteq stored
             /\ \A k \in Keys : dpod[k] # None => dpod[k] \in stored \ removed

LEMMA ReturningNext == ASSUME NamesAreUnique, Returning, [Next]_vars PROVE Returning'
<1>1. Deletions' /\ Truth /\ TypeOK /\ TypeOK'
  BY DeletionsNext DEF Returning, Deletions, Truth
<1>2. CASE UNCHANGED <<dpod, stored, removed>>
  BY <1>1, <1>2 DEF Returning
<1>3. ASSUME NEW x \in Steals, Stored(x) PROVE Returning'
  BY <1>1, <1>3, KeyType DEF Stored, Returning, TypeOK
<1>4. ASSUME NEW k \in Keys, DonorPodDeleted(k) PROVE Returning'
  BY <1>1, <1>4 DEF DonorPodDeleted, Returning, TypeOK
<1>5. ASSUME NEW d \in Donors, Remove(d), DeletePod(<<d, NameOf[consumer[d]]>>) PROVE Returning'
  <2>1. PICK x \in Finished : /\ Key(x) \in Keys /\ dpod[Key(x)] = x /\ DeletePod(Key(x))
                             /\ removed' = removed \cup {x}
    BY <1>1, <1>5, RemovesItsOwn
  <2>2. \A k \in Keys : dpod'[k] # None => dpod'[k] = dpod[k] /\ k # Key(x)
    BY <1>1, <2>1 DEF DeletePod, TypeOK
  <2>3. \A k \in Keys : dpod[k] = x => k = Key(x)
    BY <1>1, <2>1, StealsAssumption DEF TypeOK, Finished
  <2>4. stored' = stored /\ x \in stored
    BY <1>5, <2>1, StealsAssumption DEF Remove, Returning, Finished
  <2> QED BY <1>1, <2>1, <2>2, <2>3, <2>4 DEF Returning
<1> QED BY <1>1, <1>2, <1>3, <1>4, <1>5, PlaceMoves

LEMMA PlaceKept ==
  ASSUME NEW x \in Steals, dpod'[Key(x)] = dpod[Key(x)],
         x \in removed' <=> x \in removed, x \in stored' <=> x \in stored
  PROVE  PlaceOf(x)' = PlaceOf(x)
  BY DEF PlaceOf, Key

LEMMA StepLives ==
  ASSUME NamesAreUnique, Budget["again"] = 0, Returning, [Next]_vars
  PROVE  [Life!LifeNext]_(Life!lifeVars)
<1> USE DEF clusterVars, stealerVars, donorVars
<1> DEFINE places == [x \in Steals |-> PlaceOf(x)]
<1>1. TypeOK /\ Truth
  BY DEF Returning, Deletions, Truth
<1>2. CASE UNCHANGED <<dpod, stored, removed>>
  <2>1. places' = places
    BY <1>2, PlaceKept
  <2>2. ASSUME NEW x \in Steals, NEW c \in Stealers \cup {Home}, Claimed(x, c)
        PROVE  Life!Take(x, c)
    BY <2>1, <2>2 DEF Life!Take, Claimed
  <2>3. ASSUME NEW x \in Steals, PodCreated(x) PROVE Life!Create(x)
    BY <1>1, <2>1, <2>3 DEF Life!Create, Life!SetPod, Life!Alive, PodCreated, Change
  <2>4. ASSUME NEW x \in Steals, PodStarts(x) PROVE Life!Start(x)
    BY <1>1, <2>1, <2>4 DEF Life!Start, Life!SetPod, PodStarts, Change
  <2>5. ASSUME NEW x \in Steals, PodEnds(x) PROVE Life!Finish(x)
    BY <1>1, <2>1, <2>5 DEF Life!Finish, Life!SetPod, PodEnds, Change
  <2>6. ASSUME NEW x \in Steals, PodDeleted(x) PROVE Life!Delete(x)
    BY <1>1, <2>1, <2>6 DEF Life!Delete, Life!SetPod, Life!Alive, PodDeleted, Change
  <2>7. ASSUME UNCHANGED <<thief, pod>> PROVE UNCHANGED Life!lifeVars
    BY <2>1, <2>7 DEF Life!lifeVars
  <2>8. \/ UNCHANGED <<thief, pod>>
        \/ \E x \in Steals : \/ \E c \in Stealers \cup {Home} : Claimed(x, c)
                             \/ PodCreated(x) \/ PodStarts(x) \/ PodEnds(x) \/ PodDeleted(x)
    BY DEF Next, vars, Environment, Stored, DonorPodDeleted, WatchEnds, DonorStops, InformerStep,
           Skip, StartTimePanic, Notify, InformerStarts, Handle, ConsumerStep, Look, Remove,
           DonorStarts
  <2> QED BY <2>2, <2>3, <2>4, <2>5, <2>6, <2>7, <2>8 DEF Life!LifeNext
<1>3. ASSUME NEW x \in Steals, Stored(x) PROVE Life!Store(x)
  <2>1. PlaceOf(x) = "none" /\ PlaceOf(x)' = "stored"
    BY <1>1, <1>3, KeyType, StealsAssumption DEF Stored, Returning, PlaceOf, TypeOK, Key
  <2>2. ASSUME NEW y \in Steals \ {x} PROVE PlaceOf(y)' = PlaceOf(y)
    BY <1>1, <1>3, KeyType, PlaceKept DEF Stored, NamesAreUnique, TypeOK
  <2> QED BY <1>3, <2>1, <2>2 DEF Life!Store, Life!SetPlace, Stored
<1>4. ASSUME NEW k \in Keys, DonorPodDeleted(k) PROVE \E x \in Steals : Life!Withdraw(x)
  <2>1. PICK x \in Steals : dpod[k] = x /\ Key(x) = k /\ x \in stored /\ x \notin removed
    BY <1>1, <1>4 DEF DonorPodDeleted, TypeOK, Returning
  <2>2. PlaceOf(x) = "stored" /\ PlaceOf(x)' = "withdrawn"
    <3>1. dpod'[Key(x)] = None /\ x # None /\ x \in stored' /\ x \notin removed'
      BY <1>1, <1>4, <2>1, StealsAssumption DEF DonorPodDeleted, TypeOK
    <3> QED BY <2>1, <3>1 DEF PlaceOf, Key
  <2>3. ASSUME NEW y \in Steals \ {x} PROVE PlaceOf(y)' = PlaceOf(y)
    BY <1>1, <1>4, <2>1, KeyType, PlaceKept DEF DonorPodDeleted, NamesAreUnique, TypeOK
  <2>4. Life!Withdraw(x)
    BY <1>4, <2>1, <2>2, <2>3 DEF Life!Withdraw, Life!SetPlace, DonorPodDeleted
  <2> QED BY <2>4
<1>5. ASSUME NEW d \in Donors, Remove(d), DeletePod(<<d, NameOf[consumer[d]]>>)
      PROVE  \E x \in Steals : Life!Remove(x)
  <2>1. PICK x \in Finished : /\ Key(x) \in Keys /\ dpod[Key(x)] = x /\ DeletePod(Key(x))
                             /\ removed' = removed \cup {x}
    BY <1>1, <1>5, RemovesItsOwn
  <2>2. x \in Steals /\ pod[x] = "gone" /\ x \notin removed /\ UNCHANGED <<thief, pod, stored>>
    BY <1>1, <1>5, <2>1, FinishedIsGone, StealsAssumption DEF Finished, Returning, Remove
  <2>3. PlaceOf(x) = "stored" /\ PlaceOf(x)' = "removed"
    BY <2>1, <2>2 DEF PlaceOf
  <2>4. ASSUME NEW y \in Steals \ {x} PROVE PlaceOf(y)' = PlaceOf(y)
    BY <1>1, <2>1, <2>2, KeyType, PlaceKept DEF DeletePod, NamesAreUnique, TypeOK
  <2>5. Life!Remove(x)
    BY <2>2, <2>3, <2>4 DEF Life!Remove, Life!SetPlace
  <2> QED BY <2>2, <2>5
<1> QED BY <1>1, <1>2, <1>3, <1>4, <1>5, PlaceMoves DEF Life!LifeNext

\* Under the conditions of PlaceholderOutlivesPod the return of results ends the
\* life that the stealing began: each placeholder is removed at most once, and
\* only after the pod of its thief; nothing else in the donors is removed.
THEOREM ImplementsLifeTheorem ==
  ASSUME NamesAreUnique, Budget["again"] = 0 PROVE Spec => ImplementsLife
<1>1. Init => Returning
  BY TruthInit DEF Init, Deletions, Returning
<1>2. Returning /\ [Next]_vars => Returning'
  BY ReturningNext
<1>3. Init => Life!LifeInit
  <2> SUFFICES ASSUME Init PROVE Life!LifeInit
    OBVIOUS
  <2>1. \A x \in Steals : PlaceOf(x) = "none"
    BY KeyType, StealsAssumption DEF Init, PlaceOf
  <2> QED BY <2>1 DEF Init, Life!LifeInit
<1>4. Returning /\ [Next]_vars => [Life!LifeNext]_(Life!lifeVars)
  BY StepLives
<1> QED BY <1>1, <1>2, <1>3, <1>4, PTL DEF Spec, ImplementsLife, Life!LifeSpec
==============================================================================
