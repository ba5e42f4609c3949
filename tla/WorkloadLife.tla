----------------------------- MODULE WorkloadLife -----------------------------
(***************************************************************************)
(* The life of one workload in the two clusters it is known to: it is      *)
(* claimed or stays at home, the donor stores a pod for it, the thief      *)
(* creates, runs and loses another one, and the donor's goes when the      *)
(* thief's is gone.  StealProtocol and ResultReturn both implement it:     *)
(* what the return of results takes for granted of the stealing is what    *)
(* the stealing does.                                                      *)
(***************************************************************************)
CONSTANTS Workloads,
          Thieves,    \* the clusters that may execute a workload for a donor
          NameOf,     \* NameOf[w]: the namespaced name of w's pod
          Home,       \* the thief of a workload that stays in the donor
          Nobody      \* nothing is decided yet

VARIABLES thief,      \* per workload: the cluster it belongs to, or Nobody
          pod,        \* per workload: the phase of the pod in its thief's cluster
          place       \* per workload: what the donor has of its pod

lifeVars == <<thief, pod, place>>

Alive == {"Pending", "Running", "Succeeded"}

LifeInit == /\ thief = [w \in Workloads |-> Nobody]
            /\ pod   = [w \in Workloads |-> "none"]
            /\ place = [w \in Workloads |-> "none"]

\* The decision is made once.
Take(w, c) == /\ thief[w] = Nobody
              /\ thief' = [thief EXCEPT ![w] = c]
              /\ UNCHANGED <<pod, place>>

SetPod(w, phase) == pod' = [pod EXCEPT ![w] = phase] /\ UNCHANGED <<thief, place>>

\* Only the thief executes the workload, beside no other of that name; and may
\* do so again.
Create(w) == /\ thief[w] \in Thieves /\ pod[w] \notin Alive
             /\ \A v \in Workloads : thief[v] = thief[w] /\ NameOf[v] = NameOf[w] =>
                                        pod[v] \notin Alive
             /\ SetPod(w, "Pending")
Start(w)  == pod[w] = "Pending" /\ SetPod(w, "Running")
Finish(w) == pod[w] = "Running" /\ SetPod(w, "Succeeded")
Delete(w) == pod[w] \in Alive /\ SetPod(w, "gone")

SetPlace(w, what) == place' = [place EXCEPT ![w] = what] /\ UNCHANGED <<thief, pod>>

\* The donor stores its pod once, after the decision.
Store(w)  == thief[w] # Nobody /\ place[w] = "none" /\ SetPlace(w, "stored")

\* A user or a controller deletes it.
Withdraw(w) == place[w] = "stored" /\ SetPlace(w, "withdrawn")

\* The return of a result removes it: it was a placeholder, of a pod that is gone.
Remove(w) == place[w] = "stored" /\ pod[w] = "gone" /\ SetPlace(w, "removed")

LifeNext == \E w \in Workloads :
               \/ \E c \in Thieves \cup {Home} : Take(w, c)
               \/ Create(w) \/ Start(w) \/ Finish(w) \/ Delete(w)
               \/ Store(w) \/ Withdraw(w) \/ Remove(w)

LifeSpec == LifeInit /\ [][LifeNext]_lifeVars
==============================================================================
