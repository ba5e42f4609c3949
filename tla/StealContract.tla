---------------------------- MODULE StealContract ----------------------------
(***************************************************************************)
(* What work stealing promises about one workload, whatever the protocol:  *)
(* one cluster is chosen for it, once, and only that cluster ever executes *)
(* it; what the donor is told about its thief is the truth.  StealProtocol *)
(* implements this contract, whatever crashes or is deleted, as long as no *)
(* call fails, no wait expires and no held copy is redelivered.            *)
(***************************************************************************)
CONSTANTS Requests,   \* the workloads, one per admission request
          Clusters,   \* where a workload may execute
          Undecided   \* no cluster has been chosen yet

VARIABLES chosen,     \* the cluster chosen for each workload, or Undecided
          runs,       \* the clusters in which each workload was started
          answer      \* the cluster each request was answered with, or Undecided

contractVars == <<chosen, runs, answer>>

ContractInit == /\ chosen = [r \in Requests |-> Undecided]
                /\ runs   = [r \in Requests |-> {}]
                /\ answer = [r \in Requests |-> Undecided]

\* The choice is made once.
Choose(r, c) == /\ chosen[r] = Undecided
                /\ chosen' = [chosen EXCEPT ![r] = c]
                /\ UNCHANGED <<runs, answer>>

\* Only the chosen cluster starts the workload.
Run(r) == /\ chosen[r] # Undecided
          /\ runs' = [runs EXCEPT ![r] = @ \cup {chosen[r]}]
          /\ UNCHANGED <<chosen, answer>>

\* The request is answered with the cluster that was chosen.
Answer(r) == /\ chosen[r] # Undecided
             /\ answer[r] = Undecided
             /\ answer' = [answer EXCEPT ![r] = chosen[r]]
             /\ UNCHANGED <<chosen, runs>>

\* A request the donor never offers is decided and answered in one step.
ChooseAndAnswer(r, c) == /\ chosen[r] = Undecided
                         /\ chosen' = [chosen EXCEPT ![r] = c]
                         /\ answer' = [answer EXCEPT ![r] = c]
                         /\ UNCHANGED runs

ContractNext == \E r \in Requests :
                   \/ \E c \in Clusters : Choose(r, c) \/ ChooseAndAnswer(r, c)
                   \/ Run(r)
                   \/ Answer(r)

ContractSpec == ContractInit /\ [][ContractNext]_contractVars

\* The point of the contract: no workload is executed by two clusters, and
\* the answer given to the donor names the cluster that executes it.
ExecutedOnce == \A r \in Requests :
                   /\ runs[r] \subseteq {chosen[r]}
                   /\ answer[r] \in {Undecided, chosen[r]}
==============================================================================
