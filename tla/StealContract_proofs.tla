------------------------- MODULE StealContract_proofs -------------------------
(***************************************************************************)
(* What an implementation of StealContract may rely on.                    *)
(***************************************************************************)
EXTENDS StealContract, TLAPS

\* Until a cluster is chosen nothing is started and nobody is answered.
UndecidedIsIdle == \A r \in Requests :
                      chosen[r] = Undecided => runs[r] = {} /\ answer[r] = Undecided

ContractInv == /\ chosen \in [Requests -> Clusters \cup {Undecided}]
               /\ DOMAIN runs = Requests /\ DOMAIN answer = Requests
               /\ runs = [r \in Requests |-> runs[r]]
               /\ answer = [r \in Requests |-> answer[r]]
               /\ UndecidedIsIdle
               /\ ExecutedOnce

LEMMA ContractInvStep == ContractInv /\ [ContractNext]_contractVars => ContractInv'
<1> SUFFICES ASSUME ContractInv, [ContractNext]_contractVars PROVE ContractInv'
  OBVIOUS
<1> USE DEF ContractInv, UndecidedIsIdle, ExecutedOnce
<1>1. ASSUME NEW r \in Requests, NEW c \in Clusters, Choose(r, c) PROVE ContractInv'
  BY <1>1 DEF Choose
<1>2. ASSUME NEW r \in Requests, NEW c \in Clusters, ChooseAndAnswer(r, c)
      PROVE  ContractInv'
  BY <1>2 DEF ChooseAndAnswer
<1>3. ASSUME NEW r \in Requests, Run(r) PROVE ContractInv'
  BY <1>3 DEF Run
<1>4. ASSUME NEW r \in Requests, Answer(r) PROVE ContractInv'
  BY <1>4 DEF Answer
<1>5. CASE UNCHANGED contractVars
  BY <1>5 DEF contractVars
<1> QED BY <1>1, <1>2, <1>3, <1>4, <1>5 DEF ContractNext

\* Under the contract no workload is executed by two clusters, and the answer
\* the webhook gives (the stealerUUID it puts on the placeholder) names the
\* cluster that executes it.
THEOREM ContractExecutesOnce == ContractSpec => []ExecutedOnce
<1>1. ContractInit => ContractInv
  BY DEF ContractInit, ContractInv, UndecidedIsIdle, ExecutedOnce
<1>2. ContractInv => ExecutedOnce
  BY DEF ContractInv
<1> QED BY <1>1, <1>2, ContractInvStep, PTL DEF ContractSpec
==============================================================================
