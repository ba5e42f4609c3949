------------------------------ MODULE LabelMaps ------------------------------
(***************************************************************************)
(* The maps of labels that donor and stealer compute with                  *)
(* (pkg/core/common/common.go and their users).  A Go map[string]string is *)
(* a function on the set of its keys.                                      *)
(***************************************************************************)
EXTENDS FiniteSets

\* The zero value of string, which a Go map returns for a key it lacks.
NoValue == ""

Lookup(map, key) == IF key \in DOMAIN map THEN map[key] ELSE NoValue

MergeMaps(map1, map2) ==
  [key \in DOMAIN map1 \cup DOMAIN map2 |->
     IF key \in DOMAIN map2 THEN map2[key] ELSE map1[key]]

AreMapsEqual(map1, map2) ==
  /\ Cardinality(DOMAIN map1) = Cardinality(DOMAIN map2)
  /\ \A key \in DOMAIN map1 : Lookup(map2, key) = map1[key]

\* What the stealer adds to the labels of a pod that it creates.
StolenPodLablesMap(donor, stealer) ==
  [key \in {"is-pod-stolen", "donorUUID", "stealerUUID"} |->
     CASE key = "is-pod-stolen" -> "true"
       [] key = "donorUUID"     -> donor
       [] key = "stealerUUID"   -> stealer]

FetchStolenLabelsMap(labels, donor, stealer) ==
  MergeMaps(labels, StolenPodLablesMap(donor, stealer))

\* The labels a pod is offered with: its own and the two InformAboutResource sets.
OfferedLabels(own, donor, service) ==
  MergeMaps(own, [key \in {"donorUUID", "serviceName"} |->
                    IF key = "donorUUID" THEN donor ELSE service])

\* ServiceAssocitedWithResource: a single pair of a single selector is enough.
ServiceAssociated(selectors, labels) ==
  \E sel \in selectors : \E key \in DOMAIN sel : Lookup(labels, key) = sel[key]

\* What a Service selects, as Kubernetes defines it: pods with all its pairs;
\* a Service without a selector selects none.
Selects(sel, labels) ==
  /\ DOMAIN sel # {}
  /\ \A key \in DOMAIN sel : key \in DOMAIN labels /\ labels[key] = sel[key]
==============================================================================
