--------------------------- MODULE LabelMaps_proofs ---------------------------
(***************************************************************************)
(* What the map helpers of pkg/core/common/common.go compute, for maps of  *)
(* any keys and values.                                                    *)
(***************************************************************************)
EXTENDS LabelMaps, FiniteSetTheorems, TLAPS

\* AreMapsEqual compares the values of the keys of one map only.  It decides
\* equality all the same, but for a value that is the empty string: a missing
\* key looks like one.
THEOREM AreMapsEqualDecides ==
  ASSUME NEW D1, IsFiniteSet(D1), NEW D2, IsFiniteSet(D2),
         NEW V, NEW map1 \in [D1 -> V], NEW map2 \in [D2 -> V],
         NoValue \notin V
  PROVE  AreMapsEqual(map1, map2) <=> map1 = map2
<1>1. ASSUME AreMapsEqual(map1, map2) PROVE map1 = map2
  <2>1. D1 \subseteq D2
    <3> SUFFICES ASSUME NEW key \in D1, key \notin D2 PROVE FALSE
      OBVIOUS
    <3>1. Lookup(map2, key) = map1[key]
      BY <1>1 DEF AreMapsEqual
    <3>2. Lookup(map2, key) = NoValue
      BY DEF Lookup
    <3> QED BY <3>1, <3>2
  <2>2. Cardinality(D1) = Cardinality(D2)
    BY <1>1 DEF AreMapsEqual
  <2>3. D1 = D2
    BY <2>1, <2>2, FS_Subset
  <2>4. \A key \in D1 : map1[key] = map2[key]
    BY <1>1, <2>3 DEF AreMapsEqual, Lookup
  <2> QED BY <2>3, <2>4
<1>2. ASSUME map1 = map2 PROVE AreMapsEqual(map1, map2)
  BY <1>2 DEF AreMapsEqual, Lookup
<1> QED BY <1>1, <1>2

\* StealResource compares the labels of an offer with those of the pod it finds
\* under the name.  Whatever that pod was stolen from (any labels before, any
\* donor, any stealer), it does not pass for "already stolen", unless the
\* offered pod's own labels say that it is stolen: without that, the second
\* steal of a name always ends with an error.
THEOREM StolenLabelsDiffer ==
  ASSUME NEW own, NEW donor, NEW service, Lookup(own, "is-pod-stolen") # "true",
         NEW before, NEW other, NEW stealer
  PROVE  ~AreMapsEqual(FetchStolenLabelsMap(before, other, stealer),
                       OfferedLabels(own, donor, service))
<1> DEFINE found   == FetchStolenLabelsMap(before, other, stealer)
           offered == OfferedLabels(own, donor, service)
<1>1. "is-pod-stolen" \in DOMAIN found /\ found["is-pod-stolen"] = "true"
  BY DEF FetchStolenLabelsMap, MergeMaps, StolenPodLablesMap
<1>2. Lookup(offered, "is-pod-stolen") = Lookup(own, "is-pod-stolen")
  BY DEF OfferedLabels, MergeMaps, Lookup
<1> QED BY <1>1, <1>2 DEF AreMapsEqual

\* The stolen labels have the last word, whatever the pod's own said: what the
\* results consumer compares is the steal's.
THEOREM StolenLabelsWin ==
  ASSUME NEW offered, NEW stolen, NEW key \in DOMAIN stolen
  PROVE  Lookup(MergeMaps(offered, stolen), key) = stolen[key]
BY DEF Lookup, MergeMaps

\* ServiceAssocitedWithResource finds every Service that really selects the
\* pod: no proxy Service is made beside one, even where the pod is a placeholder
\* that such a Service does not lead to.  The converse is false.
THEOREM SelectedIsAssociated ==
  ASSUME NEW selectors, NEW sel \in selectors, NEW labels, Selects(sel, labels)
  PROVE  ServiceAssociated(selectors, labels)
BY DEF Selects, ServiceAssociated, Lookup
==============================================================================
