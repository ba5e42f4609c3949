------------------------------ MODULE MCService ------------------------------
(* Small instances of ServiceAccess.                                        *)
EXTENDS MCSteal, ServiceAccess

\* Every pod has a name and a tier; OwnService selects the second one.
AppAndTier   == (r1 :> [app |-> "front", tier |-> "one"] @@
                 r2 :> [app |-> "back",  tier |-> "two"])
OwnService   == [d \in Donors |-> {[app |-> "back", tier |-> "two"]}]
\* A Service of another workload of the same tier.
OtherService == [d \in Donors |-> {[app |-> "other", tier |-> "one"]}]
\* A Service that has no pair in common with either pod.
Unrelated    == [d \in Donors |-> {[app |-> "other", tier |-> "three"]}]

Smoothly    == [kind \in MishapKinds |-> 0]
AnyMishap   == [kind \in MishapKinds |-> 1]
Late        == [Smoothly EXCEPT !["expire"] = 1]

Restless    == Only({"crash", "donorcrash", "undo"})
Deletions   == Only({"connect", "cleanup", "undo"})
==============================================================================
