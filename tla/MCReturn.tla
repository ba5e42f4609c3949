------------------------------- MODULE MCReturn -------------------------------
(* Small instances of ResultReturn: up to three steals, two stealers.      *)
EXTENDS ResultReturn, TLC

CONSTANTS x1, x2, x3, s1, s2, d1, d2, p1, p2

\* The same name in two donors, or twice in one with a third steal elsewhere.
TwoDonors == (x1 :> d1 @@ x2 :> d2)
OneDonor  == [x \in Steals |-> d1]
SameName  == [x \in Steals |-> p1]
ThirdElse == [x \in Steals |-> IF x = x3 THEN p2 ELSE p1]

Calm == [kind \in Kinds |-> 0]
Only(kind) == [Calm EXCEPT ![kind] = 1]
Once == [kind \in Kinds |-> IF kind = "again" THEN 0 ELSE 1]
Again   == Only("again")
Down    == Only("down")
Restart == Only("watchend")
Undo    == Only("undo")
Early   == Only("early")
Late    == Only("late")
Thieves == Permutations({s1, s2})
==============================================================================
