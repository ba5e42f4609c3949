------------------------------- MODULE MCSteal -------------------------------
(* Small instances of StealProtocol: two or three requests, two stealers.   *)
EXTENDS StealProtocol, TLC

CONSTANTS r1, r2, r3, s1, s2, d1, d2, p1, p2

\* Which donor and which pod name the two requests are about.
OneDonor   == [r \in Requests |-> d1]
TwoDonors  == (r1 :> d1 @@ r2 :> d2)
SameName   == [r \in Requests |-> p1]
TwoNames   == [r \in Requests |-> IF r = r1 THEN p1 ELSE p2]
Unordered  == [r \in Requests |-> {}]
Recreation == [r \in Requests |-> IF r = r2 THEN {r1} ELSE {}]

\* One budget per question.  Calm: nothing at all goes wrong.
Calm == [kind \in Kinds |-> 0]
Only(kinds)  == [kind \in Kinds |-> IF kind \in kinds THEN 1 ELSE 0]
FairWeather  == Only({"connect", "giveup", "crash", "donorcrash", "cleanup", "undo"})
Impatience   == Only({"slow", "crash"})
Redeliveries == Only({"slow"})
Faults       == Only({"fault"})
Crashes      == Only({"crash"})
Timeouts     == Only({"giveup"})
Trouble      == [Only({"fault", "crash"}) EXCEPT !["expire"] = 2]
Expiries     == [Calm EXCEPT !["expire"] = 2]
CrashExpire  == [Crashes EXCEPT !["expire"] = 2]
TwoCrashes   == [Calm EXCEPT !["crash"] = 2]
DonorCrashes == Only({"donorcrash"})
Undo         == Only({"undo"})
Quiet        == Only({"connect", "cleanup", "giveup"})
Stealing    == Permutations({s1, s2})
==============================================================================
