--------------------------- MODULE MCRequestGate ---------------------------
(* Instances of RequestGate with more requests than a window admits.       *)
EXTENDS RequestGate, TLC
CONSTANTS r1, r2, r3, r4, r5
FiveRequests == {r1, r2, r3, r4, r5}

\* Requests are interchangeable.
Symmetry == Permutations(Requests)
=============================================================================
