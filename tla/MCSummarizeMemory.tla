------------------------- MODULE MCSummarizeMemory -------------------------
(* Instances of SummarizeMemory with a threshold a few turns reach.        *)
EXTENDS SummarizeMemory, TLC
CONSTANTS t1, t2, t3, t4
FourTurns == {t1, t2, t3, t4}

\* Turns are interchangeable.
Symmetry == Permutations(Turns)
=============================================================================
