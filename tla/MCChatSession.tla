--------------------------- MODULE MCChatSession ---------------------------
(***************************************************************************)
(* Small instances of ChatSession: two or three requests, three questions  *)
(* of which neighbours are alike, one document.                            *)
(***************************************************************************)
EXTENDS ChatSession, TLC

CONSTANTS r1, r2, r3, q1, q2, q3, d1

TwoRequests == {r1, r2}
ThreeRequests == {r1, r2, r3}

\* q1 and q2 are alike and so are q2 and q3, but not q1 and q3.
Chain == {<<q1, q2>>, <<q2, q1>>, <<q2, q3>>, <<q3, q2>>}

Pair == {<<q1, q2>>, <<q2, q1>>}

\* Requests are interchangeable.
Symmetry == Permutations(Requests)
=============================================================================
