--------------------------- MODULE MCChatClient ----------------------------
(* Instances of ChatClient: one tab that sends, retries and votes.         *)
EXTENDS ChatClient, TLC

CONSTANTS r1, r2, r3, q1, q2, d1

TwoRequests == {r1, r2}
ThreeRequests == {r1, r2, r3}

\* Requests that nothing tells apart are interchangeable, and so are
\* questions none of which are alike.
Symmetry == {p @@ s @@ q : p \in Permutations(Requests \ Fragile), s \in Permutations(Fragile),
                           q \in Permutations(Questions)}

\* A run that asks only of states that are not severed looks no further than
\* the first one that is: none that comes after it is not.
Together == ~severed
=============================================================================
