----------------------------- MODULE MCRagRun ------------------------------
(* Instances of RagRun: two documents of two chunks each.                  *)
EXTENDS RagRun, TLC

CONSTANTS c1, c2, c3, c4, d1, d2

TwoOfTwo == c1 :> d1 @@ c2 :> d1 @@ c3 :> d2 @@ c4 :> d2

OneEach == c1 :> d1 @@ c2 :> d2 @@ c3 :> d2
=============================================================================
