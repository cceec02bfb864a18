------------------------- MODULE MCDocumentTracker -------------------------
(* Instances of DocumentTracker: one upload and its document.              *)
EXTENDS DocumentTracker

CONSTANTS u1, k1

OneUpload == {u1}
SameKey == [u \in Uploads |-> k1]
=============================================================================
