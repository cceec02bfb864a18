------------------------- MODULE MCDocumentPipeline -------------------------
(***************************************************************************)
(* Small instances of DocumentPipeline: one upload, or two that compete    *)
(* for one key.                                                            *)
(***************************************************************************)
EXTENDS DocumentPipeline

CONSTANTS u1, u2, k1

OneUpload == {u1}
TwoUploads == {u1, u2}

\* Both requests upload the same file in the same session.
SameKey == [u \in Uploads |-> k1]
=============================================================================
