--------------------------- MODULE MCUploadQueue ---------------------------
(* A small instance of the upload queue: a and b have the same content-addressed *)
(* path, c is larger than all inline permits and does not look at the budget.    *)
EXTENDS UploadQueue

CONSTANTS a, b, c, p, q

Kinds == [f \in Files |-> CASE f = a -> "bytes" [] f = b -> "enqueue" [] f = c -> "blocking"]
Paths == [f \in Files |-> IF f = c THEN p ELSE q]
Sizes == [f \in Files |-> IF f = c THEN 3 ELSE 1]

\* Two callers of one path, or one whose artifact is uploaded inline at any size.
Contended == {{a, b}, {c}}

\* Every artifact in every behaviour.
Both == {Files}
=============================================================================
