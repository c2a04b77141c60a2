------------------------------- MODULE MCBlobs -------------------------------
(* Blobs for TLC: uploads of the same bytes, which is where rows and files   *)
(* can cross.                                                                *)
EXTENDS Blobs, TLC

CONSTANT x   \* the blob

\* Every upload is of the one blob.
SameBytes == [u \in Uploads |-> x]

\* Writes are alike when all of their callers may hang up or none, and so are
\* uploads of the same bytes.
Alike == Permutations(Writes) \cup Permutations(Uploads)
=============================================================================
