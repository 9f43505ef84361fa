--------------------------- MODULE MCRagIndexing ---------------------------
(* Small instances of RagIndexing for TLC. *)
EXTENDS RagIndexing, TLC

\* Contracts and workers are interchangeable in every safety property.
Symmetry == Permutations(Contracts) \cup Permutations(Workers)
=============================================================================
