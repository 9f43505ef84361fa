------------------------ MODULE MCDocumentLifecycle ------------------------
(* Small instances of DocumentLifecycle for TLC. *)
EXTENDS DocumentLifecycle, TLC

\* Documents are interchangeable in every safety property.
Symmetry == Permutations(Documents)
=============================================================================
