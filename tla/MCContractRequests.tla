------------------------- MODULE MCContractRequests -------------------------
(* Small instances of ContractRequests for TLC. *)
EXTENDS ContractRequests, TLC

\* Pages are interchangeable, and workers are, in every safety property.
Symmetry == Permutations(Pages) \cup Permutations(Workers)
=============================================================================
