----------------------------- MODULE MCPlanSetup -----------------------------
(* Small instances of PlanSetup for TLC. *)
EXTENDS PlanSetup, TLC

\* Requests are interchangeable, and the seed's contracts are.
Symmetry == Permutations(Requests) \cup Permutations(Demos)
=============================================================================
