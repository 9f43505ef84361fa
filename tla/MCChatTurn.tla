----------------------------- MODULE MCChatTurn -----------------------------
(* Small instances of ChatTurn for TLC. *)
EXTENDS ChatTurn, TLC

\* Turns are interchangeable in every property.
Symmetry == Permutations(Turns)
=============================================================================
