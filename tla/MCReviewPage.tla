----------------------------- MODULE MCReviewPage -----------------------------
(* A small instance of ReviewPage for TLC. *)
EXTENDS ReviewPage
=============================================================================
