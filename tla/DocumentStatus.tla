-------------------------- MODULE DocumentStatus ---------------------------
(***************************************************************************)
(* What a document promises its user: the transition table of              *)
(* app/domains/documents/transitions.py, with the contract that confirming *)
(* creates, and deletion of the contract as the exact undo of confirming   *)
(* (docs/03_USER_FLOW.md:54).  It knows nothing of background tasks,       *)
(* commits or extraction columns.                                          *)
(***************************************************************************)
CONSTANT Documents
VARIABLES
  status,  \* document -> its analysis_status
  from     \* document -> the status its contract was confirmed from

svars == <<status, from>>

Init == /\ status = [d \in Documents |-> "ABSENT"]
        /\ from = [d \in Documents |-> "NONE"]

Becomes(d, new) == status' = [status EXCEPT ![d] = new] /\ UNCHANGED from

Upload(d)  == status[d] = "ABSENT" /\ Becomes(d, "UPLOADED")
Analyze(d) == status[d] \in {"UPLOADED", "FAILED"} /\ Becomes(d, "PROCESSING")
Succeed(d) == status[d] = "PROCESSING" /\ Becomes(d, "REVIEW_REQUIRED")
Fail(d)    == status[d] = "PROCESSING" /\ Becomes(d, "FAILED")

Confirm(d) ==
  /\ status[d] \in {"REVIEW_REQUIRED", "FAILED"}
  /\ from[d] = "NONE"
  /\ status' = [status EXCEPT ![d] = "CONFIRMED"]
  /\ from' = [from EXCEPT ![d] = status[d]]

DeleteContract(d) ==
  /\ status[d] = "CONFIRMED"
  /\ status' = [status EXCEPT ![d] = from[d]]
  /\ from' = [from EXCEPT ![d] = "NONE"]

Next == \E d \in Documents :
  Upload(d) \/ Analyze(d) \/ Succeed(d) \/ Fail(d) \/ Confirm(d) \/ DeleteContract(d)

Spec == Init /\ [][Next]_svars
=============================================================================
