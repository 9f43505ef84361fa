---------------------------- MODULE ContractStore ----------------------------
(***************************************************************************)
(* What the requests on a document's contract promise: each takes effect   *)
(* as one step, and what it changes it changes together.  ContractRequests *)
(* has the transactions and the row locks that are to achieve this; the    *)
(* modules RagIndexing and DocumentLifecycle rely on it.                   *)
(*                                                                         *)
(* A confirmation or an edit is a number.  It replaces the payments, whose *)
(* ids are new with it, and creates one index job, whose id it gives.      *)
(***************************************************************************)
EXTENDS Integers, FiniteSets

CONSTANTS None, Lines, Statuses

VARIABLES
  contract,  \* the contract row: its id and its last edit, or None
  payments,  \* the rows of the edit that made them: line -> status
  jobs,      \* index jobs: their edit and their version of the contract
  chunks,    \* edits of which chunks are stored
  document,  \* whether the document is open to a confirmation, or confirmed
  edits      \* how many edits there have been

store == <<contract, payments, jobs, chunks, document, edits>>

Payments(e, status) == [edit |-> e, status |-> status]
NoPayments == Payments(0, [l \in Lines |-> None])
Job(e, v) == [edit |-> e, version |-> v]

Is(id) == contract # None /\ contract.id = id

Init ==
  /\ contract = None /\ payments = NoPayments /\ jobs = {} /\ chunks = {}
  /\ document = "open"
  /\ edits = 0

Confirm ==
  /\ document = "open"
  /\ edits' = edits + 1
  /\ document' = "confirmed"
  /\ contract' = [id |-> edits', edit |-> edits']
  /\ jobs' = {Job(edits', 1)}
  /\ \E s \in [Lines -> Statuses] : payments' = Payments(edits', s)
  /\ UNCHANGED chunks

\* The jobs of a contract number its edits.
Put(id) ==
  /\ Is(id)
  /\ edits' = edits + 1
  /\ contract' = [id |-> id, edit |-> edits']
  /\ jobs' = jobs \cup {Job(edits', Cardinality(jobs) + 1)}
  /\ \E s \in [Lines -> Statuses] : payments' = Payments(edits', s)
  /\ UNCHANGED <<chunks, document>>

\* A status is changed only in the payment the request means.
Patch(id, e) ==
  /\ Is(id) /\ payments.edit = e
  /\ \E l \in Lines, s \in Statuses :
        payments' = Payments(e, [payments.status EXCEPT ![l] = s])
  /\ UNCHANGED <<contract, jobs, chunks, document, edits>>

\* Nothing of a contract stays.
Delete(id) ==
  /\ Is(id)
  /\ contract' = None /\ payments' = NoPayments /\ jobs' = {} /\ chunks' = {}
  /\ document' = "open"
  /\ UNCHANGED edits

\* Chunks are stored only for a job that is still there.
Index(e) ==
  /\ \E j \in jobs : j.edit = e
  /\ chunks' = chunks \cup {e}
  /\ UNCHANGED <<contract, payments, jobs, document, edits>>

Next == \/ Confirm
        \/ \E id \in 1..edits : Put(id) \/ Delete(id) \/ Index(id)
        \/ \E id \in 1..edits : \E e \in id..edits : Patch(id, e)

Spec == Init /\ [][Next]_store
=============================================================================
