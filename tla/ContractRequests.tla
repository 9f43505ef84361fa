--------------------------- MODULE ContractRequests ---------------------------
(***************************************************************************)
(* The requests on the contract of one document (domains/contracts) and    *)
(* the worker's last transaction (domains/rag, _complete_job), as the      *)
(* transactions of PostgreSQL they are: which rows each locks, in which    *)
(* order, what it reads when, and the pages that send them, which know a   *)
(* contract only from the last answer they got.                            *)
(*                                                                         *)
(* A row is locked FOR UPDATE, or shared: the foreign keys of the rows     *)
(* a worker inserts take FOR KEY SHARE on the contract and its document,   *)
(* in the order of the constraints.  Other modules have the claim of a job *)
(* (RagIndexing), the states of the document (DocumentLifecycle) and the   *)
(* versions a search finds.  Left out: a plan, members, amounts and terms  *)
(* (read and replaced like the payments); one statement takes its locks at *)
(* once, since all scan a contract's rows in one order.                    *)
(***************************************************************************)
EXTENDS Integers, FiniteSets, Sequences

CONSTANTS
  None,
  Pages,       \* browser pages, each with one request at a time
  Workers,     \* threads that complete index jobs
  Lines,       \* the payments of a contract
  Statuses,    \* statuses of a payment
  MaxEdits     \* a bound for TLC

ASSUME RequestsAssumption ==
  /\ Pages \cap Workers = {}
  /\ None \notin Statuses
  /\ None \notin [id: Nat, edit: Nat]
  /\ None \notin [id: Nat, edit: Nat,
                   payments: [edit: Nat, status: [Lines -> Statuses \cup {None}]]]
  /\ MaxEdits \in Nat

VARIABLES
  contract, payments, jobs, chunks, document, edits,  \* as in ContractStore
  locks,     \* row locks that transactions hold
  tx,        \* the transaction of a page's request or of a worker
  shown      \* page -> the detail of a contract it has, or None

Store == INSTANCE ContractStore

store == <<contract, payments, jobs, chunks, document, edits>>
vars == <<contract, payments, jobs, chunks, document, edits, locks, tx, shown>>

Procs == Pages \cup Workers

\* step: how many statements have been executed; about: the contract meant,
\* or the job of a worker; of, line, status: the payment meant and its new
\* status; payload: the statuses of an edit; then what has been read.
Idle == [op |-> "idle", step |-> 0, about |-> 0, of |-> 0, line |-> None,
         status |-> None, payload |-> Store!NoPayments.status,
         contract |-> None, payments |-> Store!NoPayments, version |-> 0]

Init ==
  /\ Store!Init
  /\ locks = {}
  /\ tx = [p \in Procs |-> Idle]
  /\ shown = [p \in Pages |-> None]

----------------------------------------------------------------------------
(* Statements and the rows they lock *)

\* Mutant definitions are slips this code could have had; no behaviour uses
\* them, each stands for the definition below it to show a property notices.
Mutant_DocumentFirst ==
  [read     |-> <<"contract", "payments">>,
   confirm  |-> <<"document">>,
   put      |-> <<"document", "contract", "payments", "version">>,
   patch    |-> <<"contract", "payments">>,
   delete   |-> <<"contract", "payments", "document", "chunks", "jobs">>,
   complete |-> <<"job", "chunks", "contract", "document">>]

Mutant_PaymentsFirst ==
  [read     |-> <<"payments", "contract">>,
   confirm  |-> <<"document">>,
   put      |-> <<"contract", "payments", "document", "version">>,
   patch    |-> <<"contract", "payments">>,
   delete   |-> <<"contract", "payments", "document", "chunks", "jobs">>,
   complete |-> <<"job", "chunks", "contract", "document">>]

\* What a request reads or changes before it commits, by table; version is
\* next_version, and a worker meets contract and document as foreign keys.
Statements ==
  [read     |-> <<"contract", "payments">>,
   confirm  |-> <<"document">>,
   put      |-> <<"contract", "payments", "document", "version">>,
   patch    |-> <<"contract", "payments">>,
   delete   |-> <<"contract", "payments", "document", "chunks", "jobs">>,
   complete |-> <<"job", "chunks", "contract", "document">>]

Active(p) == tx[p].op # "idle"
AtStatement(p) == Active(p) /\ tx[p].step < Len(Statements[tx[p].op])
AtCommit(p) == Active(p) /\ tx[p].step = Len(Statements[tx[p].op])
Table(p) == Statements[tx[p].op][tx[p].step + 1]

Row(table, key) == [table |-> table, key |-> key]

\* The rows the statement p is at finds.
Rows(p) ==
  CASE Table(p) = "contract" ->
         IF contract # None /\ (contract.id = tx[p].about \/ p \in Workers)
         THEN {Row("contract", contract.id)} ELSE {}
    [] Table(p) = "document" -> {Row("document", 0)}
    [] Table(p) = "chunks"   -> {Row("chunks", e) : e \in chunks}
    [] Table(p) = "jobs"     -> {Row("job", j.edit) : j \in jobs}
    [] Table(p) = "job"      -> {Row("job", j.edit) : j \in {k \in jobs : k.edit = tx[p].about}}
    [] OTHER                 -> {}

\* The locks it takes: a reader none, a foreign key a shared one.
Mutant_SharedContract(p) ==
  {[by |-> p, row |-> r, share |-> p \in Workers \/ r.table = "contract"] :
     r \in IF tx[p].op = "read" THEN {} ELSE Rows(p)}

Wanted(p) ==
  {[by |-> p, row |-> r, share |-> p \in Workers /\ r.table \in {"contract", "document"}] :
     r \in IF tx[p].op = "read" THEN {} ELSE Rows(p)}

\* What stands in the way of the statement p is at.
Conflict(k, l) == k.row = l.row /\ k.by # l.by /\ ~(k.share /\ l.share)

Blockers(p) ==
  IF AtStatement(p)
  THEN {l.by : l \in {m \in locks : \E k \in Wanted(p) : Conflict(k, m)}} ELSE {}

----------------------------------------------------------------------------
(* Requests begin *)

Begin(p, request) ==
  /\ tx[p] = Idle
  /\ tx' = [tx EXCEPT ![p] = request]
  /\ UNCHANGED <<store, locks, shown>>

Open(p) == \E id \in 1..edits : Begin(p, [Idle EXCEPT !.op = "read", !.about = id])

\* MaxEdits bounds the edits that are done or under way.
MayEdit == edits + Cardinality({p \in Pages : tx[p].op \in {"confirm", "put"}}) < MaxEdits

\* The review page confirms what its user typed.
Confirm(p) ==
  /\ MayEdit
  /\ \E s \in [Lines -> Statuses] :
       Begin(p, [Idle EXCEPT !.op = "confirm", !.payload = s])

\* The edit page sends back every payment with the status it was shown.
Edit(p) ==
  /\ MayEdit
  /\ shown[p] # None /\ shown[p].payments # Store!NoPayments
  /\ Begin(p, [Idle EXCEPT !.op = "put", !.about = shown[p].id,
                          !.payload = shown[p].payments.status])

ChangeStatus(p) ==
  /\ shown[p] # None /\ shown[p].payments # Store!NoPayments
  /\ \E l \in Lines, s \in Statuses :
        Begin(p, [Idle EXCEPT !.op = "patch", !.about = shown[p].id,
                              !.of = shown[p].payments.edit, !.line = l, !.status = s])

Remove(p) ==
  shown[p] # None /\ Begin(p, [Idle EXCEPT !.op = "delete", !.about = shown[p].id])

\* A worker has embedded the chunks of a job it claimed.
Complete(w) ==
  \E j \in jobs : j.edit \notin chunks /\ Begin(w, [Idle EXCEPT !.op = "complete", !.about = j.edit])

----------------------------------------------------------------------------
(* Requests run *)

Mutant_KeepLocks(p) == locks

Free(p) == {l \in locks : l.by # p}

\* Rolled back, or refused: 404, 409, 500.
End(p) ==
  /\ tx' = [tx EXCEPT ![p] = Idle]
  /\ locks' = Free(p)
  /\ UNCHANGED <<store, shown>>

\* What was looked for is not there, or not in the state it has to be in.
Refused(p) ==
  CASE Table(p) \in {"contract", "job"} -> Rows(p) = {}
    [] Table(p) = "document" -> tx[p].op = "confirm" /\ document # "open"
    [] Table(p) = "payments" ->
         tx[p].op = "patch" /\ ~(Store!Is(tx[p].about) /\ payments.edit = tx[p].of)
    [] OTHER -> FALSE

NextVersion == 1 + CHOOSE v \in {0} \cup {j.version : j \in jobs} :
                     \A j \in jobs : j.version <= v

Found(p) ==
  [tx[p] EXCEPT !.step = @ + 1,
     !.contract = IF Table(p) = "contract" THEN contract ELSE @,
     !.payments = IF Table(p) = "payments" /\ Store!Is(tx[p].about) THEN payments ELSE @,
     !.version  = IF Table(p) = "version" THEN NextVersion ELSE @]

\* One statement, when no other transaction holds what it locks.
Execute(p) ==
  /\ AtStatement(p)
  /\ Blockers(p) = {}
  /\ \/ Refused(p) /\ End(p)
     \/ /\ ~Refused(p)
        /\ tx' = [tx EXCEPT ![p] = Found(p)]
        /\ locks' = locks \cup Wanted(p)
        /\ UNCHANGED <<store, shown>>

\* A constraint the commit would violate, or rows it read and finds gone:
\* UNIQUE(document_id), a version that has a job, the foreign keys of chunks,
\* the rows an UPDATE or DELETE of the session must match.
Collides(p) ==
  CASE tx[p].op = "confirm" -> contract # None
    [] tx[p].op = "put"     -> \/ contract # tx[p].contract
                               \/ payments.edit # tx[p].payments.edit
                               \/ \E j \in jobs : j.version = tx[p].version
    [] tx[p].op = "patch"   -> payments.edit # tx[p].of
    [] tx[p].op = "delete"  -> contract # tx[p].contract
    [] tx[p].op = "complete" -> contract = None \/ ~\E j \in jobs : j.edit = tx[p].about
    [] OTHER -> FALSE

Detail(c, rows) == [id |-> c.id, edit |-> c.edit, payments |-> rows]

Finish(p, page) ==
  /\ tx' = [tx EXCEPT ![p] = Idle]
  /\ locks' = Free(p)
  /\ shown' = IF p \in Pages THEN [shown EXCEPT ![p] = page] ELSE shown

CommitRead(p) ==
  /\ tx[p].op = "read"
  /\ Finish(p, Detail(tx[p].contract, tx[p].payments))
  /\ UNCHANGED store

CommitConfirm(p) ==
  /\ tx[p].op = "confirm"
  /\ edits' = edits + 1
  /\ contract' = [id |-> edits', edit |-> edits']
  /\ payments' = Store!Payments(edits', tx[p].payload)
  /\ jobs' = {Store!Job(edits', 1)}
  /\ document' = "confirmed"
  /\ Finish(p, Detail(contract', payments'))
  /\ UNCHANGED chunks

CommitPut(p) ==
  /\ tx[p].op = "put"
  /\ edits' = edits + 1
  /\ contract' = [tx[p].contract EXCEPT !.edit = edits']
  /\ payments' = Store!Payments(edits', tx[p].payload)
  /\ jobs' = jobs \cup {Store!Job(edits', tx[p].version)}
  /\ Finish(p, Detail(contract', payments'))
  /\ UNCHANGED <<chunks, document>>

CommitPatch(p) ==
  /\ tx[p].op = "patch"
  /\ payments' = [payments EXCEPT !.status[tx[p].line] = tx[p].status]
  /\ Finish(p, Detail(tx[p].contract,
                      [tx[p].payments EXCEPT !.status[tx[p].line] = tx[p].status]))
  /\ UNCHANGED <<contract, jobs, chunks, document, edits>>

Mutant_DeleteLeavesJobs(p) ==
  /\ tx[p].op = "delete"
  /\ contract' = None /\ payments' = Store!NoPayments /\ chunks' = {}
  /\ document' = "open"
  /\ Finish(p, None)
  /\ UNCHANGED <<edits, jobs>>

\* The foreign keys delete jobs and chunks with the contract.
CommitDelete(p) ==
  /\ tx[p].op = "delete"
  /\ contract' = None /\ payments' = Store!NoPayments /\ jobs' = {} /\ chunks' = {}
  /\ document' = "open"
  /\ Finish(p, None)
  /\ UNCHANGED edits

CommitComplete(w) ==
  /\ tx[w].op = "complete"
  /\ chunks' = chunks \cup {tx[w].about}
  /\ Finish(w, None)
  /\ UNCHANGED <<contract, payments, jobs, document, edits>>

Commit(p) ==
  /\ AtCommit(p) /\ ~Collides(p)
  /\ \/ CommitRead(p) \/ CommitConfirm(p) \/ CommitPut(p)
     \/ CommitPatch(p) \/ CommitDelete(p) \/ CommitComplete(p)

\* Any request may fail before it commits, or when its commit is refused.
Fail(p) == Active(p) /\ End(p)

\* PostgreSQL finds a circle of waiting transactions and rolls one back.
Waiting == {p \in Procs : Blockers(p) # {}}
Circle(S) == S # {} /\ \A p \in S : Blockers(p) \cap S # {}

Victim(p) ==
  /\ p \in Waiting
  /\ \E S \in SUBSET Waiting :
       /\ p \in S /\ Circle(S)
       /\ \A T \in SUBSET S : Circle(T) => T = S
  /\ End(p)

Request(p) == Open(p) \/ Confirm(p) \/ Edit(p) \/ ChangeStatus(p) \/ Remove(p)

Run(p) == Execute(p) \/ Commit(p)

Next ==
  \/ \E p \in Pages : Request(p)
  \/ \E w \in Workers : Complete(w)
  \/ \E p \in Procs : Run(p) \/ Fail(p) \/ Victim(p)

\* Waiters of a row are served in turn, and a circle is always found.
Fairness ==
  /\ \A p \in Procs : SF_vars(Run(p))
  /\ WF_vars(\E p \in Procs : Victim(p))

Spec == Init /\ [][Next]_vars /\ Fairness

----------------------------------------------------------------------------
(* Properties *)

ContractRows == [id: 1..edits, edit: 1..edits]
PaymentRows == [edit: 1..edits, status: [Lines -> Statuses]] \cup {Store!NoPayments}
Details == [id: 1..edits, edit: 1..edits, payments: PaymentRows]

Ops == {"idle"} \cup DOMAIN Statements
Tables == {"contract", "document", "chunks", "job"}
Locks == [by: Procs, row: [table: Tables, key: 0..edits], share: BOOLEAN]
Txs == [op: Ops, step: 0..5, about: 0..edits, of: 0..edits,
        line: Lines \cup {None}, status: Statuses \cup {None},
        payload: [Lines -> Statuses \cup {None}],
        contract: ContractRows \cup {None}, payments: PaymentRows, version: Nat]

TypeOK ==
  /\ edits \in Nat
  /\ contract \in ContractRows \cup {None}
  /\ payments \in PaymentRows
  /\ jobs \subseteq [edit: 1..edits, version: 1..edits]
  /\ chunks \subseteq 1..edits
  /\ document \in {"open", "confirmed"}
  /\ shown \in [Pages -> Details \cup {None}]
  /\ locks \subseteq Locks
  /\ tx \in [Procs -> Txs]

\* The rows of a contract come and go with it, and its jobs number its edits.
RowsTogether ==
  IF contract = None
  THEN payments = Store!NoPayments /\ jobs = {} /\ chunks = {} /\ document = "open"
  ELSE /\ payments.edit = contract.edit /\ contract.id <= contract.edit
       /\ document = "confirmed"

JobsNumbered ==
  /\ IsFiniteSet(jobs) /\ Cardinality(jobs) <= edits
  /\ {j.version : j \in jobs} = 1..Cardinality(jobs)

\* p has executed its statement on the table.
Past(p, table) == Active(p) /\ \E i \in 1..tx[p].step : Statements[tx[p].op][i] = table

Running(p) ==
  /\ tx[p].op = "idle" => tx[p] = Idle
  /\ Active(p) => tx[p].step <= Len(Statements[tx[p].op])
  /\ p \in Pages => tx[p].op # "complete"
  /\ p \in Workers => tx[p].op \in {"idle", "complete"}
  /\ tx[p].op \in {"confirm", "put"} => tx[p].payload \in [Lines -> Statuses]
  /\ tx[p].op = "patch" => tx[p].line \in Lines /\ tx[p].status \in Statuses

\* Row locks are held by running transactions only, for rows that are there
\* and that they have come to, and never in conflict.
LockTable ==
  /\ \A k, l \in locks : ~Conflict(k, l)
  /\ \A l \in locks :
       /\ Active(l.by) /\ tx[l.by].op # "read"
       /\ l.share <=> l.by \in Workers /\ l.row.table \in {"contract", "document"}
       /\ Past(l.by, l.row.table) \/ (l.row.table = "job" /\ Past(l.by, "jobs"))
       /\ l.row.table = "contract" => Store!Is(l.row.key)
       /\ l.row.table = "document" => l.row.key = 0

Holds(p, table, key) == \E l \in locks : l.by = p /\ l.row = Row(table, key)

\* What a transaction that is to write has found is there until it commits.
FoundHolds(p) ==
  /\ Past(p, "contract") =>
       /\ contract # None /\ Holds(p, "contract", contract.id)
       /\ p \in Pages => tx[p].about = contract.id /\ tx[p].contract = contract
  /\ tx[p].op \in {"put", "patch"} /\ Past(p, "payments") => tx[p].payments = payments
  /\ tx[p].op = "patch" /\ Past(p, "payments") => payments.edit = tx[p].of
  /\ tx[p].op = "confirm" /\ Past(p, "document") =>
       document = "open" /\ Holds(p, "document", 0)
  /\ Past(p, "version") => tx[p].version = Cardinality(jobs) + 1
  /\ Past(p, "jobs") => \A j \in jobs : Holds(p, "job", j.edit)
  /\ Past(p, "job") =>
       Holds(p, "job", tx[p].about) /\ \E j \in jobs : j.edit = tx[p].about

\* What a detail is read from may change, to newer rows only.
ReadHolds(p) ==
  /\ Past(p, "contract") =>
       /\ tx[p].contract # None /\ tx[p].contract.id = tx[p].about
       /\ Store!Is(tx[p].about) => tx[p].contract.edit <= contract.edit
  /\ IF Past(p, "payments")
     THEN tx[p].payments.edit \in {0} \cup (tx[p].contract.edit .. edits)
     ELSE tx[p].payments = Store!NoPayments

\* Type invariant, and: the rows of a contract come and go together, its jobs
\* number its edits, row locks are never in conflict, and what a transaction
\* that is to write has found is what is there until it ends (the order of
\* the statements in domains/contracts/service.py and the locks they take).
ContractInv ==
  /\ TypeOK
  /\ RowsTogether
  /\ JobsNumbered
  /\ LockTable
  /\ \A p \in Procs :
       /\ Running(p)
       /\ IF tx[p].op = "read" THEN ReadHolds(p) ELSE FoundHolds(p)

\* The row locks are enough: what a request has read is what is there when
\* it commits, so no constraint and no lost row ever fails a commit.
NoCollision == \A p \in Procs : AtCommit(p) => ~Collides(p)

\* Every request takes effect as one step of ContractStore.
Atomic == Store!Spec

\* Edits, status changes and confirmations never deadlock, alone or with
\* workers; a deletion may, with a worker that completes.
DeadlockShape ==
  \A S \in SUBSET Waiting :
    Circle(S) => \E p, q \in S : tx[p].op = "delete" /\ tx[q].op = "complete"

\* A detail is read in several statements with no lock.  Its payments may be
\* newer than its contract, or gone with it, never older.
ReadsForward ==
  \A p \in Pages :
    shown[p] # None => shown[p].payments.edit \in {0} \cup (shown[p].edit .. edits)

\* Every request is answered.
RequestsEnd == \A p \in Procs : Active(p) ~> ~Active(p)
=============================================================================
