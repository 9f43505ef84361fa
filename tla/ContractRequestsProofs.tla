------------------------ MODULE ContractRequestsProofs ------------------------
(***************************************************************************)
(* Proofs about ContractRequests, for any number of pages, workers,        *)
(* payments and edits.                                                     *)
(***************************************************************************)
EXTENDS ContractRequests, FiniteSetTheorems, TLAPS

(* Statements and locks *)

LEMMA Lengths ==
  /\ Ops = {"idle", "read", "confirm", "put", "patch", "delete", "complete"}
  /\ Statements["read"] = <<"contract", "payments">>
  /\ Statements["confirm"] = <<"document">>
  /\ Statements["put"] = <<"contract", "payments", "document", "version">>
  /\ Statements["patch"] = <<"contract", "payments">>
  /\ Statements["delete"] = <<"contract", "payments", "document", "chunks", "jobs">>
  /\ Statements["complete"] = <<"job", "chunks", "contract", "document">>
BY DEF Ops, Statements

LEMMA TableOf ==
  ASSUME NEW p, AtStatement(p), tx[p].op \in Ops, tx[p].step \in 0..5
  PROVE  LET op == tx[p].op  s == tx[p].step IN
         \/ op = "read"     /\ <<s, Table(p)>> \in {<<0, "contract">>, <<1, "payments">>}
         \/ op = "confirm"  /\ <<s, Table(p)>> \in {<<0, "document">>}
         \/ op = "put"      /\ <<s, Table(p)>> \in {<<0, "contract">>, <<1, "payments">>,
                                                    <<2, "document">>, <<3, "version">>}
         \/ op = "patch"    /\ <<s, Table(p)>> \in {<<0, "contract">>, <<1, "payments">>}
         \/ op = "delete"   /\ <<s, Table(p)>> \in {<<0, "contract">>, <<1, "payments">>,
                                                    <<2, "document">>, <<3, "chunks">>,
                                                    <<4, "jobs">>}
         \/ op = "complete" /\ <<s, Table(p)>> \in {<<0, "job">>, <<1, "chunks">>,
                                                    <<2, "contract">>, <<3, "document">>}
<1> DEFINE op == tx[p].op
           s == tx[p].step
<1>1. /\ op \in {"read", "confirm", "put", "patch", "delete", "complete"}
      /\ s \in Nat /\ s < Len(Statements[op])
      /\ Table(p) = Statements[op][s + 1]
  BY Lengths DEF AtStatement, Active, Table
<1> HIDE DEF op, s
<1>2. CASE op = "read"
  BY <1>1, <1>2, Lengths DEF op, s
<1>3. CASE op = "confirm"
  BY <1>1, <1>3, Lengths DEF op, s
<1>4. CASE op = "put"
  BY <1>1, <1>4, Lengths DEF op, s
<1>5. CASE op = "patch"
  BY <1>1, <1>5, Lengths DEF op, s
<1>6. CASE op = "delete"
  BY <1>1, <1>6, Lengths DEF op, s
<1>7. CASE op = "complete"
  BY <1>1, <1>7, Lengths DEF op, s
<1> QED
  BY <1>1, <1>2, <1>3, <1>4, <1>5, <1>6, <1>7

\* Which statements a transaction has behind it.
LEMMA PastOf ==
  ASSUME NEW p, tx[p].op \in Ops, tx[p].step \in 0..5,
         Active(p) => tx[p].step <= Len(Statements[tx[p].op])
  PROVE  LET op == tx[p].op  s == tx[p].step IN
         /\ Past(p, "contract") <=> \/ op \in {"read", "put", "patch", "delete"} /\ s >= 1
                                    \/ op = "complete" /\ s >= 3
         /\ Past(p, "payments") <=> op \in {"read", "put", "patch", "delete"} /\ s >= 2
         /\ Past(p, "document") <=> \/ op = "confirm" /\ s >= 1
                                    \/ op \in {"put", "delete"} /\ s >= 3
                                    \/ op = "complete" /\ s >= 4
         /\ Past(p, "version") <=> op = "put" /\ s >= 4
         /\ Past(p, "chunks") <=> \/ op = "delete" /\ s >= 4
                                  \/ op = "complete" /\ s >= 2
         /\ Past(p, "jobs") <=> op = "delete" /\ s >= 5
         /\ Past(p, "job") <=> op = "complete" /\ s >= 1
<1> DEFINE op == tx[p].op
           s == tx[p].step
<1>1. /\ op \in {"idle", "read", "confirm", "put", "patch", "delete", "complete"}
      /\ s \in 0..5
      /\ op # "idle" => s <= Len(Statements[op])
      /\ \A t : Past(p, t) <=> op # "idle" /\ \E i \in 1..s : Statements[op][i] = t
  BY Lengths DEF Active, Past
<1> HIDE DEF op, s
<1>2. CASE op = "read"
  BY <1>1, <1>2, Lengths DEF op, s
<1>3. CASE op = "confirm"
  BY <1>1, <1>3, Lengths DEF op, s
<1>4. CASE op = "put"
  BY <1>1, <1>4, Lengths DEF op, s
<1>5. CASE op = "patch"
  BY <1>1, <1>5, Lengths DEF op, s
<1>6. CASE op = "delete"
  BY <1>1, <1>6, Lengths DEF op, s
<1>7. CASE op = "complete"
  BY <1>1, <1>7, Lengths DEF op, s
<1>8. CASE op = "idle"
  BY <1>1, <1>8 DEF op, s
<1> QED
  BY <1>1, <1>2, <1>3, <1>4, <1>5, <1>6, <1>7, <1>8

ProcInv(p) == Running(p) /\ IF tx[p].op = "read" THEN ReadHolds(p) ELSE FoundHolds(p)

LEMMA ProcType ==
  ASSUME ContractInv, NEW p \in Procs
  PROVE  /\ tx[p] \in Txs /\ tx[p].op \in Ops /\ tx[p].step \in 0..5
         /\ Active(p) => tx[p].step <= Len(Statements[tx[p].op])
         /\ ProcInv(p)
<1>1. tx[p] \in Txs
  BY DEF ContractInv, TypeOK
<1>2. tx[p].op \in Ops /\ tx[p].step \in 0..5
  BY <1>1 DEF Txs
<1>3. ProcInv(p)
  BY DEF ContractInv, ProcInv
<1> QED
  BY <1>1, <1>2, <1>3 DEF ProcInv, Running

\* A row that one of two holds exclusively the other does not hold.
LEMMA Exclusive ==
  ASSUME ContractInv, NEW p \in Procs, NEW q \in Procs, NEW table, NEW key,
         Holds(p, table, key), Holds(q, table, key),
         p \in Pages \/ table \notin {"contract", "document"}
  PROVE  p = q
<1>1. PICK k \in locks : k.by = p /\ k.row = Row(table, key)
  BY DEF Holds
<1>2. PICK l \in locks : l.by = q /\ l.row = Row(table, key)
  BY DEF Holds
<1>3. ~k.share
  <2>1. k.row.table = table
    BY <1>1 DEF Row
  <2>2. p \notin Workers \/ table \notin {"contract", "document"}
    BY RequestsAssumption
  <2>3. k.share \in BOOLEAN /\ (k.share <=> k.by \in Workers /\ k.row.table \in {"contract", "document"})
    BY DEF ContractInv, TypeOK, LockTable, Locks
  <2> QED
    BY <1>1, <2>1, <2>2, <2>3
<1>4. ~Conflict(k, l)
  BY DEF ContractInv, LockTable
<1> QED
  BY <1>1, <1>2, <1>3, <1>4 DEF Conflict

\* Nobody else is in the middle of changing the contract.
LEMMA OnlyWriter ==
  ASSUME ContractInv, NEW p \in Pages, tx[p].op # "read", Past(p, "contract"),
         NEW q \in Procs \ {p}, tx[q].op # "read"
  PROVE  \A table \in {"contract", "payments", "version", "jobs"} : ~Past(q, table)
<1>1. p \in Procs /\ q \in Procs
  BY DEF Procs
<1>2. Holds(p, "contract", contract.id)
  BY <1>1, ProcType DEF ProcInv, FoundHolds
<1>3. Past(q, "contract") => Holds(q, "contract", contract.id)
  BY <1>1, ProcType DEF ProcInv, FoundHolds
<1>4. ~Past(q, "contract")
  BY <1>1, <1>2, <1>3, Exclusive
<1> QED
  BY <1>1, <1>4, ProcType, PastOf

----------------------------------------------------------------------------
(* What a step leaves alone *)

LEMMA SamePast ==
  ASSUME NEW q, tx'[q] = tx[q]
  PROVE  /\ Active(q)' <=> Active(q)
         /\ \A table : Past(q, table)' <=> Past(q, table)
BY DEF Past, Active

\* A transaction whose locks stay, over rows that stay.
LEMMA SameProc ==
  ASSUME NEW q, tx'[q] = tx[q], UNCHANGED store, ProcInv(q),
         \A table, key : Holds(q, table, key) => Holds(q, table, key)'
  PROVE  ProcInv(q)'
<1>1. /\ Active(q)' <=> Active(q)
      /\ \A table : Past(q, table)' <=> Past(q, table)
  BY SamePast
<1>2. Running(q)'
  BY <1>1 DEF ProcInv, Running, Active
<1>3. CASE tx[q].op = "read"
  BY <1>1, <1>2, <1>3 DEF ProcInv, ReadHolds, store, Store!Is, Store!NoPayments, Store!Payments
<1>4. CASE tx[q].op # "read"
  BY <1>1, <1>2, <1>4 DEF ProcInv, FoundHolds, store
<1> QED
  BY <1>3, <1>4

LEMMA OthersHold ==
  ASSUME NEW p, NEW q, q # p, locks' = Free(p) \/ locks \subseteq locks', NEW table, NEW key,
         Holds(q, table, key)
  PROVE  Holds(q, table, key)'
BY DEF Holds, Free

\* What a transaction may do that changes no row of a table.
LEMMA LockStep ==
  ASSUME ContractInv, NEW p \in Procs, UNCHANGED store,
         shown' \in [Pages -> Details \cup {None}],
         tx' \in [Procs -> Txs], \A q \in Procs \ {p} : tx'[q] = tx[q],
         locks' = Free(p) \/ locks \subseteq locks',
         locks' \subseteq Locks, LockTable', ProcInv(p)'
  PROVE  ContractInv'
<1>1. TypeOK'
  BY DEF ContractInv, TypeOK, store, ContractRows, PaymentRows, Details, Locks, Txs
<1>2. RowsTogether' /\ JobsNumbered'
  BY DEF ContractInv, RowsTogether, JobsNumbered, store
<1>3. ASSUME NEW q \in Procs \ {p} PROVE ProcInv(q)'
  BY <1>3, SameProc, OthersHold, ProcType
<1> QED
  BY <1>1, <1>2, <1>3 DEF ContractInv, ProcInv

LEMMA IdleInv == ASSUME ContractInv PROVE Idle \in Txs
BY DEF Idle, Txs, Ops, PaymentRows, Store!NoPayments, Store!Payments, ContractInv, TypeOK

LEMMA IdleProc == ASSUME NEW p, tx'[p] = Idle, p \in Procs PROVE ProcInv(p)'
<1>1. tx'[p].op = "idle"
  BY DEF Idle
<1>2. \A table : ~Past(p, table)'
  BY <1>1 DEF Past, Active
<1> QED
  BY <1>1, <1>2 DEF ProcInv, Running, FoundHolds, Active

\* The end of a transaction releases its locks.
LEMMA Released ==
  ASSUME ContractInv, NEW p \in Procs, tx' = [tx EXCEPT ![p] = Idle], locks' = Free(p),
         \A l \in locks : l.by # p /\ l.row.table = "contract" => Store!Is(l.row.key)'
  PROVE  LockTable'
<1>1. \A l \in locks' : l \in locks /\ l.by # p
  BY DEF Free
<1>2. \A k, l \in locks' : ~Conflict(k, l)
  BY <1>1 DEF ContractInv, LockTable, Conflict
<1>3. ASSUME NEW l \in locks'
      PROVE  /\ Active(l.by)' /\ tx'[l.by].op # "read"
             /\ l.share <=> l.by \in Workers /\ l.row.table \in {"contract", "document"}
             /\ Past(l.by, l.row.table)' \/ (l.row.table = "job" /\ Past(l.by, "jobs")')
             /\ l.row.table = "contract" => Store!Is(l.row.key)'
             /\ l.row.table = "document" => l.row.key = 0
  <2>1. l \in locks /\ l.by # p /\ l.by \in Procs
    BY <1>1, <1>3 DEF ContractInv, TypeOK, Locks
  <2>2. tx'[l.by] = tx[l.by]
    BY <2>1 DEF ContractInv, TypeOK
  <2>3. /\ Active(l.by) /\ tx[l.by].op # "read"
        /\ l.share <=> l.by \in Workers /\ l.row.table \in {"contract", "document"}
        /\ Past(l.by, l.row.table) \/ (l.row.table = "job" /\ Past(l.by, "jobs"))
        /\ l.row.table = "document" => l.row.key = 0
    BY <2>1 DEF ContractInv, LockTable
  <2> QED
    BY <2>1, <2>2, <2>3, SamePast
<1> QED
  BY <1>2, <1>3 DEF LockTable

LEMMA EndKeeps ==
  ASSUME ContractInv, NEW p \in Procs, End(p)
  PROVE  ContractInv'
<1>1. tx' = [tx EXCEPT ![p] = Idle] /\ locks' = Free(p) /\ UNCHANGED <<store, shown>>
  BY DEF End
<1>2. LockTable'
  BY <1>1, Released DEF ContractInv, LockTable, store, Store!Is
<1>3. tx' \in [Procs -> Txs] /\ tx'[p] = Idle /\ \A q \in Procs \ {p} : tx'[q] = tx[q]
  BY <1>1, IdleInv DEF ContractInv, TypeOK
<1>4. locks' \subseteq Locks /\ shown' \in [Pages -> Details \cup {None}]
  BY <1>1 DEF ContractInv, TypeOK, Free
<1> QED
  BY <1>1, <1>2, <1>3, <1>4, IdleProc, LockStep

----------------------------------------------------------------------------
(* Requests begin *)

LEMMA BeginKeeps ==
  ASSUME ContractInv, NEW p \in Procs, NEW r \in Txs, Begin(p, r),
         r.op # "idle", r.step = 0, r.payments = Store!NoPayments,
         p \in Pages => r.op # "complete",
         p \in Workers => r.op = "complete",
         r.op \in {"confirm", "put"} => r.payload \in [Lines -> Statuses],
         r.op = "patch" => r.line \in Lines /\ r.status \in Statuses
  PROVE  ContractInv'
<1>1. /\ tx' \in [Procs -> Txs] /\ tx'[p] = r /\ \A q \in Procs \ {p} : tx'[q] = tx[q]
      /\ tx[p] = Idle /\ UNCHANGED <<store, locks, shown>>
  BY DEF Begin, ContractInv, TypeOK
<1>2. \A table : ~Past(p, table)'
  BY <1>1 DEF Past
<1>3. Running(p)'
  <2>1. r.op \in Ops \ {"idle"} /\ 0 <= Len(Statements[r.op])
    <3>1. r.op \in Ops
      BY DEF Txs
    <3> QED
      BY <3>1, Lengths
  <2> QED
    BY <1>1, <2>1 DEF Running, Active
<1>4. ProcInv(p)'
  BY <1>1, <1>2, <1>3 DEF ProcInv, ReadHolds, FoundHolds, store
<1>5. \A l \in locks : l.by \in Procs \ {p}
  <2>1. ~Active(p)
    BY <1>1 DEF Active, Idle
  <2> QED
    BY <2>1 DEF ContractInv, LockTable, TypeOK, Locks
<1>6. LockTable'
  <2>1. ASSUME NEW l \in locks
        PROVE  /\ Active(l.by)' /\ tx'[l.by].op # "read"
               /\ Past(l.by, l.row.table)' <=> Past(l.by, l.row.table)
               /\ Past(l.by, "jobs")' <=> Past(l.by, "jobs")
    BY <1>1, <1>5, SamePast DEF ContractInv, LockTable
  <2>2. \A k, l \in locks : ~Conflict(k, l)
    BY DEF ContractInv, LockTable
  <2> QED
    BY <1>1, <2>1, <2>2 DEF ContractInv, LockTable, store, Store!Is, Conflict
<1>7. locks' \subseteq Locks /\ shown' \in [Pages -> Details \cup {None}]
  BY <1>1 DEF ContractInv, TypeOK
<1> QED
  BY <1>1, <1>4, <1>6, <1>7, LockStep

LEMMA RequestKeeps ==
  ASSUME ContractInv, NEW p \in Pages, Request(p)
  PROVE  ContractInv'
<1>1. p \in Procs /\ p \notin Workers
  BY RequestsAssumption DEF Procs
<1>2. /\ Idle \in Txs /\ Idle.step = 0 /\ Idle.payments = Store!NoPayments
      /\ edits \in Nat
  BY IdleInv DEF Idle, ContractInv, TypeOK
<1>3. ASSUME shown[p] # None, shown[p].payments # Store!NoPayments
      PROVE  /\ shown[p].id \in 0..edits /\ shown[p].payments.edit \in 0..edits
             /\ shown[p].payments.status \in [Lines -> Statuses]
  BY <1>3 DEF ContractInv, TypeOK, Details, PaymentRows
<1>4. \A s \in [Lines -> Statuses] : s \in [Lines -> Statuses \cup {None}]
  OBVIOUS
<1>5. CASE Open(p)
  <2>1. PICK id \in 1..edits : Begin(p, [Idle EXCEPT !.op = "read", !.about = id])
    BY <1>5 DEF Open
  <2> DEFINE r == [Idle EXCEPT !.op = "read", !.about = id]
  <2>2. id \in 0..edits
    BY <1>2
  <2>3. r \in Txs /\ r.op = "read" /\ r.step = 0 /\ r.payments = Store!NoPayments
    BY <1>2, <2>2, Lengths DEF Txs
  <2> HIDE DEF r
  <2> QED
    BY <1>1, <2>1, <2>3, BeginKeeps DEF r
<1>6. CASE Confirm(p)
  <2>1. PICK s \in [Lines -> Statuses] :
               Begin(p, [Idle EXCEPT !.op = "confirm", !.payload = s])
    BY <1>6 DEF Confirm
  <2> DEFINE r == [Idle EXCEPT !.op = "confirm", !.payload = s]
  <2>2. /\ r \in Txs /\ r.op = "confirm" /\ r.step = 0 /\ r.payments = Store!NoPayments
        /\ r.payload = s
    BY <1>2, <1>4, Lengths DEF Txs
  <2> HIDE DEF r
  <2> QED
    BY <1>1, <2>1, <2>2, BeginKeeps DEF r
<1>7. CASE Edit(p)
  <2> DEFINE r == [Idle EXCEPT !.op = "put", !.about = shown[p].id,
                               !.payload = shown[p].payments.status]
  <2>1. Begin(p, r)
    BY <1>7 DEF Edit
  <2>2. /\ shown[p].id \in 0..edits
        /\ shown[p].payments.status \in [Lines -> Statuses]
        /\ shown[p].payments.status \in [Lines -> Statuses \cup {None}]
    BY <1>3, <1>4, <1>7 DEF Edit
  <2>3. /\ r \in Txs /\ r.op = "put" /\ r.step = 0 /\ r.payments = Store!NoPayments
        /\ r.payload \in [Lines -> Statuses]
    BY <1>2, <2>2, Lengths DEF Txs
  <2> HIDE DEF r
  <2> QED
    BY <1>1, <2>1, <2>3, BeginKeeps
<1>8. CASE ChangeStatus(p)
  <2>1. PICK l \in Lines, s \in Statuses :
               Begin(p, [Idle EXCEPT !.op = "patch", !.about = shown[p].id,
                           !.of = shown[p].payments.edit, !.line = l, !.status = s])
    BY <1>8 DEF ChangeStatus
  <2> DEFINE r == [Idle EXCEPT !.op = "patch", !.about = shown[p].id,
                     !.of = shown[p].payments.edit, !.line = l, !.status = s]
  <2>2. shown[p].id \in 0..edits /\ shown[p].payments.edit \in 0..edits
    BY <1>3, <1>8 DEF ChangeStatus
  <2>3. /\ r \in Txs /\ r.op = "patch" /\ r.step = 0 /\ r.payments = Store!NoPayments
        /\ r.line = l /\ r.status = s
    BY <1>2, <2>2, Lengths DEF Txs
  <2> HIDE DEF r
  <2> QED
    BY <1>1, <2>1, <2>3, BeginKeeps DEF r
<1>9. CASE Remove(p)
  <2> DEFINE r == [Idle EXCEPT !.op = "delete", !.about = shown[p].id]
  <2>1. Begin(p, r) /\ shown[p].id \in 0..edits
    BY <1>9 DEF Remove, ContractInv, TypeOK, Details
  <2>2. r \in Txs /\ r.op = "delete" /\ r.step = 0 /\ r.payments = Store!NoPayments
    BY <1>2, <2>1, Lengths DEF Txs
  <2> HIDE DEF r
  <2> QED
    BY <1>1, <2>1, <2>2, BeginKeeps
<1> QED
  BY <1>5, <1>6, <1>7, <1>8, <1>9 DEF Request

LEMMA CompleteKeeps ==
  ASSUME ContractInv, NEW w \in Workers, Complete(w)
  PROVE  ContractInv'
<1>1. w \in Procs /\ w \notin Pages
  BY RequestsAssumption DEF Procs
<1>2. /\ Idle \in Txs /\ Idle.step = 0 /\ Idle.payments = Store!NoPayments
  BY IdleInv DEF Idle
<1>3. PICK j \in jobs : Begin(w, [Idle EXCEPT !.op = "complete", !.about = j.edit])
  BY DEF Complete
<1> DEFINE r == [Idle EXCEPT !.op = "complete", !.about = j.edit]
<1>4. j.edit \in 0..edits
  BY DEF ContractInv, TypeOK
<1>5. r \in Txs /\ r.op = "complete" /\ r.step = 0 /\ r.payments = Store!NoPayments
  BY <1>2, <1>4, Lengths DEF Txs
<1> HIDE DEF r
<1> QED
  BY <1>1, <1>3, <1>5, BeginKeeps DEF r

----------------------------------------------------------------------------
(* Requests run *)

\* The number after the highest is the number of jobs, plus one.
LEMMA NextVersionIs ==
  ASSUME JobsNumbered, edits \in Nat
  PROVE  NextVersion = Cardinality(jobs) + 1 /\ Cardinality(jobs) \in Nat
<1>1. Cardinality(jobs) \in Nat
  BY FS_CardinalityType DEF JobsNumbered
<1> DEFINE n == Cardinality(jobs)
           IsLast(v) == \A j \in jobs : j.version <= v
<1>2. {j.version : j \in jobs} = 1..n
  BY DEF JobsNumbered
<1> HIDE DEF n
<1>3. n \in {0} \cup {j.version : j \in jobs} /\ IsLast(n)
  <2>1. \A j \in jobs : j.version \in 1..n
    BY <1>2
  <2> QED
    BY <1>1, <1>2, <2>1 DEF n
<1>4. \A v \in {0} \cup {j.version : j \in jobs} : IsLast(v) => v = n
  <2> SUFFICES ASSUME NEW v \in {0} \cup 1..n, IsLast(v) PROVE v = n
    BY <1>2
  <2>1. CASE n = 0
    BY <2>1
  <2>2. CASE n # 0
    <3>1. n \in {j.version : j \in jobs}
      BY <1>1, <1>2, <2>2 DEF n
    <3>2. n <= v
      BY <3>1
    <3> QED
      BY <1>1, <3>2 DEF n
  <2> QED
    BY <2>1, <2>2
<1>5. NextVersion = 1 + n
  BY <1>3, <1>4 DEF NextVersion
<1> QED
  BY <1>1, <1>5 DEF n

LEMMA FoundIs ==
  ASSUME ContractInv, NEW p \in Procs, AtStatement(p)
  PROVE  /\ Found(p) \in Txs /\ Found(p).op = tx[p].op /\ Found(p).step = tx[p].step + 1
         /\ Found(p).step <= Len(Statements[tx[p].op])
         /\ Found(p).about = tx[p].about /\ Found(p).of = tx[p].of
         /\ Found(p).line = tx[p].line /\ Found(p).status = tx[p].status
         /\ Found(p).payload = tx[p].payload
         /\ Found(p).contract = IF Table(p) = "contract" THEN contract ELSE tx[p].contract
         /\ Found(p).payments = IF Table(p) = "payments" /\ Store!Is(tx[p].about)
                                THEN payments ELSE tx[p].payments
         /\ Found(p).version = IF Table(p) = "version" THEN NextVersion ELSE tx[p].version
<1>1. tx[p] \in Txs /\ NextVersion \in Nat
  BY ProcType, NextVersionIs DEF ContractInv, TypeOK
<1>2. tx[p].step \in 0..4 /\ tx[p].step + 1 <= Len(Statements[tx[p].op])
  BY TableOf, ProcType, Lengths DEF AtStatement
<1>3. contract \in ContractRows \cup {None} /\ payments \in PaymentRows
  BY DEF ContractInv, TypeOK
<1> DEFINE n == tx[p].step + 1
           c == IF Table(p) = "contract" THEN contract ELSE tx[p].contract
           m == IF Table(p) = "payments" /\ Store!Is(tx[p].about)
                THEN payments ELSE tx[p].payments
           v == IF Table(p) = "version" THEN NextVersion ELSE tx[p].version
<1>4. Found(p) = [tx[p] EXCEPT !.step = n, !.contract = c, !.payments = m, !.version = v]
  BY DEF Found
<1>5. n \in 0..5 /\ c \in ContractRows \cup {None} /\ m \in PaymentRows /\ v \in Nat
  BY <1>1, <1>2, <1>3 DEF Txs
<1> HIDE DEF n, c, m, v
<1>6. /\ Found(p) \in Txs /\ Found(p).op = tx[p].op /\ Found(p).step = n
      /\ Found(p).about = tx[p].about /\ Found(p).of = tx[p].of
      /\ Found(p).line = tx[p].line /\ Found(p).status = tx[p].status
      /\ Found(p).payload = tx[p].payload
      /\ Found(p).contract = c /\ Found(p).payments = m /\ Found(p).version = v
  BY <1>1, <1>4, <1>5 DEF Txs
<1> QED
  BY <1>2, <1>6 DEF n, c, m, v

LEMMA PastFound ==
  ASSUME ContractInv, NEW p \in Procs, AtStatement(p), tx'[p] = Found(p)
  PROVE  /\ Active(p) /\ Active(p)'
         /\ \A table : Past(p, table)' <=> Past(p, table) \/ table = Table(p)
<1>1. tx'[p].op = tx[p].op /\ tx'[p].step = tx[p].step + 1 /\ tx[p].step \in 0..5
  BY FoundIs, ProcType
<1>2. 1..tx'[p].step = 1..tx[p].step \cup {tx[p].step + 1}
  BY <1>1
<1> QED
  BY <1>1, <1>2 DEF Past, Active, AtStatement, Table

\* The locks p takes are of rows that are there.
LEMMA WantedIs ==
  ASSUME ContractInv, NEW p \in Procs, AtStatement(p), NEW l \in Wanted(p)
  PROVE  /\ l \in Locks /\ l.by = p /\ tx[p].op # "read"
         /\ l.share <=> p \in Workers /\ l.row.table \in {"contract", "document"}
         /\ l.row.table = Table(p) \/ (l.row.table = "job" /\ Table(p) = "jobs")
         /\ l.row.table = "contract" => Store!Is(l.row.key)
         /\ l.row.table = "document" => l.row.key = 0
<1>1. PICK r \in Rows(p) :
        l = [by |-> p, row |-> r, share |-> p \in Workers /\ r.table \in {"contract", "document"}]
  BY DEF Wanted
<1>2. tx[p].op # "read"
  BY DEF Wanted
<1>3. /\ edits \in Nat /\ contract \in ContractRows \cup {None}
      /\ jobs \subseteq [edit: 1..edits, version: 1..edits] /\ chunks \subseteq 1..edits
  BY DEF ContractInv, TypeOK
<1>4. /\ r \in [table: Tables, key: 0..edits]
      /\ r.table = Table(p) \/ (r.table = "job" /\ Table(p) = "jobs")
      /\ r.table = "contract" => Store!Is(r.key)
      /\ r.table = "document" => r.key = 0
  <2>1. CASE Table(p) = "contract"
    <3>1. contract # None /\ r = Row("contract", contract.id)
      BY <2>1 DEF Rows
    <3>2. contract.id \in 0..edits
      BY <1>3, <3>1 DEF ContractRows
    <3> QED
      BY <2>1, <3>1, <3>2 DEF Row, Tables, Store!Is
  <2>2. CASE Table(p) = "document"
    <3>1. r = Row("document", 0) /\ 0 \in 0..edits
      BY <1>3, <2>2 DEF Rows
    <3> QED
      BY <2>2, <3>1 DEF Row, Tables
  <2>3. CASE Table(p) = "chunks"
    <3>1. PICK e \in 0..edits : r = Row("chunks", e)
      BY <1>3, <2>3 DEF Rows
    <3> QED
      BY <2>3, <3>1 DEF Row, Tables
  <2>4. CASE Table(p) \in {"jobs", "job"}
    <3>1. PICK e \in 0..edits : r = Row("job", e)
      BY <1>3, <2>4 DEF Rows
    <3> QED
      BY <2>4, <3>1 DEF Row, Tables
  <2>5. CASE Table(p) \notin {"contract", "document", "chunks", "jobs", "job"}
    BY <2>5 DEF Rows
  <2> QED
    BY <2>1, <2>2, <2>3, <2>4, <2>5
<1> QED
  BY <1>1, <1>2, <1>4 DEF Locks

\* A statement that nobody blocks takes its locks without a conflict.
LEMMA Acquired ==
  ASSUME ContractInv, NEW p \in Procs, AtStatement(p), Blockers(p) = {},
         tx' = [tx EXCEPT ![p] = Found(p)], locks' = locks \cup Wanted(p), UNCHANGED store
  PROVE  LockTable'
<1>1. tx'[p] = Found(p) /\ \A q \in Procs \ {p} : tx'[q] = tx[q]
  BY DEF ContractInv, TypeOK
<1>2. \A k, l \in locks' : ~Conflict(k, l)
  <2>1. \A k \in Wanted(p), l \in locks : ~Conflict(k, l) /\ ~Conflict(l, k)
    BY DEF Blockers, Conflict
  <2>2. \A k, l \in Wanted(p) : ~Conflict(k, l)
    BY WantedIs DEF Conflict
  <2>3. \A k, l \in locks : ~Conflict(k, l)
    BY DEF ContractInv, LockTable
  <2> QED
    BY <2>1, <2>2, <2>3
<1>3. ASSUME NEW l \in locks'
      PROVE  /\ Active(l.by)' /\ tx'[l.by].op # "read"
             /\ l.share <=> l.by \in Workers /\ l.row.table \in {"contract", "document"}
             /\ Past(l.by, l.row.table)' \/ (l.row.table = "job" /\ Past(l.by, "jobs")')
             /\ l.row.table = "contract" => Store!Is(l.row.key)
             /\ l.row.table = "document" => l.row.key = 0
  <2>1. CASE l \in Wanted(p)
    BY <1>1, <2>1, WantedIs, PastFound, FoundIs
  <2>2. CASE l \in locks
    <3>1. /\ Active(l.by) /\ tx[l.by].op # "read"
          /\ l.share <=> l.by \in Workers /\ l.row.table \in {"contract", "document"}
          /\ Past(l.by, l.row.table) \/ (l.row.table = "job" /\ Past(l.by, "jobs"))
          /\ l.row.table = "contract" => Store!Is(l.row.key)
          /\ l.row.table = "document" => l.row.key = 0
          /\ l.by \in Procs
      BY <2>2 DEF ContractInv, LockTable, TypeOK, Locks
    <3>2. CASE l.by = p
      BY <1>1, <3>1, <3>2, PastFound, FoundIs
    <3>3. CASE l.by # p
      BY <1>1, <3>1, <3>3, SamePast
    <3> QED
      BY <3>2, <3>3
  <2> QED
    BY <1>3, <2>1, <2>2
<1> QED
  BY <1>2, <1>3 DEF LockTable, store, Store!Is

\* What a statement of a reading request finds.
LEMMA ReadFinds ==
  ASSUME ContractInv, NEW p \in Procs, AtStatement(p), ~Refused(p), tx[p].op = "read",
         tx'[p] = Found(p), UNCHANGED store
  PROVE  ReadHolds(p)'
<1>1. /\ tx'[p].about = tx[p].about
      /\ tx'[p].contract = IF Table(p) = "contract" THEN contract ELSE tx[p].contract
      /\ tx'[p].payments = IF Table(p) = "payments" /\ Store!Is(tx[p].about)
                           THEN payments ELSE tx[p].payments
  BY FoundIs
<1>2. \A table : Past(p, table)' <=> Past(p, table) \/ table = Table(p)
  BY PastFound
<1>3. ReadHolds(p) /\ edits \in Nat /\ p \notin Workers
  BY ProcType DEF ProcInv, Running, ContractInv, TypeOK
<1>4. \/ Table(p) = "contract" /\ ~Past(p, "contract") /\ ~Past(p, "payments")
      \/ Table(p) = "payments" /\ Past(p, "contract") /\ ~Past(p, "payments")
  BY TableOf, PastOf, ProcType
<1>5. CASE Table(p) = "contract"
  <2>1. contract # None /\ contract.id = tx[p].about
    BY <1>3, <1>5 DEF Refused, Rows
  <2>2. contract.edit \in Nat
    BY <1>3, <2>1 DEF ContractInv, TypeOK, ContractRows
  <2>3. ~Past(p, "payments")' /\ tx'[p].payments = Store!NoPayments
    BY <1>1, <1>2, <1>3, <1>4, <1>5 DEF ReadHolds
  <2> QED
    BY <1>1, <1>2, <1>3, <1>5, <2>1, <2>2, <2>3
       DEF ReadHolds, store, Store!Is, Store!NoPayments, Store!Payments
<1>6. CASE Table(p) = "payments"
  <2>1. /\ tx[p].contract # None /\ tx[p].contract.id = tx[p].about
        /\ Store!Is(tx[p].about) => tx[p].contract.edit <= contract.edit
        /\ tx[p].payments = Store!NoPayments /\ Store!NoPayments.edit = 0
    BY <1>3, <1>4, <1>6 DEF ReadHolds, Store!NoPayments, Store!Payments
  <2>2. Store!Is(tx[p].about) =>
          payments.edit = contract.edit /\ contract.edit \in 1..edits
    BY DEF ContractInv, TypeOK, RowsTogether, Store!Is, ContractRows
  <2>3. tx[p].contract.edit \in 1..edits
    BY <2>1, ProcType DEF Txs, ContractRows
  <2>4. tx'[p].payments.edit \in {0} \cup (tx[p].contract.edit .. edits)
    BY <1>1, <1>3, <1>6, <2>1, <2>2, <2>3
  <2> QED
    BY <1>1, <1>2, <1>4, <1>6, <2>1, <2>4 DEF ReadHolds, store, Store!Is
<1> QED
  BY <1>4, <1>5, <1>6

\* The rows a statement locks it holds from then on.
LEMMA HoldsWanted ==
  ASSUME NEW p, NEW r \in Rows(p), tx[p].op # "read", locks' = locks \cup Wanted(p),
         NEW table, NEW key, r = Row(table, key)
  PROVE  Holds(p, table, key)'
<1> DEFINE l == [by |-> p, row |-> r, share |-> p \in Workers /\ r.table \in {"contract", "document"}]
<1>1. l \in Wanted(p)
  BY DEF Wanted
<1>2. l \in locks' /\ l.by = p /\ l.row = Row(table, key)
  BY <1>1
<1> QED
  BY <1>2 DEF Holds

\* What a statement of a transaction that is to write finds.
LEMMA WriterFinds ==
  ASSUME ContractInv, NEW p \in Procs, AtStatement(p), ~Refused(p), tx[p].op # "read",
         tx'[p] = Found(p), locks' = locks \cup Wanted(p), UNCHANGED store
  PROVE  FoundHolds(p)'
<1>1. /\ tx'[p].op = tx[p].op /\ tx'[p].about = tx[p].about /\ tx'[p].of = tx[p].of
      /\ tx'[p].contract = IF Table(p) = "contract" THEN contract ELSE tx[p].contract
      /\ tx'[p].payments = IF Table(p) = "payments" /\ Store!Is(tx[p].about)
                           THEN payments ELSE tx[p].payments
      /\ tx'[p].version = IF Table(p) = "version" THEN NextVersion ELSE tx[p].version
  BY FoundIs
<1>2. \A table : Past(p, table)' <=> Past(p, table) \/ table = Table(p)
  BY PastFound
<1>3. FoundHolds(p) /\ Running(p)
  BY ProcType DEF ProcInv
<1>4. \A table, key : Holds(p, table, key) => Holds(p, table, key)'
  BY DEF Holds
<1>5. UNCHANGED <<contract, payments, jobs, document>>
  BY DEF store
<1>6. Past(p, "contract")' =>
        /\ contract # None /\ Holds(p, "contract", contract.id)'
        /\ p \in Pages => tx'[p].about = contract.id /\ tx'[p].contract = contract
  <2>1. CASE Table(p) = "contract"
    <3>1. Rows(p) # {}
      BY <2>1 DEF Refused
    <3>2. contract # None /\ Row("contract", contract.id) \in Rows(p)
          /\ (contract.id = tx[p].about \/ p \in Workers)
      BY <2>1, <3>1 DEF Rows
    <3>3. Holds(p, "contract", contract.id)'
      BY <1>5, <3>2, HoldsWanted
    <3>4. p \in Pages => p \notin Workers
      BY RequestsAssumption
    <3> QED
      BY <1>1, <2>1, <3>2, <3>3, <3>4
  <2>2. CASE Table(p) # "contract"
    BY <1>1, <1>2, <1>3, <1>4, <1>5, <2>2 DEF FoundHolds
  <2> QED
    BY <2>1, <2>2
<1>7. tx[p].op \in {"put", "patch"} /\ Past(p, "payments")' => tx'[p].payments = payments
  <2>1. CASE Table(p) = "payments" /\ tx[p].op \in {"put", "patch"}
    <3>1. Past(p, "contract") /\ p \notin Workers
      BY <2>1, TableOf, PastOf, ProcType, <1>3 DEF Running
    <3>2. Store!Is(tx[p].about)
      BY <1>3, <3>1 DEF FoundHolds, Store!Is, Procs
    <3> QED
      BY <1>1, <2>1, <3>2
  <2>2. CASE Table(p) # "payments"
    BY <1>1, <1>2, <1>3, <2>2 DEF FoundHolds
  <2> QED
    BY <2>1, <2>2
<1>8. tx[p].op = "patch" /\ Past(p, "payments")' => payments.edit = tx[p].of
  BY <1>2, <1>3 DEF FoundHolds, Refused
<1>9. tx[p].op = "confirm" /\ Past(p, "document")' =>
        document = "open" /\ Holds(p, "document", 0)'
  <2>1. CASE Table(p) = "document" /\ tx[p].op = "confirm"
    <3>1. document = "open" /\ Row("document", 0) \in Rows(p)
      BY <2>1 DEF Refused, Rows
    <3> QED
      BY <3>1, HoldsWanted
  <2>2. CASE Table(p) # "document"
    BY <1>2, <1>3, <1>4, <2>2 DEF FoundHolds
  <2> QED
    BY <2>1, <2>2
<1>10. Past(p, "version")' => tx'[p].version = Cardinality(jobs) + 1
  <2>1. NextVersion = Cardinality(jobs) + 1
    BY NextVersionIs DEF ContractInv, TypeOK
  <2> QED
    BY <1>1, <1>2, <1>3, <2>1 DEF FoundHolds
<1>11. Past(p, "jobs")' => \A j \in jobs : Holds(p, "job", j.edit)'
  <2>1. CASE Table(p) = "jobs"
    <3>1. \A j \in jobs : Row("job", j.edit) \in Rows(p)
      BY <2>1 DEF Rows
    <3> QED
      BY <3>1, HoldsWanted
  <2>2. CASE Table(p) # "jobs"
    BY <1>2, <1>3, <1>4, <2>2 DEF FoundHolds
  <2> QED
    BY <2>1, <2>2
<1>12. Past(p, "job")' =>
         (Holds(p, "job", tx[p].about) /\ \E j \in jobs : j.edit = tx[p].about)'
  <2>1. CASE Table(p) = "job"
    <3>1. Rows(p) # {}
      BY <2>1 DEF Refused
    <3>2. PICK j \in jobs : j.edit = tx[p].about /\ Row("job", j.edit) \in Rows(p)
      BY <2>1, <3>1 DEF Rows
    <3>3. Holds(p, "job", j.edit)'
      BY <3>2, HoldsWanted
    <3> QED
      BY <1>1, <1>5, <3>2, <3>3
  <2>2. CASE Table(p) # "job"
    <3>1. Past(p, "job")' =>
            Holds(p, "job", tx[p].about) /\ \E j \in jobs : j.edit = tx[p].about
      BY <1>2, <1>3, <2>2 DEF FoundHolds
    <3> DEFINE e == tx[p].about
    <3>2. tx'[p].about = e /\ (Holds(p, "job", tx[p].about) => Holds(p, "job", tx[p].about)')
      BY <1>1, <1>4
    <3> QED
      BY <1>1, <1>5, <3>1, <3>2
  <2> QED
    BY <2>1, <2>2
<1> QED
  BY <1>1, <1>5, <1>6, <1>7, <1>8, <1>9, <1>10, <1>11, <1>12 DEF FoundHolds

LEMMA ExecuteKeeps ==
  ASSUME ContractInv, NEW p \in Procs, Execute(p)
  PROVE  ContractInv'
<1>1. CASE Refused(p)
  BY <1>1, EndKeeps DEF Execute
<1>2. CASE ~Refused(p)
  <2>1. /\ AtStatement(p) /\ Blockers(p) = {}
        /\ tx' = [tx EXCEPT ![p] = Found(p)] /\ locks' = locks \cup Wanted(p)
        /\ UNCHANGED <<store, shown>>
    BY <1>2 DEF Execute
  <2>2. /\ tx' \in [Procs -> Txs] /\ tx'[p] = Found(p)
        /\ \A q \in Procs \ {p} : tx'[q] = tx[q]
    BY <2>1, FoundIs DEF ContractInv, TypeOK
  <2>3. Running(p)'
    <3>1. /\ Found(p).op = tx[p].op /\ Found(p).step <= Len(Statements[tx[p].op])
          /\ Found(p).payload = tx[p].payload
          /\ Found(p).line = tx[p].line /\ Found(p).status = tx[p].status
      BY <2>1, FoundIs
    <3> QED
      BY <2>1, <2>2, <3>1, ProcType DEF ProcInv, Running, Active, AtStatement
  <2>4. ProcInv(p)'
    <3>1. tx'[p].op = tx[p].op
      BY <2>1, <2>2, FoundIs
    <3>2. CASE tx[p].op = "read"
      BY <1>2, <2>1, <2>2, <2>3, <3>1, <3>2, ReadFinds DEF ProcInv
    <3>3. CASE tx[p].op # "read"
      BY <1>2, <2>1, <2>2, <2>3, <3>1, <3>3, WriterFinds DEF ProcInv
    <3> QED
      BY <3>2, <3>3
  <2>5. LockTable'
    BY <2>1, Acquired
  <2>6. locks' \subseteq Locks /\ shown' \in [Pages -> Details \cup {None}]
    BY <2>1, WantedIs DEF ContractInv, TypeOK
  <2> QED
    BY <2>1, <2>2, <2>4, <2>5, <2>6, LockStep
<1> QED
  BY <1>1, <1>2

----------------------------------------------------------------------------
(* Commits *)

LEMMA ReadyOf ==
  ASSUME ContractInv, NEW p \in Procs, AtCommit(p)
  PROVE  /\ tx[p].op \in {"read", "put", "patch"} => Past(p, "contract") /\ Past(p, "payments")
         /\ tx[p].op = "confirm" => Past(p, "document")
         /\ tx[p].op = "put" => Past(p, "version")
         /\ tx[p].op = "delete" => Past(p, "contract") /\ Past(p, "jobs")
         /\ tx[p].op = "complete" => Past(p, "job") /\ Past(p, "contract")
         /\ p \in Pages <=> tx[p].op # "complete"
<1>1. /\ tx[p].op = "read" => tx[p].step = 2
      /\ tx[p].op = "confirm" => tx[p].step = 1
      /\ tx[p].op = "put" => tx[p].step = 4
      /\ tx[p].op = "patch" => tx[p].step = 2
      /\ tx[p].op = "delete" => tx[p].step = 5
      /\ tx[p].op = "complete" => tx[p].step = 4
  <2>1. /\ Len(Statements["read"]) = 2 /\ Len(Statements["confirm"]) = 1
        /\ Len(Statements["put"]) = 4 /\ Len(Statements["patch"]) = 2
        /\ Len(Statements["delete"]) = 5 /\ Len(Statements["complete"]) = 4
    BY Lengths
  <2>2. tx[p].step = Len(Statements[tx[p].op])
    BY DEF AtCommit
  <2> QED
    BY <2>1, <2>2
<1>2. p \in Pages <=> tx[p].op # "complete"
  BY ProcType DEF ProcInv, Running, AtCommit, Active, Procs
<1> QED
  BY <1>1, <1>2, PastOf, ProcType

\* What a transaction has found is still there when it commits.
LEMMA CommitFits ==
  ASSUME ContractInv, NEW p \in Procs, AtCommit(p)
  PROVE  ~Collides(p)
<1>1. tx[p].op # "read" => FoundHolds(p)
  BY ProcType DEF ProcInv
<1>2. tx[p].op \in Ops
  BY ProcType
<1>3. CASE tx[p].op = "confirm"
  BY <1>1, <1>3, ReadyOf DEF FoundHolds, Collides, ContractInv, RowsTogether
<1>4. CASE tx[p].op = "put"
  <2>1. /\ tx[p].contract = contract /\ tx[p].payments = payments
        /\ tx[p].version = Cardinality(jobs) + 1
    BY <1>1, <1>4, ReadyOf DEF FoundHolds
  <2>2. \A j \in jobs : j.version # Cardinality(jobs) + 1
    <3>1. Cardinality(jobs) \in Nat /\ \A j \in jobs : j.version \in 1..Cardinality(jobs)
      BY FS_CardinalityType DEF ContractInv, JobsNumbered
    <3> QED
      BY <3>1
  <2> QED
    BY <1>4, <2>1, <2>2 DEF Collides
<1>5. CASE tx[p].op = "patch"
  BY <1>1, <1>5, ReadyOf DEF FoundHolds, Collides
<1>6. CASE tx[p].op = "delete"
  BY <1>1, <1>6, ReadyOf DEF FoundHolds, Collides
<1>7. CASE tx[p].op = "complete"
  BY <1>1, <1>7, ReadyOf DEF FoundHolds, Collides
<1> QED
  BY <1>2, <1>3, <1>4, <1>5, <1>6, <1>7, Lengths DEF Collides, AtCommit, Active

LEMMA Growth ==
  ASSUME edits \in Nat, edits' \in Nat, edits <= edits'
  PROVE  /\ ContractRows \subseteq ContractRows' /\ PaymentRows \subseteq PaymentRows'
         /\ Details \subseteq Details' /\ Locks \subseteq Locks' /\ Txs \subseteq Txs'
<1>1. 1..edits \subseteq 1..edits' /\ 0..edits \subseteq 0..edits'
  OBVIOUS
<1>2. ContractRows \subseteq ContractRows'
  BY <1>1 DEF ContractRows
<1>3. PaymentRows \subseteq PaymentRows'
  BY <1>1 DEF PaymentRows
<1>4. Details \subseteq Details'
  BY <1>1, <1>3 DEF Details
<1>5. Locks \subseteq Locks'
  BY <1>1 DEF Locks
<1>6. Txs \subseteq Txs'
  BY <1>1, <1>2, <1>3 DEF Txs
<1> QED
  BY <1>2, <1>3, <1>4, <1>5, <1>6

\* What a commit owes to the others.
LEMMA CommitStep ==
  ASSUME ContractInv, NEW p \in Procs, NEW page, Finish(p, page),
         p \in Pages => page \in Details' \cup {None},
         edits' \in Nat, edits <= edits',
         contract' \in ContractRows' \cup {None}, payments' \in PaymentRows',
         jobs' \subseteq [edit: 1..edits', version: 1..edits'], chunks' \subseteq 1..edits',
         document' \in {"open", "confirmed"}, RowsTogether', JobsNumbered',
         \A l \in locks : l.by # p /\ l.row.table = "contract" => Store!Is(l.row.key)',
         \A q \in Procs \ {p} : tx[q].op # "read" => FoundHolds(q)',
         contract' # None => \/ contract' = contract
                             \/ contract'.edit = edits'
  PROVE  ContractInv'
<1>1. /\ tx' = [tx EXCEPT ![p] = Idle] /\ locks' = Free(p)
      /\ shown' = IF p \in Pages THEN [shown EXCEPT ![p] = page] ELSE shown
  BY DEF Finish
<1>2. tx' \in [Procs -> Txs] /\ tx'[p] = Idle /\ \A q \in Procs \ {p} : tx'[q] = tx[q]
  BY <1>1, IdleInv DEF ContractInv, TypeOK
<1>3. TypeOK'
  <2>1. shown' \in [Pages -> Details' \cup {None}]
    BY <1>1, Growth DEF ContractInv, TypeOK
  <2>2. tx' \in [Procs -> Txs'] /\ locks' \subseteq Locks'
    BY <1>1, <1>2, Growth DEF ContractInv, TypeOK, Free
  <2> QED
    BY <2>1, <2>2 DEF TypeOK
<1>4. LockTable'
  BY <1>1, Released
<1>5. ASSUME NEW q \in Procs \ {p}
      PROVE  ProcInv(q)'
  <2>1. tx'[q] = tx[q] /\ ProcInv(q)
    BY <1>2, <1>5, ProcType
  <2>2. Running(q)'
    BY <2>1 DEF ProcInv, Running, Active
  <2>3. CASE tx[q].op = "read"
    <3>1. \A table : Past(q, table)' <=> Past(q, table)
      BY <2>1, SamePast
    <3>2. ReadHolds(q)
      BY <2>1, <2>3 DEF ProcInv
    <3>3. edits \in Nat /\ tx[q].contract \in ContractRows \cup {None}
          /\ tx[q].payments \in PaymentRows
      BY <1>5, ProcType DEF ContractInv, TypeOK, Txs
    <3>4. ASSUME Past(q, "contract")
          PROVE  /\ tx[q].contract # None /\ tx[q].contract.id = tx[q].about
                 /\ (Store!Is(tx[q].about))' => tx[q].contract.edit <= contract'.edit
      <4>1. /\ tx[q].contract # None /\ tx[q].contract.id = tx[q].about
            /\ Store!Is(tx[q].about) => tx[q].contract.edit <= contract.edit
            /\ tx[q].contract.edit \in 1..edits
        BY <3>2, <3>3, <3>4 DEF ReadHolds, ContractRows
      <4> QED
        BY <2>1, <3>3, <4>1 DEF Store!Is
    <3>5. Past(q, "payments") => tx[q].payments.edit \in {0} \cup (tx[q].contract.edit .. edits')
      <4>1. Past(q, "payments") => Past(q, "contract")
        BY <1>5, <2>3, PastOf, ProcType
      <4>2. Past(q, "payments") => tx[q].contract.edit \in 1..edits
        BY <3>3, <3>4, <4>1 DEF ContractRows
      <4> QED
        BY <3>2, <3>3, <4>2 DEF ReadHolds
    <3>6. ~Past(q, "payments") => tx[q].payments = Store!NoPayments
      BY <3>2 DEF ReadHolds
    <3>7. ReadHolds(q)'
      BY <2>1, <3>1, <3>4, <3>5, <3>6 DEF ReadHolds, Store!NoPayments, Store!Payments
    <3> QED
      BY <2>1, <2>2, <2>3, <3>7 DEF ProcInv
  <2>4. CASE tx[q].op # "read"
    BY <1>5, <2>1, <2>2, <2>4 DEF ProcInv
  <2> QED
    BY <2>3, <2>4
<1> QED
  BY <1>2, <1>3, <1>4, <1>5, IdleProc DEF ContractInv, ProcInv

\* What another transaction has found stays, if the commit leaves alone what
\* it has come to.
LEMMA KeepsFound ==
  ASSUME ContractInv, NEW p \in Procs, NEW page, Finish(p, page),
         NEW q \in Procs \ {p}, tx[q].op # "read",
         Past(q, "contract") => UNCHANGED <<contract, payments, jobs>>,
         tx[q].op = "confirm" /\ Past(q, "document") => document' = document,
         Past(q, "job") => jobs \subseteq jobs'
  PROVE  FoundHolds(q)'
<1>1. tx'[q] = tx[q] /\ FoundHolds(q)
  BY ProcType DEF Finish, ContractInv, TypeOK, ProcInv
<1>2. \A table : Past(q, table)' <=> Past(q, table)
  BY <1>1, SamePast
<1>3. \A table, key : Holds(q, table, key) => Holds(q, table, key)'
  BY OthersHold DEF Finish
<1>4. Past(q, "payments") \/ Past(q, "version") \/ Past(q, "jobs") => Past(q, "contract")
  BY PastOf, ProcType
<1> QED
  BY <1>1, <1>2, <1>3, <1>4 DEF FoundHolds

\* Whoever commits a change of the contract has it to itself.
LEMMA AloneWith ==
  ASSUME ContractInv, NEW p \in Pages, AtCommit(p),
         tx[p].op \in {"put", "patch", "delete"}, NEW q \in Procs \ {p}, tx[q].op # "read"
  PROVE  /\ ~Past(q, "contract")
         /\ ~(tx[q].op = "confirm" /\ Past(q, "document"))
<1>1. p \in Procs /\ Past(p, "contract")
  BY ReadyOf DEF Procs
<1>2. contract # None
  BY <1>1, ProcType DEF ProcInv, FoundHolds
<1>3. document = "confirmed"
  BY <1>2 DEF ContractInv, RowsTogether
<1> QED
  BY <1>1, <1>3, OnlyWriter, ProcType DEF ProcInv, FoundHolds

LEMMA ReadKeeps ==
  ASSUME ContractInv, NEW p \in Procs, AtCommit(p), CommitRead(p)
  PROVE  ContractInv'
<1> DEFINE page == Detail(tx[p].contract, tx[p].payments)
<1>1. Finish(p, page) /\ UNCHANGED store
  BY DEF CommitRead
<1>2. page \in Details'
  <2>1. tx[p].contract \in ContractRows /\ tx[p].payments \in PaymentRows
    <3>1. tx[p].contract # None
      BY ReadyOf, ProcType DEF CommitRead, ProcInv, ReadHolds
    <3> QED
      BY <3>1, ProcType DEF Txs
  <2>2. page \in Details
    BY <2>1 DEF Detail, Details, ContractRows
  <2> QED
    BY <1>1, <2>2, Growth DEF store, ContractInv, TypeOK
<1> HIDE DEF page
<1>3. \A q \in Procs \ {p} : tx[q].op # "read" => FoundHolds(q)'
  BY <1>1, KeepsFound DEF store
<1>4. /\ TypeOK /\ RowsTogether /\ JobsNumbered
      /\ \A l \in locks : l.row.table = "contract" => Store!Is(l.row.key)
  BY DEF ContractInv, LockTable
<1>5. /\ RowsTogether' /\ JobsNumbered'
      /\ \A l \in locks : l.row.table = "contract" => Store!Is(l.row.key)'
  BY <1>1, <1>4 DEF store, RowsTogether, JobsNumbered, Store!Is
<1>6. UNCHANGED <<contract, payments, jobs, chunks, document, edits>>
  BY <1>1 DEF store
<1> QED
  BY <1>1, <1>2, <1>3, <1>4, <1>5, <1>6, CommitStep DEF TypeOK, ContractRows, PaymentRows

LEMMA ConfirmKeeps ==
  ASSUME ContractInv, NEW p \in Procs, AtCommit(p), CommitConfirm(p)
  PROVE  ContractInv'
<1> DEFINE e == edits + 1
           page == Detail(contract', payments')
<1>1. /\ edits' = e /\ contract' = [id |-> e, edit |-> e]
      /\ payments' = Store!Payments(e, tx[p].payload) /\ jobs' = {Store!Job(e, 1)}
      /\ document' = "confirmed" /\ chunks' = chunks /\ Finish(p, page)
      /\ edits \in Nat /\ e \in 1..e /\ chunks \subseteq 1..edits
  BY DEF CommitConfirm, ContractInv, TypeOK
<1>2. tx[p].op = "confirm" /\ tx[p].payload \in [Lines -> Statuses]
  BY ProcType DEF CommitConfirm, ProcInv, Running
<1>3. document = "open" /\ Holds(p, "document", 0) /\ p \in Pages
  BY <1>2, ReadyOf, ProcType DEF ProcInv, FoundHolds
<1>4. contract = None /\ jobs = {}
  BY <1>3 DEF ContractInv, RowsTogether
<1> HIDE DEF e
<1>5. contract' \in ContractRows' /\ payments' \in PaymentRows'
  BY <1>1, <1>2 DEF ContractRows, PaymentRows, Store!Payments
<1>6. page \in Details'
  BY <1>1, <1>5 DEF Detail, Details
<1> HIDE DEF page
<1>7. contract' # None
  <2>1. [id |-> e, edit |-> e] \in [id: Nat, edit: Nat]
    BY <1>1
  <2> QED
    BY <1>1, <2>1, RequestsAssumption
<1>8. RowsTogether'
  BY <1>1, <1>7 DEF RowsTogether, Store!Payments
<1>9. JobsNumbered' /\ jobs' \subseteq [edit: 1..edits', version: 1..edits']
  <2>1. IsFiniteSet(jobs') /\ Cardinality(jobs') = 1
    BY <1>1, FS_Singleton
  <2>2. {j.version : j \in jobs'} = 1..1 /\ 1 <= edits' /\ 1 \in 1..edits'
    BY <1>1 DEF Store!Job, e
  <2> QED
    BY <1>1, <2>1, <2>2 DEF JobsNumbered, Store!Job
<1>10. \A l \in locks : l.row.table # "contract"
  BY <1>4 DEF ContractInv, LockTable, Store!Is
<1>11. ASSUME NEW q \in Procs \ {p}, tx[q].op # "read"
       PROVE  FoundHolds(q)'
  <2>1. FoundHolds(q)
    BY <1>11, ProcType DEF ProcInv
  <2>2. ~Past(q, "contract") /\ ~Past(q, "job")
    BY <1>4, <2>1 DEF FoundHolds
  <2>3. ~(tx[q].op = "confirm" /\ Past(q, "document"))
    BY <1>3, <1>11, <2>1, Exclusive DEF FoundHolds
  <2> QED
    BY <1>1, <1>11, <2>2, <2>3, KeepsFound
<1>12. edits' \in Nat /\ edits <= edits' /\ chunks' \subseteq 1..edits' /\ contract'.edit = edits'
  BY <1>1 DEF e
<1> QED
  BY <1>1, <1>5, <1>6, <1>8, <1>9, <1>10, <1>11, <1>12, CommitStep

LEMMA PutKeeps ==
  ASSUME ContractInv, NEW p \in Procs, AtCommit(p), CommitPut(p)
  PROVE  ContractInv'
<1> DEFINE e == edits + 1
           n == Cardinality(jobs) + 1
           page == Detail(contract', payments')
<1>1. tx[p].op = "put" /\ p \in Pages /\ tx[p].payload \in [Lines -> Statuses]
  BY ReadyOf, ProcType DEF CommitPut, ProcInv, Running
<1>2. /\ contract # None /\ tx[p].contract = contract /\ tx[p].version = n
      /\ Holds(p, "contract", contract.id)
  BY <1>1, ReadyOf, ProcType DEF ProcInv, FoundHolds
<1>3. /\ edits' = e /\ contract' = [contract EXCEPT !.edit = e]
      /\ payments' = Store!Payments(e, tx[p].payload) /\ jobs' = jobs \cup {Store!Job(e, n)}
      /\ document' = document /\ chunks' = chunks /\ Finish(p, page)
  BY <1>2 DEF CommitPut
<1>4. /\ edits \in Nat /\ contract \in ContractRows /\ chunks \subseteq 1..edits
      /\ jobs \subseteq [edit: 1..edits, version: 1..edits]
      /\ document = "confirmed" /\ IsFiniteSet(jobs) /\ Cardinality(jobs) <= edits
      /\ {j.version : j \in jobs} = 1..Cardinality(jobs)
  BY <1>2 DEF ContractInv, TypeOK, RowsTogether, JobsNumbered
<1>5. Cardinality(jobs) \in Nat /\ n \in 1..e /\ n <= e /\ e \in 1..e
  BY <1>4, FS_CardinalityType
<1>6. Store!Job(e, n) \notin jobs
  BY <1>4 DEF Store!Job
<1>7. IsFiniteSet(jobs') /\ Cardinality(jobs') = n
  BY <1>3, <1>4, <1>6, FS_AddElement
<1>8. {j.version : j \in jobs'} = 1..n
  <2> DEFINE x == Store!Job(e, n)
  <2>1. x.version = n
    BY DEF Store!Job
  <2>2. jobs' = jobs \cup {x}
    BY <1>3
  <2> HIDE DEF x
  <2>3. {j.version : j \in jobs'} = {j.version : j \in jobs} \cup {x.version}
    BY <2>2
  <2> QED
    BY <1>4, <1>5, <2>1, <2>3
<1>9. contract' \in ContractRows' /\ contract'.edit = e /\ contract'.id = contract.id
  BY <1>3, <1>4 DEF ContractRows
<1>10. payments' \in PaymentRows' /\ payments'.edit = e
  BY <1>1, <1>3, <1>5 DEF PaymentRows, Store!Payments
<1>11. jobs' \subseteq [edit: 1..edits', version: 1..edits']
  BY <1>3, <1>4, <1>5 DEF Store!Job
<1> HIDE DEF e, n
<1>12. page \in Details'
  BY <1>9, <1>10, <1>3, <1>5 DEF Detail, Details, ContractRows
<1> HIDE DEF page
<1>13. contract' # None
  <2>1. contract' \in [id: Nat, edit: Nat]
    BY <1>9, <1>3, <1>4 DEF ContractRows, e
  <2> QED
    BY <2>1, RequestsAssumption
<1>14. RowsTogether' /\ JobsNumbered'
  <2>1. contract'.id <= e
    BY <1>3, <1>9 DEF ContractRows
  <2> QED
    BY <1>3, <1>4, <1>5, <1>7, <1>8, <1>9, <1>10, <1>13, <2>1 DEF RowsTogether, JobsNumbered
<1>15. \A l \in locks : l.by # p /\ l.row.table = "contract" => Store!Is(l.row.key)'
  BY <1>2, <1>9, <1>13 DEF ContractInv, LockTable, Store!Is
<1>16. ASSUME NEW q \in Procs \ {p}, tx[q].op # "read"
       PROVE  FoundHolds(q)'
  <2>1. ~Past(q, "contract") /\ jobs \subseteq jobs' /\ document' = document
    BY <1>1, <1>3, <1>16, AloneWith
  <2> QED
    BY <1>3, <1>16, <2>1, KeepsFound
<1>17. /\ edits' \in Nat /\ edits <= edits' /\ chunks' \subseteq 1..edits'
       /\ contract'.edit = edits' /\ document' \in {"open", "confirmed"}
  BY <1>3, <1>4, <1>9 DEF e
<1> QED
  BY <1>3, <1>9, <1>10, <1>11, <1>12, <1>14, <1>15, <1>16, <1>17, CommitStep

LEMMA PatchKeeps ==
  ASSUME ContractInv, NEW p \in Procs, AtCommit(p), CommitPatch(p)
  PROVE  ContractInv'
<1> DEFINE rows == [payments EXCEPT !.status[tx[p].line] = tx[p].status]
           page == Detail(contract, rows)
<1>1. /\ tx[p].op = "patch" /\ p \in Pages
      /\ tx[p].line \in Lines /\ tx[p].status \in Statuses
  BY ReadyOf, ProcType DEF CommitPatch, ProcInv, Running
<1>2. contract # None /\ tx[p].contract = contract /\ tx[p].payments = payments
  BY <1>1, ReadyOf, ProcType DEF ProcInv, FoundHolds
<1>3. /\ payments' = rows /\ Finish(p, page)
      /\ UNCHANGED <<contract, jobs, chunks, document, edits>>
  BY <1>2 DEF CommitPatch
<1>4. /\ TypeOK /\ RowsTogether /\ JobsNumbered
      /\ \A l \in locks : l.row.table = "contract" => Store!Is(l.row.key)
  BY DEF ContractInv, LockTable
<1>5. payments.edit = contract.edit /\ contract.edit \in 1..edits /\ contract \in ContractRows
  BY <1>2, <1>4 DEF TypeOK, RowsTogether, ContractRows
<1>6. rows \in PaymentRows /\ rows.edit = payments.edit
  <2>1. payments \in [edit: 1..edits, status: [Lines -> Statuses]]
    <3>1. Store!NoPayments.edit = 0 /\ 0 \notin 1..edits
      BY <1>4 DEF Store!NoPayments, Store!Payments, TypeOK
    <3> QED
      BY <1>4, <1>5, <3>1 DEF TypeOK, PaymentRows
  <2> QED
    BY <1>1, <2>1 DEF PaymentRows
<1> HIDE DEF rows
<1>7. page \in Details /\ page \in Details'
  <2>1. page \in Details
    BY <1>5, <1>6 DEF Detail, Details, ContractRows
  <2> QED
    BY <1>3, <1>4, <2>1, Growth DEF TypeOK
<1> HIDE DEF page
<1>8. /\ RowsTogether' /\ JobsNumbered'
      /\ \A l \in locks : l.row.table = "contract" => Store!Is(l.row.key)'
  BY <1>2, <1>3, <1>4, <1>6 DEF RowsTogether, JobsNumbered, Store!Is
<1>9. ASSUME NEW q \in Procs \ {p}, tx[q].op # "read"
      PROVE  FoundHolds(q)'
  BY <1>1, <1>3, <1>9, AloneWith, KeepsFound
<1>10. /\ contract' \in ContractRows' \cup {None} /\ payments' \in PaymentRows'
       /\ edits' \in Nat /\ edits <= edits'
       /\ jobs' \subseteq [edit: 1..edits', version: 1..edits'] /\ chunks' \subseteq 1..edits'
       /\ document' \in {"open", "confirmed"}
  BY <1>3, <1>4, <1>6 DEF TypeOK, ContractRows, PaymentRows, Store!NoPayments, Store!Payments
<1> QED
  BY <1>3, <1>7, <1>8, <1>9, <1>10, CommitStep

LEMMA DeleteKeeps ==
  ASSUME ContractInv, NEW p \in Procs, AtCommit(p), CommitDelete(p)
  PROVE  ContractInv'
<1>1. tx[p].op = "delete" /\ p \in Pages
  BY ReadyOf DEF CommitDelete
<1>2. /\ contract # None /\ Holds(p, "contract", contract.id)
      /\ \A j \in jobs : Holds(p, "job", j.edit)
  BY <1>1, ReadyOf, ProcType DEF ProcInv, FoundHolds
<1>3. /\ contract' = None /\ payments' = Store!NoPayments /\ jobs' = {} /\ chunks' = {}
      /\ document' = "open" /\ edits' = edits /\ edits \in Nat /\ Finish(p, None)
  BY DEF CommitDelete, ContractInv, TypeOK
<1>4. RowsTogether'
  BY <1>3 DEF RowsTogether, Store!NoPayments, Store!Payments
<1>5. JobsNumbered'
  <2>1. IsFiniteSet({}) /\ Cardinality({}) = 0
    BY FS_EmptySet
  <2> QED
    BY <1>3, <2>1 DEF JobsNumbered
<1>6. \A l \in locks : l.by # p => l.row.table # "contract"
  <2> SUFFICES ASSUME NEW l \in locks, l.by # p, l.row.table = "contract" PROVE FALSE
    OBVIOUS
  <2>1. l.row.key = contract.id /\ l.by \in Procs /\ l.row = Row("contract", l.row.key)
    <3>1. l \in Locks /\ Store!Is(l.row.key)
      BY DEF ContractInv, TypeOK, LockTable
    <3> QED
      BY <3>1 DEF Locks, Row, Store!Is
  <2>2. Holds(l.by, "contract", contract.id)
    BY <2>1 DEF Holds
  <2> QED
    BY <1>1, <1>2, <2>1, <2>2, Exclusive DEF Procs
<1>7. ASSUME NEW q \in Procs \ {p}, tx[q].op # "read"
      PROVE  FoundHolds(q)'
  <2>1. ~Past(q, "contract") /\ ~(tx[q].op = "confirm" /\ Past(q, "document"))
    BY <1>1, <1>7, AloneWith
  <2>2. ~Past(q, "job")
    <3> SUFFICES ASSUME Past(q, "job") PROVE FALSE
      OBVIOUS
    <3>1. PICK j \in jobs : j.edit = tx[q].about /\ Holds(q, "job", j.edit)
      BY <1>7, ProcType DEF ProcInv, FoundHolds
    <3> QED
      BY <1>2, <1>7, <3>1, Exclusive
  <2> QED
    BY <1>3, <1>7, <2>1, <2>2, KeepsFound
<1>8. /\ payments' \in PaymentRows' /\ edits <= edits' /\ document' \in {"open", "confirmed"}
      /\ jobs' \subseteq [edit: 1..edits', version: 1..edits'] /\ chunks' \subseteq 1..edits'
  BY <1>3 DEF PaymentRows, Store!NoPayments, Store!Payments
<1> QED
  BY <1>3, <1>4, <1>5, <1>6, <1>7, <1>8, CommitStep

LEMMA IndexKeeps ==
  ASSUME ContractInv, NEW w \in Procs, AtCommit(w), CommitComplete(w)
  PROVE  ContractInv'
<1>1. tx[w].op = "complete" /\ w \notin Pages
  BY ReadyOf DEF CommitComplete
<1>2. contract # None /\ \E j \in jobs : j.edit = tx[w].about
  BY <1>1, ReadyOf, ProcType DEF ProcInv, FoundHolds
<1>3. /\ chunks' = chunks \cup {tx[w].about} /\ Finish(w, None)
      /\ UNCHANGED <<contract, payments, jobs, document, edits>>
  BY DEF CommitComplete
<1>4. /\ TypeOK /\ RowsTogether /\ JobsNumbered
      /\ \A l \in locks : l.row.table = "contract" => Store!Is(l.row.key)
  BY DEF ContractInv, LockTable
<1>5. /\ RowsTogether' /\ JobsNumbered'
      /\ \A l \in locks : l.row.table = "contract" => Store!Is(l.row.key)'
  BY <1>2, <1>3, <1>4 DEF RowsTogether, JobsNumbered, Store!Is
<1>6. \A q \in Procs \ {w} : tx[q].op # "read" => FoundHolds(q)'
  BY <1>3, KeepsFound
<1>7. tx[w].about \in 1..edits
  BY <1>2, <1>4 DEF TypeOK
<1>8. /\ contract' \in ContractRows' \cup {None} /\ payments' \in PaymentRows'
      /\ edits' \in Nat /\ edits <= edits'
      /\ jobs' \subseteq [edit: 1..edits', version: 1..edits'] /\ chunks' \subseteq 1..edits'
      /\ document' \in {"open", "confirmed"}
  BY <1>3, <1>4, <1>7 DEF TypeOK, ContractRows, PaymentRows, Store!NoPayments, Store!Payments
<1> QED
  BY <1>1, <1>3, <1>5, <1>6, <1>8, CommitStep

LEMMA CommitKeeps ==
  ASSUME ContractInv, NEW p \in Procs, Commit(p)
  PROVE  ContractInv'
BY ReadKeeps, ConfirmKeeps, PutKeeps, PatchKeeps, DeleteKeeps, IndexKeeps DEF Commit

LEMMA StutterKeeps == ASSUME ContractInv, UNCHANGED vars PROVE ContractInv'
<1>1. UNCHANGED store /\ UNCHANGED <<locks, tx, shown>>
  BY DEF vars, store
<1>2. \A p : ProcInv(p) => ProcInv(p)'
  BY <1>1, SameProc DEF Holds
<1>3. TypeOK' /\ RowsTogether' /\ JobsNumbered' /\ LockTable'
  BY <1>1 DEF ContractInv, TypeOK, RowsTogether, JobsNumbered, LockTable, store,
     ContractRows, PaymentRows, Details, Locks, Txs, Active, Past, Store!Is, Conflict
<1> QED
  BY <1>2, <1>3 DEF ContractInv, ProcInv

LEMMA NextKeeps == ContractInv /\ [Next]_vars => ContractInv'
<1> SUFFICES ASSUME ContractInv, [Next]_vars PROVE ContractInv'
  OBVIOUS
<1>1. ASSUME NEW p \in Procs, Run(p) \/ Fail(p) \/ Victim(p) PROVE ContractInv'
  BY <1>1, ExecuteKeeps, CommitKeeps, EndKeeps DEF Run, Fail, Victim
<1> QED
  BY <1>1, RequestKeeps, CompleteKeeps, StutterKeeps DEF Next

LEMMA InitKeeps == Init => ContractInv
<1> SUFFICES ASSUME Init PROVE ContractInv
  OBVIOUS
<1>1. /\ contract = None /\ payments = Store!NoPayments /\ jobs = {} /\ chunks = {}
      /\ document = "open" /\ edits = 0 /\ locks = {} /\ tx = [p \in Procs |-> Idle]
      /\ shown = [p \in Pages |-> None]
  BY DEF Init, Store!Init
<1>2. Idle \in Txs
  BY <1>1 DEF Idle, Txs, Ops, PaymentRows, Store!NoPayments, Store!Payments
<1>3. TypeOK
  BY <1>1, <1>2 DEF TypeOK, PaymentRows
<1>4. RowsTogether /\ JobsNumbered /\ LockTable
  BY <1>1, FS_EmptySet DEF RowsTogether, JobsNumbered, LockTable
<1>5. ASSUME NEW p \in Procs PROVE ProcInv(p)
  BY <1>1, <1>5 DEF ProcInv, Running, FoundHolds, Idle, Active, Past
<1> QED
  BY <1>3, <1>4, <1>5 DEF ContractInv, ProcInv

\* The row locks, in the order in which the statements take them, are enough:
\* rows come and go together, jobs number the edits, and what a transaction
\* found is what is there until it commits.
THEOREM ContractInvariant == Spec => []ContractInv
BY InitKeeps, NextKeeps, PTL DEF Spec

\* No constraint and no lost row ever fails a commit.
THEOREM NoCollisionHolds == Spec => []NoCollision
<1>1. ContractInv => NoCollision
  BY CommitFits DEF NoCollision
<1> QED
  BY <1>1, ContractInvariant, PTL
----------------------------------------------------------------------------
(* What a page is shown *)

\* An answer shows payments that belong to its contract's edit, or later ones.
LEMMA AnswerForward ==
  ASSUME ContractInv, NEW p \in Pages, Commit(p)
  PROVE  \E page : /\ shown' = [shown EXCEPT ![p] = page]
                   /\ page # None => page.payments.edit \in {0} \cup (page.edit .. edits')
<1>1. /\ p \in Procs /\ AtCommit(p) /\ edits \in Nat
      /\ \A page : Finish(p, page) => shown' = [shown EXCEPT ![p] = page]
  BY DEF Commit, Procs, Finish, ContractInv, TypeOK
<1>2. CASE CommitRead(p)
  <2> DEFINE page == Detail(tx[p].contract, tx[p].payments)
  <2>1. tx[p].payments.edit \in {0} \cup (tx[p].contract.edit .. edits)
    BY <1>1, <1>2, ReadyOf, ProcType DEF CommitRead, ProcInv, ReadHolds
  <2>2. Finish(p, page) /\ edits' = edits
    BY <1>2 DEF CommitRead, store
  <2>3. page.payments = tx[p].payments /\ page.edit = tx[p].contract.edit
    BY DEF Detail
  <2> HIDE DEF page
  <2> QED
    BY <1>1, <2>1, <2>2, <2>3
<1>3. CASE CommitConfirm(p) \/ CommitPut(p)
  <2> DEFINE page == Detail(contract', payments')
  <2>1. /\ Finish(p, page) /\ edits' = edits + 1
        /\ payments' = Store!Payments(edits', tx[p].payload)
    BY <1>3 DEF CommitConfirm, CommitPut
  <2>2. contract'.edit = edits'
    <3>1. CASE CommitConfirm(p)
      BY <3>1 DEF CommitConfirm
    <3>2. CASE CommitPut(p)
      <4>1. tx[p].contract \in ContractRows
        BY <1>1, <3>2, ReadyOf, ProcType DEF CommitPut, ProcInv, FoundHolds, ContractInv, TypeOK
      <4> QED
        BY <3>2, <4>1 DEF CommitPut, ContractRows
    <3> QED
      BY <1>3, <3>1, <3>2
  <2>3. page.payments.edit = edits' /\ page.edit = edits'
    BY <2>1, <2>2 DEF Detail, Store!Payments
  <2> HIDE DEF page
  <2> QED
    BY <1>1, <2>1, <2>3
<1>4. CASE CommitPatch(p)
  <2> DEFINE rows == [tx[p].payments EXCEPT !.status[tx[p].line] = tx[p].status]
             page == Detail(tx[p].contract, rows)
  <2>1. Finish(p, page) /\ edits' = edits
    BY <1>4 DEF CommitPatch
  <2>2. contract # None /\ tx[p].contract = contract /\ tx[p].payments = payments
    BY <1>1, <1>4, ReadyOf, ProcType DEF CommitPatch, ProcInv, FoundHolds
  <2>3. payments.edit = contract.edit /\ contract.edit \in 1..edits
    BY <2>2 DEF ContractInv, TypeOK, RowsTogether, ContractRows
  <2>4. rows.edit = tx[p].payments.edit
    BY <1>1, ProcType DEF Txs, PaymentRows, Store!NoPayments, Store!Payments
  <2>5. page.payments = rows /\ page.edit = contract.edit
    BY <2>2 DEF Detail
  <2> HIDE DEF page, rows
  <2> QED
    BY <1>1, <2>1, <2>2, <2>3, <2>4, <2>5
<1>5. CASE CommitDelete(p)
  BY <1>1, <1>5 DEF CommitDelete
<1>6. ~CommitComplete(p)
  BY <1>1, ReadyOf DEF CommitComplete
<1> QED
  BY <1>2, <1>3, <1>4, <1>5, <1>6 DEF Commit

\* Rows and pages change at a commit only.
LEMMA OnlyCommits ==
  ASSUME [Next]_vars
  PROVE  UNCHANGED <<store, shown>> \/ \E p \in Procs : Commit(p)
<1>1. ASSUME NEW p, Request(p) \/ Complete(p) PROVE UNCHANGED <<store, shown>>
  BY <1>1 DEF Request, Open, Confirm, Edit, ChangeStatus, Remove, Complete, Begin
<1>2. ASSUME NEW p, Execute(p) \/ Fail(p) \/ Victim(p) PROVE UNCHANGED <<store, shown>>
  BY <1>2 DEF Execute, Fail, Victim, End
<1>3. UNCHANGED vars => UNCHANGED <<store, shown>>
  BY DEF vars, store
<1> QED
  BY <1>1, <1>2, <1>3 DEF Next, Run

LEMMA ForwardKeeps ==
  ASSUME ContractInv, ReadsForward, [Next]_vars
  PROVE  ReadsForward'
<1>1. /\ shown \in [Pages -> Details \cup {None}] /\ edits \in Nat
  BY DEF ContractInv, TypeOK
<1>2. \A q \in Pages : shown[q] # None =>
        /\ shown[q].edit \in Nat
        /\ shown[q].payments.edit \in {0} \cup (shown[q].edit .. edits)
  BY <1>1 DEF ReadsForward, Details
<1>3. edits' \in Nat /\ edits <= edits'
  <2>1. UNCHANGED store => edits' = edits
    BY DEF store
  <2>2. ASSUME NEW p, Commit(p) PROVE edits' \in {edits, edits + 1}
    BY <2>2 DEF Commit, CommitRead, CommitConfirm, CommitPut, CommitPatch, CommitDelete,
       CommitComplete, store
  <2> QED
    BY <1>1, <2>1, <2>2, OnlyCommits
<1>0. ASSUME NEW q \in Pages, shown[q] # None
      PROVE  shown[q].payments.edit \in {0} \cup (shown[q].edit .. edits')
  <2> DEFINE first == shown[q].edit
             this == shown[q].payments.edit
  <2>1. first \in Nat /\ this \in {0} \cup (first .. edits)
    BY <1>0, <1>2
  <2> HIDE DEF first, this
  <2>2. this \in {0} \cup (first .. edits')
    BY <1>1, <1>3, <2>1
  <2> QED
    BY <2>2 DEF first, this
<1>4. CASE UNCHANGED shown
  BY <1>0, <1>4 DEF ReadsForward
<1>5. CASE \E p \in Pages : Commit(p)
  <2>0. PICK p \in Pages : Commit(p)
    BY <1>5
  <2>1. PICK page :
          /\ shown' = [shown EXCEPT ![p] = page]
          /\ page # None => page.payments.edit \in {0} \cup (page.edit .. edits')
    BY <2>0, AnswerForward
  <2>2. ASSUME NEW q \in Pages, shown'[q] # None
        PROVE  shown'[q].payments.edit \in {0} \cup (shown'[q].edit .. edits')
    <3>1. CASE q = p
      BY <1>1, <2>1, <2>2, <3>1
    <3>2. CASE q # p
      <4>1. shown'[q] = shown[q]
        BY <1>1, <2>1, <3>2
      <4> QED
        BY <1>0, <2>2, <4>1
    <3> QED
      BY <3>1, <3>2
  <2> QED
    BY <2>2 DEF ReadsForward
<1>6. ASSUME NEW w \in Workers, Commit(w) PROVE UNCHANGED shown
  <2>1. w \notin Pages
    BY RequestsAssumption
  <2> QED
    BY <1>6, <2>1 DEF Commit, CommitRead, CommitConfirm, CommitPut, CommitPatch, CommitDelete,
       CommitComplete, Finish
<1> QED
  <2>1. UNCHANGED <<store, shown>> => UNCHANGED shown
    OBVIOUS
  <2>2. ASSUME NEW p \in Procs, Commit(p) PROVE UNCHANGED shown \/ \E q \in Pages : Commit(q)
    BY <1>6, <2>2 DEF Procs
  <2>3. UNCHANGED shown \/ \E q \in Pages : Commit(q)
    BY <2>1, <2>2, OnlyCommits
  <2> QED
    BY <1>4, <1>5, <2>3

\* A detail shows payments of the edit it shows, or newer, or none.
THEOREM ReadsForwardHolds == Spec => []ReadsForward
<1>1. Init => ReadsForward
  BY DEF Init, ReadsForward
<1>2. ContractInv /\ ReadsForward /\ [Next]_vars => ReadsForward'
  BY ForwardKeeps
<1> QED
  BY <1>1, <1>2, ContractInvariant, PTL DEF Spec

----------------------------------------------------------------------------
(* Requests are atomic *)

\* The store counts with its own copy of the operator.
LEMMA SameSize == ASSUME NEW S PROVE Store!Cardinality(S) = Cardinality(S)
BY DEF Store!Cardinality, Cardinality

LEMMA CommitMaps ==
  ASSUME ContractInv, NEW p \in Procs, Commit(p)
  PROVE  Store!Next \/ UNCHANGED store
<1>1. AtCommit(p) /\ (tx[p].op # "read" => FoundHolds(p))
  BY ProcType DEF Commit, ProcInv
<1>2. TypeOK /\ RowsTogether
  BY DEF ContractInv
<1>3. CASE CommitRead(p)
  BY <1>3 DEF CommitRead
<1>4. CASE CommitConfirm(p)
  <2>1. tx[p].op = "confirm" /\ tx[p].payload \in [Lines -> Statuses]
    BY <1>4, ProcType DEF CommitConfirm, ProcInv, Running
  <2>2. document = "open"
    BY <1>1, <2>1, ReadyOf DEF FoundHolds
  <2> QED
    BY <1>4, <2>1, <2>2 DEF CommitConfirm, Store!Next, Store!Confirm
<1>5. CASE CommitPut(p)
  <2>1. tx[p].op = "put" /\ tx[p].payload \in [Lines -> Statuses] /\ p \in Pages
    BY <1>1, <1>5, ReadyOf, ProcType DEF CommitPut, ProcInv, Running
  <2>2. /\ contract # None /\ tx[p].contract = contract
        /\ tx[p].version = Cardinality(jobs) + 1
    BY <1>1, <2>1, ReadyOf DEF FoundHolds
  <2>3. contract \in ContractRows
    BY <1>2, <2>2 DEF TypeOK
  <2>4. contract.id \in 1..edits /\ contract' = [id |-> contract.id, edit |-> edits']
    BY <1>5, <2>2, <2>3 DEF CommitPut, ContractRows
  <2>5. Store!Put(contract.id)
    <3>1. /\ edits' = edits + 1 /\ payments' = Store!Payments(edits', tx[p].payload)
          /\ jobs' = jobs \cup {Store!Job(edits', Store!Cardinality(jobs) + 1)}
          /\ UNCHANGED <<chunks, document>>
      BY <1>5, <2>2, SameSize DEF CommitPut
    <3>2. \E s \in [Lines -> Statuses] : payments' = Store!Payments(edits', s)
      BY <2>1, <3>1
    <3>3. Store!Is(contract.id) /\ contract' = [id |-> contract.id, edit |-> edits']
      BY <2>2, <2>4 DEF Store!Is
    <3> QED
      BY <3>1, <3>2, <3>3, Zenon DEF Store!Put
  <2> QED
    BY <2>4, <2>5 DEF Store!Next
<1>6. CASE CommitPatch(p)
  <2>1. tx[p].op = "patch" /\ p \in Pages /\ tx[p].line \in Lines /\ tx[p].status \in Statuses
    BY <1>1, <1>6, ReadyOf, ProcType DEF CommitPatch, ProcInv, Running
  <2>2. contract # None
    BY <1>1, <2>1, ReadyOf DEF FoundHolds
  <2>3. /\ contract.id \in 1..edits /\ contract.edit \in 1..edits
        /\ contract.id <= contract.edit /\ payments.edit = contract.edit
    BY <1>2, <2>2 DEF TypeOK, RowsTogether, ContractRows
  <2>4. payments.edit \in contract.id .. edits
    BY <2>3
  <2>5. payments' = Store!Payments(payments.edit, [payments.status EXCEPT ![tx[p].line] = tx[p].status])
    <3>1. payments \in PaymentRows /\ payments' = [payments EXCEPT !.status[tx[p].line] = tx[p].status]
      BY <1>2, <1>6 DEF TypeOK, CommitPatch
    <3>2. DOMAIN payments = {"edit", "status"} /\ payments = [edit |-> payments.edit, status |-> payments.status]
      BY <3>1 DEF PaymentRows, Store!NoPayments, Store!Payments
    <3> QED
      BY <3>1, <3>2 DEF Store!Payments
  <2>6. Store!Patch(contract.id, payments.edit)
    BY <1>6, <2>1, <2>2, <2>5 DEF CommitPatch, Store!Patch, Store!Is
  <2> QED
    BY <2>3, <2>4, <2>6 DEF Store!Next
<1>7. CASE CommitDelete(p)
  <2>1. contract # None
    BY <1>1, <1>7, ReadyOf DEF CommitDelete, FoundHolds
  <2>2. contract.id \in 1..edits
    BY <1>2, <2>1 DEF TypeOK, ContractRows
  <2>3. Store!Delete(contract.id)
    BY <1>7, <2>1 DEF CommitDelete, Store!Delete, Store!Is
  <2> QED
    BY <2>2, <2>3 DEF Store!Next
<1>8. CASE CommitComplete(p)
  <2>1. PICK j \in jobs : j.edit = tx[p].about
    BY <1>1, <1>8, ReadyOf DEF CommitComplete, FoundHolds
  <2>2. tx[p].about \in 1..edits
    BY <1>2, <2>1 DEF TypeOK
  <2>3. Store!Index(tx[p].about)
    BY <1>8, <2>1 DEF CommitComplete, Store!Index
  <2> QED
    BY <2>2, <2>3 DEF Store!Next
<1> QED
  BY <1>3, <1>4, <1>5, <1>6, <1>7, <1>8 DEF Commit

\* ContractRequests implements ContractStore: whatever the requests interleave,
\* each takes effect as one step of the store, at its commit.
THEOREM AtomicHolds == Spec => Atomic
<1>1. Init => Store!Init
  BY DEF Init
<1>2. ContractInv /\ [Next]_vars => [Store!Next]_(Store!store)
  <2> SUFFICES ASSUME ContractInv, [Next]_vars PROVE Store!Next \/ UNCHANGED Store!store
    OBVIOUS
  <2>1. UNCHANGED store => UNCHANGED Store!store
    BY DEF store, Store!store
  <2> QED
    BY <2>1, OnlyCommits, CommitMaps DEF store
<1> QED
  BY <1>1, <1>2, ContractInvariant, PTL DEF Spec, Atomic, Store!Spec
----------------------------------------------------------------------------
(* Deadlocks *)

\* Who waits is at a statement that locks rows; whom it waits for has locked
\* them.
LEMMA Blocks ==
  ASSUME ContractInv, NEW p \in Procs, NEW q \in Blockers(p)
  PROVE  /\ q \in Procs /\ AtStatement(p)
         /\ Table(p) \in {"contract", "document", "chunks", "jobs", "job"}
         /\ IF Table(p) \in {"jobs", "job"} THEN Past(q, "jobs") \/ Past(q, "job")
                                            ELSE Past(q, Table(p))
<1>1. PICK k \in Wanted(p), m \in locks : q = m.by /\ Conflict(k, m) /\ AtStatement(p)
  BY DEF Blockers
<1>2. m \in Locks /\ (Past(q, m.row.table) \/ (m.row.table = "job" /\ Past(q, "jobs")))
  BY <1>1 DEF ContractInv, TypeOK, LockTable
<1>3. k \in Locks /\ (k.row.table = Table(p) \/ (k.row.table = "job" /\ Table(p) = "jobs"))
  BY <1>1, WantedIs
<1>4. k.row.table = m.row.table
  BY <1>1 DEF Conflict
<1>5. q \in Procs /\ k.row.table \in {"contract", "document", "chunks", "job"}
  BY <1>1, <1>2, <1>3 DEF Locks, Tables
<1> QED
  BY <1>1, <1>2, <1>3, <1>4, <1>5

\* What a waiting transaction is at, and what it has behind it.
LEMMA Stage ==
  ASSUME ContractInv, NEW p \in Waiting
  PROVE  LET at == Table(p) IN
         /\ p \in Procs
         /\ \/ tx[p].op = "complete" /\ at \in {"job", "chunks", "contract", "document"}
            \/ tx[p].op = "delete" /\ at \in {"contract", "document", "chunks", "jobs"}
            \/ tx[p].op \notin {"complete", "delete"} /\ at \in {"contract", "document"}
         /\ Past(p, "contract") => at # "contract" /\ (tx[p].op = "complete" => at = "document")
         /\ Past(p, "document") => tx[p].op = "delete" /\ at \in {"chunks", "jobs"}
         /\ Past(p, "chunks") => \/ tx[p].op = "delete" /\ at = "jobs"
                                 \/ tx[p].op = "complete" /\ at \in {"contract", "document"}
         /\ ~Past(p, "jobs")
         /\ Past(p, "job") => tx[p].op = "complete" /\ at # "job"
<1>1. p \in Procs /\ Blockers(p) # {}
  BY DEF Waiting
<1>2. AtStatement(p) /\ Table(p) \in {"contract", "document", "chunks", "jobs", "job"}
  BY <1>1, Blocks
<1>3. /\ tx[p].op \in Ops /\ tx[p].step \in 0..5
      /\ Active(p) => tx[p].step <= Len(Statements[tx[p].op])
  BY <1>1, ProcType
<1> QED
  BY <1>1, <1>2, <1>3, TableOf, PastOf

\* A circle without a deletion: whom one waits for at the document is done
\* with its locks, so none waits there, then none at the contract, then none
\* at the chunks, then none at its job.
LEMMA CircleDeletes ==
  ASSUME ContractInv, NEW S \in SUBSET Waiting, Circle(S)
  PROVE  \E p \in S : tx[p].op = "delete"
<1> SUFFICES ASSUME \A p \in S : tx[p].op # "delete" PROVE FALSE
  OBVIOUS
<1>1. \A p \in S : p \in Waiting /\ p \in Procs /\ \E q \in S : q \in Blockers(p)
  BY Stage DEF Circle
<1>2. \A p \in S : Table(p) # "document"
  BY <1>1, Blocks, Stage
<1>3. \A p \in S : Table(p) # "contract"
  BY <1>1, <1>2, Blocks, Stage
<1>4. \A p \in S : Table(p) # "chunks"
  BY <1>1, <1>2, <1>3, Blocks, Stage
<1>5. \A p \in S : Table(p) # "job"
  BY <1>1, <1>2, <1>3, <1>4, Blocks, Stage
<1>6. PICK p \in S : TRUE
  BY DEF Circle
<1> QED
  BY <1>2, <1>3, <1>4, <1>5, <1>6, Stage

\* Pages alone wait in the order of their statements.
LEMMA CircleCompletes ==
  ASSUME ContractInv, NEW S \in SUBSET Waiting, Circle(S)
  PROVE  \E p \in S : tx[p].op = "complete"
<1> SUFFICES ASSUME \A p \in S : tx[p].op # "complete" PROVE FALSE
  OBVIOUS
<1>1. \A p \in S : p \in Waiting /\ p \in Procs /\ \E q \in S : q \in Blockers(p)
  BY Stage DEF Circle
<1>2. \A p \in S : Table(p) # "jobs"
  BY <1>1, Blocks, Stage
<1>3. \A p \in S : Table(p) # "chunks"
  BY <1>1, <1>2, Blocks, Stage
<1>4. \A p \in S : Table(p) # "document"
  BY <1>1, <1>2, <1>3, Blocks, Stage
<1>5. \A p \in S : Table(p) # "contract"
  BY <1>1, <1>2, <1>3, <1>4, Blocks, Stage
<1>6. PICK p \in S : TRUE
  BY DEF Circle
<1> QED
  BY <1>2, <1>3, <1>4, <1>5, <1>6, Stage

\* Edits, status changes and confirmations never deadlock, alone or with
\* workers: a circle has a deletion in it, and a worker that completes.
THEOREM DeadlockShapeHolds == Spec => []DeadlockShape
<1>1. ContractInv => DeadlockShape
  BY CircleDeletes, CircleCompletes DEF DeadlockShape
<1> QED
  BY <1>1, ContractInvariant, PTL
=============================================================================
