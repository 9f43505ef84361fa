---------------------------- MODULE KnowledgeBase ----------------------------
(***************************************************************************)
(* The curated knowledge the chat searches besides contracts, and the      *)
(* three programs that write it: the seed ingestion at the start of every  *)
(* worker of the server, the command that does the same by hand            *)
(* (ai/rag/ingest_seed.py), and the command that loads a knowledge file    *)
(* (domains/rag/ingest.py).  Each reads the rows there are, waits for the  *)
(* embeddings, and writes what differs in the same transaction; only the   *)
(* first takes a lock.                                                     *)
(*                                                                         *)
(* Several deployments of the program can be up at once, each with its own *)
(* files.  A text stands for the hash of the text that is embedded.  The   *)
(* type of a row is its knowledge type and, for a seed, its dataset: each  *)
(* dataset has one.  Left out: two datasets more, read and written one     *)
(* after the other (here all are read at once, before the embeddings),     *)
(* and what a record says besides its text.                                *)
(***************************************************************************)
EXTENDS Integers, FiniteSets

CONSTANTS
  None,
  Runs,        \* runs of the three programs, each once
  Programs,    \* a function: what a run may be, with its files and arguments
  Models,      \* embedding models
  Configured   \* the model of the settings

\* A record is named with its dataset, of which its vector id has the type.
ASSUME KnowledgeAssumption ==
  /\ Configured \in Models
  /\ None \notin Runs \cup DOMAIN Programs
  /\ \A x \in DOMAIN Programs : LET c == Programs[x] IN
       /\ c.op \in {"startup", "manual", "file"} /\ c.model \in Models /\ c.sync \in BOOLEAN
       /\ c.op = "startup" => ~c.sync
       /\ c.op = "file" => c.records = {}
       /\ c.op # "manual" => c.model = Configured
       /\ \A r \in c.records : r.record # None /\ r.enabled \in BOOLEAN
       /\ \A r, s \in c.records : r.record = s.record => r = s
  /\ \A x, y \in DOMAIN Programs :
       \A r \in Programs[x].records, s \in Programs[y].records :
         r.record = s.record => r.type = s.type

VARIABLES
  plan,   \* "configured", "seeded" or None: the id of the active wedding plan
  rows,   \* document_chunks without a contract
  lock,   \* who holds the advisory lock of the seed ingestion
  run,    \* what run n does and knows
  last    \* the latest commit: what it did, whether nobody else committed
          \* since it read, and whether all runs so far were startups (history)

vars == <<plan, rows, lock, run, last>>

New == [at |-> "new", does |-> None, seen |-> {}, byRecord |-> {}, disturbed |-> FALSE]

Init ==
  /\ plan = None /\ rows = {} /\ lock = None
  /\ run = [n \in Runs |-> New]
  /\ last = [does |-> None, alone |-> TRUE, startups |-> TRUE]

SetUpPlan ==
  /\ plan = None
  /\ plan' \in {"configured", "seeded"}
  /\ UNCHANGED <<rows, lock, run, last>>

\* Each worker of the server starts once, while others may be starting too.
Start(n, x) ==
  /\ run[n].at = "new"
  /\ run' = [run EXCEPT ![n] = [New EXCEPT
               !.does = x, !.at = IF Programs[x].op = "startup" THEN "lock" ELSE "read"]]
  /\ last' = [last EXCEPT !.startups = @ /\ Programs[x].op = "startup"]
  /\ UNCHANGED <<plan, rows, lock>>

----------------------------------------------------------------------------
(* Reading *)

\* Mutant definitions are slips this code could have had; no behaviour uses
\* them, each stands for the definition below it to show a property notices.
Mutant_NoLock(n) ==
  /\ run[n].at = "lock"
  /\ run' = [run EXCEPT ![n].at = "read"]
  /\ UNCHANGED <<plan, rows, lock, last>>

Lock(n) ==
  /\ run[n].at = "lock" /\ lock = None
  /\ lock' = n
  /\ run' = [run EXCEPT ![n].at = "read"]
  /\ UNCHANGED <<plan, rows, last>>

Does(n) == Programs[run[n].does]

\* Clauses need a plan: at a start the configured or else the active one, by
\* hand the configured one only.
PlanMissing(n) ==
  /\ \E r \in Does(n).records : r.type = "clauses"
  /\ IF Does(n).op = "startup" THEN plan = None ELSE plan # "configured"

\* The datasets a program reads, those of its records, or the type of its file.
Types(c) == IF c.op = "file" THEN {"faq"} ELSE {r.type : r \in c.records}

Mutant_AllRows(n) == {row \in rows : Does(n).op = "file" => row.type \in Types(Does(n))}

\* The rows a program goes by: the seeds of its datasets, or all of its type.
Existing(n) ==
  {row \in rows : row.type \in Types(Does(n)) /\ (Does(n).op = "file" \/ row.record # None)}

Mutant_KeepLock(n, at) ==
  /\ run' = [run EXCEPT ![n] = [New EXCEPT !.at = at]]
  /\ UNCHANGED lock

\* The transaction ends, and with it the lock.
Finish(n, at) ==
  /\ run' = [m \in Runs |->
               IF m = n THEN [New EXCEPT !.at = at]
               ELSE [run[m] EXCEPT !.disturbed = @ \/ (at = "done" /\ run[m].at = "write")]]
  /\ lock' = IF lock = n THEN None ELSE lock

\* Of two rows of one record, either may be the one that is found by it.
OnePerRecord(seen) ==
  {s \in SUBSET {row \in seen : row.record # None} :
     /\ \A p, q \in s : p.record = q.record => p = q
     /\ {row.record : row \in s} = {row.record : row \in seen} \ {None}}

Read(n) ==
  /\ run[n].at = "read"
  /\ \/ /\ PlanMissing(n)
        /\ Finish(n, "failed")
     \/ /\ ~PlanMissing(n)
        /\ \E seen \in {Existing(n)} : \E byRecord \in OnePerRecord(seen) :
             run' = [run EXCEPT ![n] = [@ EXCEPT
                       !.seen = seen, !.byRecord = byRecord, !.at = "write"]]
        /\ UNCHANGED lock
  /\ UNCHANGED <<plan, rows, last>>

----------------------------------------------------------------------------
(* Writing *)

VectorId(r) == <<r.record, r.version>>

\* The row that is to become record r, if there is one: by its version first.
Current(n, r) ==
  LET same == {row \in run[n].seen : row.chunk = VectorId(r)}
  IN  IF same # {} THEN same
      ELSE {row \in run[n].byRecord : row.record = r.record}

RowOf(r, id, model) ==
  [id |-> id, chunk |-> VectorId(r), record |-> r.record, type |-> r.type,
   text |-> r.text, model |-> model, active |-> r.enabled]

Mutant_SameVersion(n, r, row) == row.chunk = VectorId(r) /\ row.model = Does(n).model

\* Nothing to embed.
Unchanged(n, r, row) ==
  row.chunk = VectorId(r) /\ row.text = r.text /\ row.model = Does(n).model

\* What a run makes of record r.  An unchanged row is written too: a record
\* can be disabled, or enabled again, without a new version.
Wanted(n, r) ==
  IF Current(n, r) = {} THEN {RowOf(r, <<n, r.record>>, Does(n).model)}
  ELSE {IF Unchanged(n, r, row) THEN [row EXCEPT !.active = r.enabled]
        ELSE RowOf(r, row.id, Does(n).model) : row \in Current(n, r)}

Piece(n, p) ==
  [id |-> <<n, p>>, chunk |-> <<p, 0>>, record |-> None, type |-> "faq",
   text |-> p, model |-> Configured, active |-> TRUE]

Puts(n) ==
  IF Does(n).op = "file"
  THEN {piece \in {Piece(n, p) : p \in Does(n).pieces} :
          \A row \in run[n].seen : row.chunk # piece.chunk}
  ELSE UNION {Wanted(n, r) : r \in Does(n).records}

Mutant_StaleByRead(n) ==
  IF ~Does(n).sync THEN {}
  ELSE {row.id : row \in {q \in run[n].seen : \A r \in Does(n).records : q.chunk # VectorId(r)}}

\* Rows to delete, among those read.  The seed programs delete by id what no
\* record became; the file's command deletes by chunk_id what is no piece of
\* its file, seeds as well.
Deletes(n) ==
  IF Does(n).op = "file"
  THEN LET stale == {row.chunk : row \in run[n].seen} \ {<<p, 0>> : p \in Does(n).pieces}
       IN  {row.id : row \in {q \in rows : q.chunk \in stale}}
  ELSE IF Does(n).sync THEN {row.id : row \in run[n].seen} \ {p.id : p \in Puts(n)}
  ELSE {}

\* A row that is as wanted is not written.
Written(n) == Puts(n) \ run[n].seen

\* An update sets the columns that differ from what was read.
Column(read, wanted, now) == IF wanted = read THEN now ELSE wanted

Update(row, read, wanted) ==
  [row EXCEPT !.chunk  = Column(read.chunk, wanted.chunk, @),
              !.text   = Column(read.text, wanted.text, @),
              !.model  = Column(read.model, wanted.model, @),
              !.active = Column(read.active, wanted.active, @)]

Updated(n, p) ==
  {Update(row, q, p) : row \in {r \in rows : r.id = p.id}, q \in {r \in run[n].seen : r.id = p.id}}

After(n) ==
  {row \in rows : row.id \notin Deletes(n) \cup {p.id : p \in Written(n)}}
    \cup {p \in Written(n) : \A q \in run[n].seen : q.id # p.id}
    \cup UNION {Updated(n, p) : p \in Written(n)}

\* A row to update is gone, or two rows would have one chunk_id.
Clash(n) ==
  \/ \E p \in Written(n), q \in run[n].seen : p.id = q.id /\ \A row \in rows : row.id # p.id
  \/ \E after \in {After(n)} : \E p, q \in after : p # q /\ p.chunk = q.chunk

Write(n) ==
  /\ run[n].at = "write"
  /\ \/ /\ Clash(n)
        /\ Finish(n, "failed")
        /\ UNCHANGED <<rows, last>>
     \/ /\ ~Clash(n)
        /\ rows' = After(n)
        /\ last' = [last EXCEPT !.does = run[n].does, !.alone = ~run[n].disturbed]
        /\ Finish(n, "done")
  /\ UNCHANGED plan

\* A file, the embeddings or the database fail, or the process ends.
Fail(n) ==
  /\ run[n].at \in {"lock", "read", "write"}
  /\ Finish(n, "failed")
  /\ UNCHANGED <<plan, rows, last>>

Next ==
  \/ SetUpPlan
  \/ \E n \in Runs :
       \/ \E x \in DOMAIN Programs : Start(n, x)
       \/ Lock(n) \/ Read(n) \/ Write(n) \/ Fail(n)

Spec == Init /\ [][Next]_vars

----------------------------------------------------------------------------
(* Properties *)

\* RagRepository.search: active rows, with vectors of the configured model.
Searchable == {row \in rows : row.active /\ row.model = Configured}

Records == UNION {Programs[x].records : x \in DOMAIN Programs}
Pieces == UNION {Programs[x].pieces : x \in DOMAIN Programs}
Names == {r.record : r \in Records} \cup Pieces
Rows ==
  [id : Runs \X Names, chunk : Names \X ({0} \cup {r.version : r \in Records}),
   record : {r.record : r \in Records} \cup {None}, type : {r.type : r \in Records} \cup {"faq"},
   text : {r.text : r \in Records} \cup Pieces, model : Models, active : BOOLEAN]

RunStates ==
  [at : {"new", "lock", "read", "write", "done", "failed"}, does : DOMAIN Programs \cup {None},
   seen : SUBSET Rows, byRecord : SUBSET Rows, disturbed : BOOLEAN]

TypeOK ==
  /\ plan \in {None, "configured", "seeded"}
  /\ lock \in Runs \cup {None}
  /\ rows \subseteq Rows
  /\ run \in [Runs -> RunStates]
  /\ last \in [does : DOMAIN Programs \cup {None}, alone : BOOLEAN, startups : BOOLEAN]

\* Rows have one identity and one chunk_id each.  Their ids come from runs
\* that have ended, and their chunk_id says whose they are.
Sound(set) ==
  /\ \A p, q \in set : p.id = q.id \/ p.chunk = q.chunk => p = q
  /\ \A row \in set :
       /\ run[row.id[1]].at = "done"
       /\ row.record # None =>
            /\ row.chunk[1] = row.record
            /\ \E r \in Records : r.record = row.record /\ r.type = row.type

Under(n) == run[n].at \in {"lock", "read", "write"}

\* Exactly the one start that is between its lock and its end holds the lock.
Locked(n) ==
  /\ Under(n) => run[n].does # None
  /\ run[n].at = "lock" => Does(n).op = "startup"
  /\ lock = n <=> run[n].at \in {"read", "write"} /\ Does(n).op = "startup"

\* What a run has read is what is there, or somebody has committed since; and
\* no row becomes another record's.
Knows(n) ==
  run[n].at = "write" =>
    /\ Sound(run[n].seen)
    /\ \A row \in run[n].seen :
         /\ row.type \in Types(Does(n)) /\ (Does(n).op = "file" \/ row.record # None)
         /\ \A q \in rows : q.id = row.id => q.record = row.record /\ q.type = row.type
    /\ run[n].byRecord \in OnePerRecord(run[n].seen)
    /\ run[n].disturbed \/ run[n].seen = Existing(n)

\* While nothing but starts has run they go one after the other, and a record
\* has one row.
OnlyStarts ==
  /\ \A n \in Runs : ~run[n].disturbed /\ (Under(n) => Does(n).op = "startup")
  /\ \A row \in rows : row.record # None
  /\ \A p, q \in rows : p.record = q.record => p = q

\* Type invariant, and: rows are sound, nobody keeps the lock who has ended,
\* a run writes by what it read of rows that keep their records, and starts
\* alone never make a second row of a record.
KnowledgeInv ==
  /\ TypeOK
  /\ Sound(rows)
  /\ \A n \in Runs : Locked(n) /\ Knows(n)
  /\ last.startups => OnlyStarts

LastDoes == Programs[last.does]

\* Servers that start together, of one deployment or of two, do not disturb
\* each other: while nothing but starts has run, each has the rows to itself,
\* and the chat searches for a record what the latest start has, if that
\* enables it (ingest_configured_seed).
StartupsAgree ==
  (last.does # None /\ last.startups) =>
    /\ last.alone
    /\ \A r \in LastDoes.records :
         {row.text : row \in {q \in Searchable : q.record = r.record}} =
         IF r.enabled THEN {r.text} ELSE {}

\* A seed run that had the rows to itself leaves every record of its datasets
\* as its file has it: a corrected text without a new version, a new version,
\* another model and a record disabled are all noticed (ingest_records).
SeedComplete ==
  (last.does # None /\ last.alone) =>
    \A r \in LastDoes.records :
      \E row \in rows : row = RowOf(r, row.id, LastDoes.model)

\* With --sync it leaves nothing else in its datasets, and the file's command
\* leaves nothing of its type but its pieces.
SyncExact ==
  (last.does # None /\ last.alone /\ (LastDoes.op = "file" \/ LastDoes.sync)) =>
    LET mine == {row \in rows : row.type \in Types(LastDoes)}
    IN  IF LastDoes.op = "file"
        THEN {row.chunk : row \in mine} = {<<p, 0>> : p \in LastDoes.pieces}
        ELSE {row.chunk : row \in {q \in mine : q.record # None}} =
             {VectorId(r) : r \in LastDoes.records}

\* No seed run touches what the file brought or what another dataset brought
\* ("does not touch user contract chunks or another Dataset",
\* docs/14_RAG_GUIDE.md).
OthersKept ==
  [][\A n \in Runs :
       run[n].at = "write" /\ run'[n].at = "done" /\ Does(n).op # "file" =>
         \A row \in rows \cup rows' :
           row.record = None \/ row.type \notin Types(Does(n)) => row \in rows \cap rows']_vars
=============================================================================
