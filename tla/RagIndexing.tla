---------------------------- MODULE RagIndexing ----------------------------
(***************************************************************************)
(* The contract indexing queue of app/domains/rag.  Confirming or editing  *)
(* a contract enqueues one job per contract version in the transaction     *)
(* that writes the contract (an outbox).  Background tasks and the         *)
(* reconciliation loop claim jobs under a lease, read the contract, build  *)
(* the chunks with no lock held and replace the contract's chunks.         *)
(*                                                                         *)
(* The database is PostgreSQL at READ COMMITTED: each statement sees what  *)
(* was committed when the statement began, and row locks are held until    *)
(* the transaction ends.  A transaction is one action unless another one   *)
(* can come between two of its statements and be told apart.               *)
(***************************************************************************)
EXTENDS Integers, FiniteSetsExt

CONSTANTS
  Contracts,    \* contract identifiers, fresh uuids: one is never reused
  MaxVersion,   \* bound: document versions of one contract
  Workers,      \* sequential executors: background tasks, reconcile loops
  MaxAttempts,  \* settings.rag_index_max_attempts
  StaleAfter,   \* settings.rag_index_stale_after_seconds, in clock ticks
  RetryBase     \* settings.rag_index_retry_base_seconds, in clock ticks

ASSUME RagAssumption ==
  /\ MaxVersion \in Nat \ {0}
  /\ MaxAttempts \in Nat \ {0}
  /\ StaleAfter \in Nat
  /\ RetryBase \in Nat
  /\ \A n \in 0..(MaxAttempts - 1) : 2^n \in Nat   \* for the provers

VARIABLES
  content,  \* contract id -> revision of its committed row, 0 if no row
  born,     \* contract ids handed out so far
  job,      \* <<contract, version>> -> row of rag_index_jobs
  chunks,   \* <<contract, version>> -> the version's rows of document_chunks
  pc,       \* worker -> step of process_next_index_job
  claim,    \* worker -> its ClaimedIndexJob
  source,   \* worker -> revisions read by _load_contract_source
  seen,     \* worker -> versions in the snapshot of the deactivating UPDATE
  now       \* the clock

workerVars == <<pc, claim, source, seen>>
vars == <<content, born, job, chunks, pc, claim, source, seen, now>>

Versions == 1..MaxVersion
Keys     == Contracts \X Versions
Null     == -1          \* SQL NULL in a timestamp column

Row == [status: {"ABSENT", "PENDING", "INDEXING", "INDEXED", "FAILED"},
        attempts: 0..MaxAttempts, locked_at: Nat \cup {Null},
        next_attempt_at: Nat \cup {Null}, created_at: Nat]
NoRow == [status |-> "ABSENT", attempts |-> 0, locked_at |-> Null,
          next_attempt_at |-> Null, created_at |-> 0]

NewRow(created) ==
  [status |-> "PENDING", attempts |-> 0, locked_at |-> Null,
   next_attempt_at |-> Null, created_at |-> created]

\* header and clauses are the contract revisions that the company name and
\* the payments and terms of the chunks were read from.  NoChunks is a version
\* without rows: not indexed, or indexed when nothing gave a text.
Chunks   == [header: Nat, clauses: Nat, active: BOOLEAN]
NoChunks == [header |-> 0, clauses |-> 0, active |-> FALSE]

Steps == {"idle", "claimed", "loading", "built", "replacing", "writing",
          "failing"}
Claim == [key: Keys, attempt: 1..MaxAttempts, locked_at: Nat]
NoClaim  == [key |-> <<>>, attempt |-> 0, locked_at |-> 0]

\* What a worker has read; text tells whether there is anything to index.
Source   == [header: Nat, clauses: Nat, text: BOOLEAN]
NoSource == [header |-> 0, clauses |-> 0, text |-> FALSE]

TypeOK ==
  /\ content \in [Contracts -> 0..MaxVersion]
  /\ born \subseteq Contracts
  /\ job \in [Keys -> Row]
  /\ chunks \in [Keys -> Chunks]
  /\ pc \in [Workers -> Steps]
  /\ claim \in [Workers -> Claim \cup {NoClaim}]
  /\ \A w \in Workers : pc[w] # "idle" => claim[w] \in Claim
  /\ source \in [Workers -> Source]
  /\ seen \in [Workers -> SUBSET Versions]
  /\ now \in Nat

----------------------------------------------------------------------------
(* Guards of the queue *)

ReadyToRetry(row) ==
  /\ row.status \in {"PENDING", "FAILED"}
  /\ row.next_attempt_at = Null \/ row.next_attempt_at <= now

StaleClaim(row) ==
  /\ row.status = "INDEXING"
  /\ row.locked_at = Null \/ row.locked_at < now - StaleAfter

\* The Mutant definitions are slips this code could have had.  No behaviour
\* uses them; each stands for the definition below it in a check that a
\* property notices the difference.
Mutant_LeaseNeverExpires(row) == row.attempts < MaxAttempts /\ ReadyToRetry(row)
Claimable(row) ==
  /\ row.attempts < MaxAttempts
  /\ ReadyToRetry(row) \/ StaleClaim(row)

Mutant_AnyLeaseIsMine(w) == job[claim[w].key].status = "INDEXING"
ClaimIsCurrent(w) ==
  LET row == job[claim[w].key]
  IN  /\ row.status = "INDEXING"
      /\ row.attempts = claim[w].attempt
      /\ row.locked_at = claim[w].locked_at

Backoff(attempts) == RetryBase * 2^(attempts - 1)

Mutant_LeaseUncounted(row) ==
  [row EXCEPT !.status = "INDEXING", !.locked_at = now, !.next_attempt_at = Null]
Lease(row)  == [row EXCEPT !.status = "INDEXING", !.attempts = row.attempts + 1,
                           !.locked_at = now, !.next_attempt_at = Null]
Finish(row) == [row EXCEPT !.status = "INDEXED", !.locked_at = Null,
                           !.next_attempt_at = Null]
Fail(row)   == [row EXCEPT !.status = "FAILED", !.locked_at = Null,
                           !.next_attempt_at = now + Backoff(row.attempts)]

\* Row locks that _complete_job holds between its statements: the job row
\* from the first one on, the chunk rows of its snapshot once updated.
Completing(w) == pc[w] \in {"replacing", "writing"}
JobLocked(k)  == \E w \in Workers : Completing(w) /\ claim[w].key = k
ChunkLocks(w) == IF pc[w] = "writing"
                 THEN {<<claim[w].key[1], v>> : v \in seen[w]} ELSE {}

----------------------------------------------------------------------------
Init ==
  /\ content = [c \in Contracts |-> 0]
  /\ born = {}
  /\ job = [k \in Keys |-> NoRow]
  /\ chunks = [k \in Keys |-> NoChunks]
  /\ pc = [w \in Workers |-> "idle"]
  /\ claim = [w \in Workers |-> NoClaim]
  /\ source = [w \in Workers |-> NoSource]
  /\ seen = [w \in Workers |-> {}]
  /\ now = 0

(* Requests that write a contract and its outbox row in one transaction *)

NextVersion(c) == Max({0} \cup {v \in Versions : job[<<c, v>>].status # "ABSENT"}) + 1

\* An existing row of the version is reset, keeping its created_at.
Enqueue(c, v) ==
  LET row == job[<<c, v>>]
  IN  job' = [job EXCEPT ![<<c, v>>] =
                NewRow(IF row.status = "ABSENT" THEN now ELSE row.created_at)]

Confirm(c) ==
  /\ c \notin born
  /\ born' = born \cup {c}
  /\ content' = [content EXCEPT ![c] = 1]
  /\ Enqueue(c, 1)
  /\ UNCHANGED <<chunks, workerVars, now>>

Update(c) ==
  /\ content[c] \in 1..(MaxVersion - 1)
  /\ content' = [content EXCEPT ![c] = @ + 1]
  /\ Enqueue(c, NextVersion(c))
  /\ UNCHANGED <<born, chunks, workerVars, now>>

\* The jobs go with the contract (ON DELETE CASCADE), so the transaction
\* waits for a worker that holds the lock of one of them.
Delete(c) ==
  /\ content[c] # 0
  /\ \A v \in Versions : ~JobLocked(<<c, v>>)
  /\ content' = [content EXCEPT ![c] = 0]
  /\ job' = [k \in Keys |-> IF k[1] = c THEN NoRow ELSE job[k]]
  /\ chunks' = [k \in Keys |-> IF k[1] = c THEN NoChunks ELSE chunks[k]]
  /\ UNCHANGED <<born, workerVars, now>>

(* process_next_index_job, by worker w *)

Goto(w, step) == pc' = [pc EXCEPT ![w] = step]

\* The call returns; its sessions are closed and its locals are gone.
Return(w) == /\ Goto(w, "idle")
             /\ claim' = [claim EXCEPT ![w] = NoClaim]
             /\ source' = [source EXCEPT ![w] = NoSource]
             /\ seen' = [seen EXCEPT ![w] = {}]

\* FOR UPDATE SKIP LOCKED, oldest row first; uuids break ties either way.
\* scope is one contract for a background task, all for the reconcile loop.
ClaimJob(w, scope) ==
  LET ready == {k \in scope \X Versions : Claimable(job[k]) /\ ~JobLocked(k)}
  IN  /\ pc[w] = "idle"
      /\ \E k \in ready :
           /\ \A x \in ready : job[k].created_at <= job[x].created_at
           /\ job' = [job EXCEPT ![k] = Lease(@)]
           /\ claim' = [claim EXCEPT ![w] =
                [key |-> k, attempt |-> job[k].attempts + 1, locked_at |-> now]]
      /\ Goto(w, "claimed")
      /\ UNCHANGED <<content, born, chunks, source, seen, now>>

\* _load_contract_source reads the contract row in one statement and its
\* payments and terms in later ones (selectinload), each its own snapshot.
LoadContract(w) ==
  /\ pc[w] = "claimed"
  /\ source' = [source EXCEPT ![w].header = content[claim[w].key[1]]]
  /\ Goto(w, IF content[claim[w].key[1]] = 0 THEN "failing" ELSE "loading")
  /\ UNCHANGED <<content, born, job, chunks, claim, seen, now>>

\* _build_index_models adds the text of the PDF.  A PDF that cannot be read is
\* logged and passed over, so with no term and no payment that has a source
\* text there may be nothing to index, in one attempt and not in the next.
LoadClauses(w) ==
  /\ pc[w] = "loading"
  /\ \E text \in BOOLEAN :
       source' = [source EXCEPT ![w].clauses = content[claim[w].key[1]],
                                ![w].text = text]
  /\ Goto(w, "built")
  /\ UNCHANGED <<content, born, job, chunks, claim, seen, now>>

Mutant_ReplaceUnchecked(w) ==
  /\ pc[w] = "built"
  /\ ~JobLocked(claim[w].key)
  /\ seen' = [seen EXCEPT ![w] =
                {v \in Versions : chunks[<<claim[w].key[1], v>>] # NoChunks}]
  /\ Goto(w, "replacing")
  /\ UNCHANGED <<content, born, job, chunks, claim, source, now>>

\* _complete_job locks the job row, checks the claim, and starts the UPDATE
\* whose snapshot holds the contract's chunk rows committed by then.
BeginReplace(w) ==
  LET c == claim[w].key[1]
  IN  /\ pc[w] = "built"
      /\ ~JobLocked(claim[w].key)
      /\ \/ /\ ClaimIsCurrent(w)
            /\ seen' = [seen EXCEPT ![w] =
                          {v \in Versions : chunks[<<c, v>>] # NoChunks}]
            /\ Goto(w, "replacing")
            /\ UNCHANGED <<claim, source>>
         \/ ~ClaimIsCurrent(w) /\ Return(w)
      /\ UNCHANGED <<content, born, job, chunks, now>>

\* The UPDATE waits for every row of its snapshot that another transaction
\* has updated; it does not see the rows that transaction inserted.
LockSeenChunks(w) ==
  /\ pc[w] = "replacing"
  /\ \A x \in Workers \ {w} :
       {<<claim[w].key[1], v>> : v \in seen[w]} \cap ChunkLocks(x) = {}
  /\ Goto(w, "writing")
  /\ UNCHANGED <<content, born, job, chunks, claim, source, seen, now>>

Mutant_LeftActive(ch) == ch
Inactive(ch) == [header |-> ch.header, clauses |-> ch.clauses, active |-> FALSE]

\* The rows that worker w adds for its version; the list may be empty.
Built(w) == IF source[w].text
            THEN [header |-> source[w].header, clauses |-> source[w].clauses,
                  active |-> TRUE]
            ELSE NoChunks

Mutant_NewestOnlyActive(w) ==
  LET k == claim[w].key
  IN  chunks' = [x \in Keys |->
        IF x = k THEN IF k[2] = content[k[1]] THEN Built(w) ELSE Inactive(Built(w))
        ELSE IF x[1] = k[1] /\ x[2] \in seen[w]
             THEN Inactive(chunks[x])
             ELSE chunks[x]]

\* Also with nothing to add, the contract's other versions turn inactive.
ReplaceContractChunks(w) ==
  LET k == claim[w].key
  IN  chunks' = [x \in Keys |->
        IF x = k THEN Built(w)
        ELSE IF x[1] = k[1] /\ x[2] \in seen[w]
             THEN Inactive(chunks[x])
             ELSE chunks[x]]

\* The commit: INDEXED, with or without chunks.  Its answer may be lost, then
\* the worker goes on to _record_failure, which finds its claim not current.
CompleteJob(w) ==
  /\ pc[w] = "writing"
  /\ ReplaceContractChunks(w)
  /\ job' = [job EXCEPT ![claim[w].key] = Finish(@)]
  /\ \/ Return(w)
     \/ Goto(w, "failing") /\ UNCHANGED <<claim, source, seen>>
  /\ UNCHANGED <<content, born, now>>

\* The embedding provider or the database fails, and an open transaction rolls
\* back.  Storage and PDF errors do not come here: see LoadClauses.
IndexingFails(w) ==
  /\ pc[w] \notin {"idle", "failing"}
  /\ Goto(w, "failing")
  /\ UNCHANGED <<content, born, job, chunks, claim, source, seen, now>>

Mutant_RecordUnchecked(w) ==
  /\ pc[w] = "failing"
  /\ ~JobLocked(claim[w].key)
  /\ job' = [job EXCEPT ![claim[w].key] =
               IF @.status = "ABSENT" THEN @ ELSE [@ EXCEPT !.status = "FAILED"]]
  /\ Return(w)
  /\ UNCHANGED <<content, born, chunks, now>>

\* A contract that is gone takes its jobs with it, so the branch of the code
\* that exhausts the attempts of a job without a contract finds no row.
RecordFailure(w) ==
  LET k == claim[w].key
  IN  /\ pc[w] = "failing"
      /\ ~JobLocked(k)
      /\ \/ /\ ClaimIsCurrent(w)
            /\ job' = [job EXCEPT ![k] = Fail(@)]
         \/ ~ClaimIsCurrent(w) /\ UNCHANGED job
      /\ Return(w)
      /\ UNCHANGED <<content, born, chunks, now>>

\* The process dies, or _record_failure itself fails: the lease stays.
Crash(w) ==
  /\ pc[w] # "idle"
  /\ Return(w)
  /\ UNCHANGED <<content, born, job, chunks, now>>

\* Time that no lease and no backoff is waiting for changes no guard.
Tick ==
  /\ \E k \in Keys :
       \/ job[k].status = "INDEXING" /\ job[k].locked_at >= now - StaleAfter
       \/ job[k].status = "FAILED" /\ job[k].next_attempt_at > now
  /\ now' = now + 1
  /\ UNCHANGED <<content, born, job, chunks, workerVars>>

ProcessNextIndexJob(w) ==
  \/ ClaimJob(w, Contracts)
  \/ LoadContract(w)
  \/ LoadClauses(w)
  \/ BeginReplace(w)
  \/ LockSeenChunks(w)
  \/ CompleteJob(w)
  \/ RecordFailure(w)

Next ==
  \/ \E c \in Contracts : Confirm(c) \/ Update(c) \/ Delete(c)
  \/ \E w \in Workers :
       \/ \E c \in Contracts : ClaimJob(w, {c})
       \/ ProcessNextIndexJob(w)
       \/ IndexingFails(w)
       \/ Crash(w)
  \/ Tick

Spec == Init /\ [][Next]_vars

\* The reconcile loop survives every exception and runs as long as the
\* process; a process that dies is restarted (Crash leaves w able to claim).
FairSpec == /\ Spec
            /\ \A w \in Workers : WF_vars(ProcessNextIndexJob(w))
            /\ WF_vars(Tick)

----------------------------------------------------------------------------
(* Properties *)

\* Of all the workers that hold a claim on one job, however late they are,
\* at most one still passes the check of _complete_job and _record_failure:
\* no two attempts can both write the outcome of a job.
LeaseExclusive ==
  \A w, x \in Workers :
    /\ w # x /\ pc[w] # "idle" /\ pc[x] # "idle"
    /\ claim[w].key = claim[x].key /\ ClaimIsCurrent(w)
    => ~ClaimIsCurrent(x)

\* Only a version whose job is INDEXED has chunks: none are left behind by a
\* worker that finishes after its lease was taken over, or after the contract,
\* and with it its jobs, was deleted.
ChunksOnlyIndexed ==
  \A k \in Keys : chunks[k] # NoChunks => job[k].status = "INDEXED"

\* The outbox loses nothing and invents nothing: a contract has exactly one
\* job for each revision it went through, and none once it is deleted.
JobPerRevision ==
  \A c \in Contracts :
    {v \in Versions : job[<<c, v>>].status # "ABSENT"} = 1..content[c]

\* The chunks of version v are never older than revision v, and those of the
\* version that is still the contract's newest come from that revision only,
\* although the source is read in two statements with no lock held.
NeverOlderThanVersion ==
  \A c \in Contracts, v \in Versions :
    chunks[<<c, v>>] # NoChunks =>
      /\ chunks[<<c, v>>].header \in v..content[c]
      /\ chunks[<<c, v>>].clauses \in v..content[c]

\* A contract that search can find stays findable, however the replacing
\* workers interleave, until it is deleted or a version of it is INDEXED whose
\* source gave no text: that one takes the older text out and adds none.
Searchable(c) == {v \in Versions : chunks[<<c, v>>].active}
BecomesEmpty(k) == /\ job[k].status # "INDEXED" /\ job'[k].status = "INDEXED"
                   /\ chunks'[k] = NoChunks
StaysSearchable ==
  [][\A c \in Contracts :
       Searchable(c) # {} =>
         \/ Searchable(c)' # {} \/ content'[c] = 0
         \/ \E v \in Versions : BecomesEmpty(<<c, v>>)]_vars

\* What the safety properties above rest on.  A live claim names a version
\* its contract has reached, counts no more attempts than the job row, and
\* shares its attempt number with no other live claim on that job.
ClaimsNumbered ==
  \A w \in Workers : pc[w] # "idle" =>
    LET k == claim[w].key
    IN  /\ k[1] \in born
        /\ content[k[1]] = 0 \/ k[2] <= content[k[1]]
        /\ job[k].status # "ABSENT" => claim[w].attempt <= job[k].attempts
        /\ \A x \in Workers :
             /\ pc[x] # "idle"
             /\ claim[x].key = k /\ claim[x].attempt = claim[w].attempt
             => x = w

\* A worker that holds the job's row lock still owns the job.
LockedIsCurrent == \A w \in Workers : Completing(w) => ClaimIsCurrent(w)

\* What a worker has read of a contract that still exists is no older than
\* the version it is indexing.
SourceFresh ==
  \A w \in Workers :
    LET k == claim[w].key
    IN  /\ pc[w] \in {"loading", "built", "replacing", "writing"} =>
             content[k[1]] = 0 \/ source[w].header \in k[2]..content[k[1]]
        /\ pc[w] \in {"built", "replacing", "writing"} =>
             content[k[1]] = 0 \/ source[w].clauses \in k[2]..content[k[1]]

LiveIsBorn == \A c \in Contracts : content[c] # 0 => c \in born

IInv ==
  /\ TypeOK
  /\ LiveIsBorn
  /\ JobPerRevision
  /\ ClaimsNumbered
  /\ LockedIsCurrent
  /\ SourceFresh
  /\ ChunksOnlyIndexed
  /\ NeverOlderThanVersion

\* docs/14_RAG_GUIDE.md:34-35: old chunks turn inactive when a new version is
\* stored, so two versions are never searched at the same time.
OneVersionSearchable ==
  \A c \in Contracts : \A v, x \in Searchable(c) : v = x

\* docs/06_ERD.md, document_chunks.active: the version that can be searched
\* is the current one, that is, no older than any version indexed so far.
NewestIndexedIsActive ==
  \A c \in Contracts : \A v \in Searchable(c), x \in Versions :
    job[<<c, x>>].status = "INDEXED" => x <= v

\* A job that waits is processed: it ends INDEXED, or all its attempts are
\* spent, or its contract is deleted.
JobSettles ==
  \A k \in Keys : job[k].status = "PENDING" ~>
    \/ job[k].status \in {"INDEXED", "ABSENT"}
    \/ job[k].attempts = MaxAttempts

\* docs/14_RAG_GUIDE.md:31-32: the reconcile loop keeps recovering INDEXING
\* jobs whose lease has expired.
StaleLeaseRecovered ==
  \A k \in Keys : StaleClaim(job[k]) ~> ~StaleClaim(job[k])
=============================================================================
