# MAIRRY in TLA+

MAIRRY reads a couple's wedding contracts, keeps the money they owe in one plan
and answers questions about it. A FastAPI backend (`src/backend`) stores
everything in PostgreSQL, keeps the uploaded files in MinIO and calls a language
model; a Next.js frontend (`src/frontend`) talks to it over REST. This directory
holds models of its stateful parts, the instances TLC checks, and proofs TLAPS
checks. Paths below are relative to `src/backend/app` unless they say otherwise.

## The system

One process serves the API. It runs request handlers in a thread pool, runs the
background tasks of FastAPI after a response, and runs one reconcile loop
(`main.py:lifespan`). Several such processes may share the database. Nothing but the
database and the object storage survives a restart. Every service opens one
SQLAlchemy session, usually one transaction, at PostgreSQL's default isolation,
READ COMMITTED; the row locks and the one advisory lock are taken explicitly.

| component | state | operations | what makes it correct |
|---|---|---|---|
| documents (`domains/documents`) | a row per file with status, extraction, error; the file in MinIO | upload, analyze (starts a background task), detail, preview | the status follows `transitions.py`; one analysis at a time; an analysis that ends leaves either a result or an error |
| extraction (`ai/document_extraction`, `ai/providers`) | none | one model call with a timeout of 45 s, a demo fallback, parsing of amounts and dates | an exception, a live result or a fallback result, never a guess |
| contracts (`domains/contracts`) | a contract per confirmed document, payments, cancellation terms | confirm, replace, delete, set a payment's status | CONFIRMED iff a contract exists; a replacement is all or nothing; deletion undoes confirmation |
| rag indexing (`domains/rag`) | an outbox of jobs, chunks with an `active` flag | enqueue (inside confirm and replace), claim, complete, fail; a task per request and a reconcile loop | a job's outcome is written by one attempt; chunks belong to a finished job; one version is searchable; a contract stays searchable while it has text; a job that waits is processed |
| rag ingest (`domains/rag/ingest.py`, `ai/rag`) | chunks of the curated knowledge | ingest the seeds at every start or by hand, ingest a knowledge file | afterwards the rows are those of the files; programs that run together agree; no other dataset is touched |
| wedding plan (`domains/wedding_plan`) | the plan, its member, its assets | upsert under an advisory lock, read | one active plan per user, with one asset; a second writer does not fail |
| auth and users (`domains/auth`, `domains/users`) | the demo user | login inserts the user if absent | one demo user |
| finance (`domains/finance`) | none | summary, simulation, upcoming payments | a simulation is the summary minus the expense; sums of unpaid payments |
| chat (`domains/chat`) | conversations and messages, each answer with the contract it was about | begin a turn, answer, complete | a turn is stored whole or not at all; the next turn continues from the last answer |
| chat orchestration (`application/chat_orchestration.py`, `domains/chat/tools.py`) | none of its own | route, resolve the contract, call a tool, retrieve, generate | an answer is about one contract, the one asked about; tool failures are told, not guessed around |
| demo seed (`application/demo_seed.py`) | none of its own | rebuild the demo plan | repeatable over whatever the user did |
| object storage (`integrations/storage`) | files | put, get, presign | (external) |
| frontend (`src/frontend/src/domains`) | pages: polling, a form under review, one question in flight | load, analyse, poll, retry, confirm, leave | a page never waits for ever, shows a result that is there, and starts no analysis nobody asked for |

How they interact: confirm and replace write the contract and enqueue an index
job in one transaction, then schedule a background task for it; the worker reads the
contract back without a lock. Deleting a contract deletes its chunks and (ON DELETE
CASCADE) its jobs, and returns its document to the state before confirmation. Every
request first looks up the user's plan and sees only that plan's rows. Chat reads
contracts, finance and active chunks in its own transaction.

What is hard: workers, requests and deletions meet at a contract with no common
lock; leases expire under slow workers; a commit may take effect and yet raise; a
restart drops every task; READ COMMITTED statements see different snapshots in one
transaction. `PROJECT.json` lists these hazards at their lines.

## Modules

| module | what it is |
|---|---|
| `RagIndexing`, `MCRagIndexing`, `RagIndexingProofs` | the index queue, its workers, and the contract requests as the queue sees them |
| `DocumentStatus` | the abstract document: a transition table, and deletion as the undo of confirmation |
| `DocumentLifecycle`, `MCDocumentLifecycle`, `DocumentLifecycleProofs` | documents, analysis tasks and contracts; implements `DocumentStatus` |
| `ContractStore` | the abstract contract: every request one step |
| `ContractRequests`, `MCContractRequests`, `ContractRequestsProofs` | the requests on a contract as transactions with row locks; implements `ContractStore` |
| `PlanSetup`, `MCPlanSetup`, `PlanSetupProofs` | the demo user, the plan and the demo data: login, PUT, GET, seed, upload |
| `KnowledgeBase`, `MCKnowledgeBase`, `KnowledgeBaseProofs` | the curated knowledge and the three programs that write it |
| `ChatTurn`, `MCChatTurn`, `ChatTurnProofs` | the turns of conversations: what they read, store and carry on |
| `QuestionRouting` | how a question is understood: classification, route, rewriting |
| `ChatOrchestration`, `MCChatOrchestration`, `ChatOrchestrationProofs` | how one turn finds its answer; extends `QuestionRouting` |
| `ReviewPage`, `MCReviewPage`, `ReviewPageProofs` | the upload flow and the review pages of a document in the browser |

How they fit together: `ContractRequests` justifies that `RagIndexing` and
`DocumentLifecycle` take confirm, replace and delete as one step each. `RagIndexing`
has what `ContractRequests` leaves out (claims, leases, versions and the search), so a
worker there is only its last transaction. `ChatTurn` has what overlapping turns do to a
conversation, `ChatOrchestration` what one turn does inside. `PlanSetup` explains how the
plan of `DocumentLifecycle` and `KnowledgeBase` appears. `ReviewPage` drives the
transitions of `DocumentStatus` from the browser.

An `MC...` module gives the constants of the instances, a `...Proofs` module holds the
theorems about its component. Definitions called `Mutant_...` are slips the code could have had. No behaviour uses
them: each stands in for the definition below it to show that a property would notice.

### RagIndexing

`content` is a contract's current revision, `job` the rows of `rag_index_jobs` by
(contract, version), `chunks` the rows of `document_chunks` of a version, reduced to
the revisions they were read from and `active`. `pc`, `claim`, `source` and `seen` are
the locals of one call of `process_next_index_job`. Each transaction is one action,
save for the two places where another transaction can be told apart between its
statements: reading the contract (`LoadContract`, then `LoadClauses`, as
`selectinload` does), and replacing the chunks (`BeginReplace` takes the job's row
lock and the snapshot of the deactivating UPDATE, `LockSeenChunks` waits for the
row locks of other updates, `CompleteJob` inserts and commits). An UPDATE does not see
rows that were committed after it began; that is the whole difference between one
worker and two. `Crash` also covers `_record_failure` failing; the lost acknowledgement
of a commit is the second branch of `CompleteJob`. `ClaimJob` has the
scope of a background task (one contract) or of the reconcile loop (all).

Time is a clock that ticks only while a lease or a backoff is waiting: any other tick
changes no guard, and the state space stays finite. `locked_at` is the claim's own
clock reading, as in the code.

Whether there is anything to index is chosen at `LoadClauses`: a PDF that cannot be read is
logged and passed over (`domains/rag/service.py:151-159`), and a contract may have no term and no
payment with a source text. `Built` is then no rows at all; the job still becomes INDEXED and the
older versions inactive (`tests/unit/test_rag_index_jobs.py:133-155` has such a job). Failures of
the embedding provider and of the database are `IndexingFails`.

Left out: the text of chunks and with it the UNIQUE `chunk_id` (see the hazards). Deletion is
one action, so the deadlock between it and a completing worker is in `ContractRequests`, and so
is the transaction that an edit is (here contract and job cannot part).

### DocumentLifecycle

`status`, `raw`, `origin`, `failed` and `owner` are columns of `documents`; `contract` is the
row of `contracts` that refers to the document, reduced to whether it carries evidence;
`task` is the step of each background task. Requests are one action each since they hold
the document's row lock to their commit. The task reads the document once, analyses
with no lock, and writes without reading again. `AmbiguousCommit` lets the commit of
`_store_result` take effect and raise: `process` then goes on to `_mark_failed`. `Restart`
drops every task and every upload in flight. `plan` appears at most once, under the
configured id or under the seed's; documents uploaded before it keep the configured id
and may become invisible.

Documents are those that users upload. The two that the demo seed creates with its contracts
(`application/demo_seed.py:199-218`) begin CONFIRMED, with no extraction, no error and no stored
file, and a seed that runs again writes those values over whatever a task is doing with them.
What the module says of a document's file and error is not true of these; see the list of
disagreements. `PlanSetup` has what the seed does to their contracts.

`DocumentStatus` is refined by the mapping `from <- From`: the code does not store which
status a contract was confirmed from, `extraction_raw` tells it.

### ChatTurn

A turn is one request and one transaction. `Open` is the lookup of the plan, which starts
the transaction and so fixes `at`, the `created_at` of both its messages; `Begin` is the
read of the recent messages, `Complete` the commit of question and answer, `Fail` every
exception after the start. `rows` are the committed messages; a question that is only
flushed is seen by its own transaction alone, which does not read again, so it is not in
the state. `first` is the role whose message drew the smaller uuid. A context is reduced
to the turn that found the contract (`ref`) and the turn that made the calculation
(`calc`); document and vendor of a context can differ from its contract, which is left to
`ChatOrchestration`. `Serial` names the conversations whose client waits for an answer before
it asks again. The page does while it is open; it keeps the conversation's
id in the browser's storage and aborts only its own side of a request, so two tabs, or
leaving the page and asking again, are not serial.

### ContractStore and ContractRequests

`ContractRequests` has one document and its contract, payments, index jobs and chunks.
A confirmation or an edit is a number, which stands for the ids it hands out. A request is
the list of tables its statements touch (`Statements`), in the order of the code; each
statement takes its row locks at once (`Execute`), or waits (`Blockers`), or finds nothing
and is refused. `Commit...` applies it. A reading request locks nothing. A worker's
transaction meets the contract and the document as foreign keys of the chunks it inserts,
which PostgreSQL locks FOR KEY SHARE. `Victim` is PostgreSQL's deadlock detection.
`Collides` says when a constraint, or a row that an UPDATE expected and did not find, would
fail the commit; `NoCollision` says that this never happens. Pages know a contract only from
the last answer they got (`shown`), so edits and status changes may be stale.

`Atomic` maps the variables by their names: what is committed follows `ContractStore`.

### PlanSetup

Every request starts with the login (look up, insert that skips on a conflict, look up);
PUT and the seed then lock the user, read the plan and write. Ids are `"configured"` and
`"seeded"`, the two the code has. `assets` is the table in the order of creation. `demo` is
what became of each of the seed's contracts. `Break` is any exception or a broken connection.

### KnowledgeBase

A row of `document_chunks` without a contract is a record with its `chunk_id` (record and
version, or a file's piece), text, model and `active`. A run reads (`Read`), waits for its
embeddings, and writes what differs (`Write`); a start of the server first takes the advisory
lock. Of several rows of one record the dictionary of the code keeps one, in an
order the database does not promise (`OnePerRecord`). A row is updated column by column, in
those that differ from what was read (`Update`), as the session does it: two runs that overlap
may each leave some of theirs. `Clash` is the unique `chunk_id`, or an
update of a row that is gone. `MCPrograms` lists the runs TLC tries: three deployments'
starts, manual runs with and without `--sync` and with another model, and two knowledge files.

### QuestionRouting and ChatOrchestration

A question is the set of words that some list of the code tells apart, the companies it
names and the number of its amounts; `ClassifyMessage`, `ClassifyRagRoute` and
`RewriteQuestion` keep the order of the code's tests. A word stands for the tokens that the tests
treat alike: "then" (그럼) goes on from a calculation and joins the message before, "still" (그래도)
does only the first, "later" (다음 달, 그때) only the second. `pc` is the node of the graph, `turn`
the `ChatState`, `context` what is stored of the conversation, `row` the contracts that other
requests confirm and delete between any two statements. The provider may decide anything its
schema allows; a tool may return any part of its scope. An aborted transaction
(`aborted`) goes on to the end of the graph and is lost there. `Gathered` relates what the
nodes have found to what the turn could know, `Meant` says which contract a question means.

### ReviewPage

The server is the document's status; `call` holds each page's requests under way, which are
served, answered or lost in any order. `page[p].waited` is the time since the effect ran, in
polls. A page that was left has dropped its loading and its retry (`Dropped`), but its requests
still arrive, and the answer of its confirmation still takes the user to the contract, since
`handleSubmit` does not ask whether the page is there. `Serve` of an
analysis is `DocumentAnalysisService.start`, `AnalysisEnds` the background task, which may
also never end. `asked` counts the analyses somebody has asked for, `Pending` the requests for
one that the server has yet to see.

## Runs

Twelve runs, eleven that pass and one violation.

| run | constants | shows |
|---|---|---|
| `rag_safety` | 1 contract, 2 versions, 2 workers, 2 attempts, lease 1, backoff 1 | the inductive invariant, with types and one job per revision; exclusive leases; chunks only of INDEXED versions; chunks never older than their version; a searchable contract stays searchable unless a version without text is indexed |
| `rag_sequential` (fair) | 1 contract, 2 versions, 1 worker, 3 attempts | with one sequential worker at most one version is searchable, and a pending job settles |
| `rag_two_versions` (violation) | 2 versions, 2 workers | two versions end up searchable |
| `doc_safety` | 2 documents, 3 analyses each | the invariants, and that every step is one of `DocumentStatus` |
| `doc_lost_ack` | 2 documents, 2 analyses, commits may raise | one task per document even then |
| `chat_safety` | 4 turns, 2 conversations, one of them serial, limit 2 | turns are read whole however they overlap; where clients wait the latest contract and calculation are restored |
| `chat_orchestration` | 2 contracts of 2 companies, 7 questions | answers are about the contract named or referred to; nothing is told of a contract that was gone; the context moves with the answer |
| `contracts` | 2 pages, 2 workers, 2 edits, 1 payment, 2 statuses | requests are atomic, commits never collide, only delete and complete deadlock, a detail never mixes an edit with older payments |
| `contracts_end` (fair) | 2 pages, 1 worker, 1 edit | every request ends |
| `plan_setup` | 3 requests, 2 amounts, 1 demo contract | one user, one plan, one asset, equal sums, uploads kept, no loser fails |
| `knowledge` | 3 runs out of 10 programs | starts agree, runs that were alone are complete and exact, others' rows are kept |
| `review_page` (fair) | 2 pages, 1 poll of patience, 2 analyses, 2 presses, 1 lost message | pages stop waiting, show a result that is there, confirm only their own, and start no analysis unasked |

**Bounds.** Two workers, two versions and two attempts are what the hazards need: a late
worker and the one that took its lease, an old version and a new one, a first try and a
retry. One contract is enough, since jobs of different contracts share no row. The lease and
backoff of one tick make both "still held" and "expired" happen. Three analyses of a
document allow a failure, a retry and another after a deleted hand-typed contract. Bounded
counters (`MaxVersion`, `MaxRuns`, `MaxEdits`, `MaxPresses`, `MaxLost`) stop the actions that
would pass them. Four turns with a limit of one or two overflow the window (two messages a
turn, twice the limit), so it cuts the history; three are needed for a turn to see what two
overlapping ones stored. The seven questions take each way through the graph and follow each
other in any order. None has "still", which differs from "then" only where the
message before is joined; the theorems hold for all questions. Two contracts allow "the other one" to be answered. Two edits are a
confirmation and a replacement, the fewest for a stale page; a circle of waiting
transactions through one contract needs two. Three requests are a race of two and a third that
meets its result; three ingestions are two that overlap and one that came before. Two pages are
two tabs, or one that was reopened. Contracts, workers, documents, turns, pages, requests and
ingestions are symmetric in safety runs. Deadlock is not checked where ids, versions, turns or
ingestions run out, and in `doc_*` and `review_page` because a document may really stop in
PROCESSING; `chat_orchestration`, `contracts`, `contracts_end` and `plan_setup` check it.

**Fairness.** `RagIndexing!FairSpec` is weakly fair to each worker's
`process_next_index_job` and to the clock: the reconcile loop
(`domains/rag/reconciliation.py`) catches every exception, sleeps and calls again as long
as the process lives, and a restarted process starts it again. Failures and crashes are
not fair, but each uses up an attempt, so `JobSettles` holds. `DocumentLifecycle!FairSpec`
is weakly fair to each running task and to nothing else: no code restarts one.
`ContractRequests` is strongly fair to each transaction's next statement or commit, since
PostgreSQL serves the waiters of a row in turn, and weakly fair to deadlock detection, which
runs every second. `contracts_end` has one worker because the share locks of two could overlap for
ever in the model, which has no queue for a row; PostgreSQL has one. `ReviewPage` is weakly
fair to a page's loading: requests are answered or fail, the timer fires, and a user who is
told that it takes long or went wrong presses "reload". No analysis has to end, and no other
button is ever pressed for sure. The other modules assume no fairness: a turn, a PUT or an ingestion may
fail at any time, and nothing waits for it.

## Where the code and its documents disagree

One disagreement is a run, with its quote in `PROJECT.json`: two versions of a contract
searchable at once (`rag_two_versions`). The others that a model shows are stated as
properties in their modules and are violated when they are added to the named configuration:

| property | configuration | what happens |
|---|---|---|
| `RagIndexing!NewestIndexedIsActive` | `RagSequential.cfg` | `docs/06_ERD.md:574` calls `active` the current searchable version; `_complete_job` (`domains/rag/service.py:216`) deactivates every other version whatever its number, so the retry of an older version replaces a newer one |
| `RagIndexing!StaleLeaseRecovered` | `RagSequential.cfg` | `docs/14_RAG_GUIDE.md:31-32`: expired leases are recovered; a claim requires `attempts < max_attempts`, so a job whose worker dies during its last attempt stays INDEXING |
| `DocumentLifecycle!StatusTransitions` | `DocLostAck.cfg` | `transitions.py:7-13` has no way from REVIEW_REQUIRED or CONFIRMED to FAILED; a commit that takes effect and raises makes `process` write FAILED over either (`domains/documents/service.py:241`) |
| `DocumentLifecycle!ProcessingEnds` | `DocSafety.cfg` with `FairSpec` and no symmetry | `docs/13_PHASE0_DECISIONS.md:45`: old PROCESSING documents are recovered; no code does it |
| `ChatTurn!RestoresLatest` | `ChatSafety.cfg` | `docs/07_API_SPEC.md:441-443`: the last contract context is restored; overlapping turns store the older one over it (`domains/chat/service.py:50`) |
| `ChatTurn!QuestionFirst` | `ChatSafety.cfg` | `docs/06_ERD.md:603-604`: messages are read in the order of time; both of a turn have one `created_at`, so their random ids decide (`domains/chat/repository.py:28`) |
| `ChatOrchestration!ReferenceFollowsAnswer` | `ChatOrchestration.cfg` | `docs/09_TEST_SCENARIO.md:161-164`: "that contract" is the last one answered; a deposit or payment result names its contract but not its document or vendor, the context keeps those of the contract before, and the next question is rewritten with the old vendor |
| `ChatOrchestration!NamedWins` | `ChatOrchestration.cfg` | `docs/09_TEST_SCENARIO.md:165`: a company named anew is preferred; a question with "그럼", "다음 달" or "그때" is joined to the message before it (`ai/rag/routing.py:111-113`), so when that one named another company two are named, none is chosen, and "다음 달 B 지급일은?" is answered with the payments of all contracts. `NamedContractOnly` is the part that holds: it leaves out the questions that rewriting gives another name |

Further ones were met while modelling and need no run:

- Indexing. An edit whose version gives no text (the PDF could not be read at that moment, and no
  term or payment has a source text) takes the contract's older text out of the search and is INDEXED,
  so that no retry brings it back (`domains/rag/service.py:151-159`, `domains/rag/repository.py:91-105`).
  No document says otherwise; `StaysSearchable` states it as the one exception besides deletion.
- Demo documents. Deleting the contract of a demo document leaves it FAILED with a null error,
  where `docs/07_API_SPEC.md:198` has an ErrorBody (`application/demo_seed.py:216-218`,
  `domains/contracts/service.py:214-218`); an analysis of it then fails, as it has no file.
- Contracts. The edit page sends every payment back with the status it was shown, so a
  status changed meanwhile is overwritten (`contracts/model/review-form.ts:64`). A deletion
  and a completing worker may deadlock: the request then answers 500, or the worker retries.
- Plan. The seed is refused once its contract was deleted and its document confirmed again
  (UNIQUE `document_id`). A PUT of a demo contract followed by the seed leaves both sets of
  payments. The seed's plan has an id of its own, so what was uploaded before it is out of reach.
- Knowledge. The first start of the server, before there is a plan, ingests nothing, where
  `docs/09_TEST_SCENARIO.md:171` has it load all four datasets. The command by hand only
  works for the configured plan id and raises where the plan is the seed's
  (`docs/14_RAG_GUIDE.md:48-56`). The file's command deletes the seeds of its type. It and the
  manual seed command take no lock: with a start they can insert a record twice, and the
  older version then stays searchable until a run with `--sync`.
- Chat. A database error in a tool is to be answered TOOL_ERROR (`docs/09_TEST_SCENARIO.md:83`),
  but the transaction is aborted and the turn is lost when it is stored. Of the
  questions of `NamedWins`, one for a deposit ("그럼 B 계약금은?") is refused, since no contract is
  chosen; after a calculation it is replaced altogether. A contract id among the provider's
  arguments wins over the company the question names (`NamedContractOnly` excludes it).
- Review page. An upload flow that lost the answer of its analysis gets 409 on every retry
  and never leads on to the review page. A page whose retry was lost, or another tab, can
  confirm its old form over a newer extraction. After a lost answer of a confirmation a
  retry answers 409.
- `docs/07_API_SPEC.md:199` shows an extraction for a CONFIRMED document, and one confirmed by
  hand after a failed analysis has none (`domains/documents/service.py:262`).
  `docs/13_PHASE0_DECISIONS.md:49` says that what was typed by hand has no `sourceText`;
  `confirm` drops it for a FAILED document, `update` stores what the request carries
  (`domains/contracts/service.py:193`).

## Proofs

`RagIndexingProofs` proves for every value of the constants (under `RagAssumption`) that
`IInv` is invariant. Alone, the safety properties are not inductive. That only the current claim
writes a job's outcome rests on `ClaimsNumbered` (attempts are counted at the claim, so two
live claims on a job have different numbers and none is ahead of the row) and on
`LockedIsCurrent` (between its statements a completing worker still holds the row lock, so
nobody, the deletion included, can move the job). That chunks are not older than their
version rests on `SourceFresh` and `JobPerRevision`: revisions only grow, and a job for
version v exists only once the contract has reached revision v. `StaysSearchable` is an
action property from the same invariant: the step that deactivates others inserts an active
version, or the version it ends is one whose source gave no text. `ChunksOnlyIndexed` is one
direction only: an INDEXED version may have no chunks. The last conjunct of `RagAssumption`, that 2^n is a natural number, is there for the
backoff: the provers do not know it.

`DocumentLifecycleProofs` proves `IInv` for commits that are not ambiguous: the task may write
without reading because, as long as it lives, the document is PROCESSING and its run is the
latest (`TaskOwnsDocument`). With ambiguous commits that is false; what survives, and is enough for
`OneTaskPerDocument`, is `LostAckInv`: a lost task's document can only be under review or
confirmed with a contract that has an extraction, and from neither can an analysis start.
`PromiseKept` proves that `DocumentLifecycle` implements `DocumentStatus`, step by step, from
`IInv`.

`ChatTurnProofs` proves `WholeTurns` for any number of turns, overlapping or not, and any
limit. `NewestWhole` is the heart of it: above the lower of a turn's two messages are two
messages of each later turn and the turn's other one, an odd number, so an even limit never
separates them; it needs that turns are stored whole and start at different times (`IInv`).
For the conversations in `Serial` it proves `SerialLatest`: at most one turn of each is pending
(`OnePending`), so nothing is stored between its reading and its answer; each stored answer
carries the newest reference up to its own (`CarriesLatest`), so the newest answer read, which
is always in the window (`LatestRead`), carries the newest of all, however far back that turn
lies. Neither follows without the other: that answers carry on the latest needs that they
were given it. That no two transactions start in the same microsecond is an assumption of the
model (`Open` moves the clock), not of the code.

`PlanSetupProofs` proves `PlanInv` for any number of requests, amounts and demo contracts.
That there is one plan at most is not inductive alone: it rests on `LockHeld` (whoever is
between looking for the plan and writing holds the user's lock, and one request does) and on
`ReadsCurrent` (what was found is then still what is there), which also shows that no PUT ever
meets a taken key; hence `OnlyTakenConflicts`. `AssetsAgree` follows, as a plan has one asset.
`UploadsKept` needs `ScopeInv`: until the seed runs, the only plan there can be is the
configured one, and that is the one an upload takes when it finds none.

`ContractRequestsProofs` proves `ContractInv`: that the row locks the services take, in their
order, are enough. Its heart is `FoundHolds`: what a transaction that is to write has found is
there until it commits. From its first statement to its commit a writing request holds the contract's
row (`LockTable` and `Past`: a lock is held exactly from the statement that takes it), and so is
the only one that writes (`Exclusive`, `OnlyWriter`); a confirmation, which finds no contract,
holds the document instead, and a deletion also every job, so that no completing worker loses
the one it has locked. Version numbers do not collide since jobs number the edits
(`JobsNumbered`). `NoCollision` is then immediate, and `AtomicHolds` maps each commit to a step of
`ContractStore` and every other step to a stutter. `DeadlockShape` needs no induction over the
circle: where everyone waits for somebody in it, nobody can wait at the last table of the
common order, hence nobody at the one before, and so on (`CircleDeletes`, `CircleCompletes`).

`KnowledgeBaseProofs` proves `KnowledgeInv` for any programs whatever they read. A run inserts rows
under ids of its own and only once (`FreshIds`), an update keeps record and type, so what a run
read stays the record's row although others commit in between (`Knows`); undisturbed, it is exactly
what is there. `SeedComplete` and `SyncExact` then follow from what one `Write` makes of that
(`PutIs`, `AfterIs`). `OnlyStarts` is the part the advisory lock is for: as long as only starts have
run, the one that reads and writes holds it, so none disturbs another, and `StartupsAgree` follows.
`OthersKept` is a property of the step alone, but needs `Knows` to say that a row still is of the
dataset it was read in.

`ReviewPageProofs` proves `ReviewInv` and `OwnContract`. That analyses never outnumber those asked
for is not inductive: the requests still on their way count too (`Pending`), and each of them is
served at most once, whatever is lost. A page's timer rests on `Waits`. `OwnContract` rests on
`Confirmations`: an answer "ok" is only ever that of the page whose confirmation was the one
that made the contract, and CONFIRMED is final (deletion is left out here). Both also
hold of behaviours that are not fair.

`ChatOrchestrationProofs` proves `ContextInv`. `Advance` says that contracts come once and go once,
so what a turn could know (`Known`) only grows while others confirm and delete; `Gathered`, that
whatever a node adds is within it and that the answer tells of exactly that. `NoGhost` and
`ContextMoves` follow. `MeantKept` is why an answer is about the right contract: as long as the
contract that the rewritten question names is there, each resolver and each search that the
turn comes to, at whichever committed state, finds that one (`MeantNamed`). `NamedContractOnly`
and `ReferenceKept` are its two ways to be meant: a question keeps the name it has (left as it
is, or joined to a message that names no other company), or is rewritten with the company of the
context. What is assumed of a tool's result is proved for each tool
(`ToolResultsIs`): it tells only of contracts confirmed at that moment and of the one asked for.

`OneWorkerOneVersion` adds to `IInv` that a sole worker, when it deactivates the other versions,
has seen every chunk of its contract (`SeenAll`): nobody else inserts chunks. This is the
step that a second worker breaks in `rag_two_versions`.

The assumptions on constants say that `None` is no identifier, that bounds are natural numbers,
and what the code validates of its inputs (`KnowledgeAssumption`: a row of a file has the fields
of its schema, and only the command by hand chooses another model).

Only model-checked are the liveness properties, which are beyond TLAPS here: `JobSettles`,
`RequestsEnd`, `WaitEnds` and `ResultShown`; and, as they are violated, `OneVersionSearchable` with
two workers and the properties of the table under "Where the code and its documents disagree". Every invariant
and action property of a passing run is a theorem.

## Not modelled

- Texts: the parsing of amounts and dates, the splitting of a text into chunks, the wording of
  answers and the checks of generated text. They have no state; a model would spell out strings.
  With the text of chunks goes the UNIQUE `chunk_id`, which is derived from it (see the hazards).
- Finance: sums over one read, which a model would repeat line by line.
- The storage bucket, the language model and the embeddings are outside; they succeed or fail.
- The chat page, the finance pages and the session in the browser: state that the next answer
  replaces.
- Migrations, containers, CI, layout.
- The composition of all of it in one state space. The modules share only what the section
  "Modules" names, and each of these seams is a promise one of them checks.

What is next: the queue of a row's waiters, so that `RequestsEnd` can have two workers and its
fairness need not be strong; lemmas that tie the routing of a question (`QuestionRouting`) to the
nodes a turn may reach; the expiry of leases as a bound on how long an orphaned job waits.
