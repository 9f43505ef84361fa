------------------------- MODULE DocumentLifecycle -------------------------
(***************************************************************************)
(* Documents and the contracts confirmed from them: app/domains/documents  *)
(* and app/domains/contracts.  Requests run in one transaction each, under *)
(* row locks.  The analysis runs after the response in a background task   *)
(* of the same process, with no lock held while it waits for the model,    *)
(* and writes its outcome without looking at the row again.                *)
(*                                                                         *)
(* Documents are those users upload.  The two that the demo seed creates   *)
(* are others: they begin CONFIRMED, with no file, no extraction and no    *)
(* error, and a seed that runs again puts them back whatever their tasks   *)
(* do; what is said here of a document's file and error is not true of     *)
(* them.  Left out too: the values of a contract, payment status, and the  *)
(* index of the contract, which RagIndexing models.                        *)
(***************************************************************************)
EXTENDS Integers, FiniteSets

CONSTANTS
  Documents,       \* identifiers of uploaded documents, fresh uuids
  MaxRuns,         \* bound: analyses started for one document
  AmbiguousCommit  \* whether a commit may take effect and still raise

ASSUME DocumentAssumption ==
  /\ MaxRuns \in Nat \ {0}
  /\ AmbiguousCommit \in BOOLEAN

VARIABLES
  plan,      \* the user's active WeddingPlan, "none" before the setup
  upload,    \* document -> progress of the request that uploads it
  stored,    \* documents whose file is in the object storage
  owner,     \* document -> wedding_plan_id
  status,    \* document -> analysis_status, "ABSENT" if there is no row
  raw,       \* document -> the run whose result is extraction_raw, 0 if NULL
  origin,    \* document -> analysis_source
  failed,    \* document -> whether analysis_error is set
  contract,  \* document -> its row of contracts, "none" or its evidence
  runs,      \* document -> analyses started so far
  task       \* <<document, run>> -> step of DocumentAnalysisService.process

docVars == <<owner, status, raw, origin, failed>>
vars == <<plan, upload, stored, docVars, contract, runs, task>>

Runs     == 1..MaxRuns
Plans    == {"configured", "seeded"}
Statuses == {"ABSENT", "UPLOADED", "PROCESSING", "REVIEW_REQUIRED", "FAILED",
             "CONFIRMED"}
Sources  == {"LIVE_AI", "DEMO_FALLBACK"}
Steps    == {"gone", "queued", "analysing", "failing"}

TypeOK ==
  /\ plan \in Plans \cup {"none"}
  /\ upload \in [Documents -> Plans \cup {"none", "over"}]
  /\ stored \subseteq Documents
  /\ owner \in [Documents -> Plans]
  /\ status \in [Documents -> Statuses]
  /\ raw \in [Documents -> 0..MaxRuns]
  /\ origin \in [Documents -> Sources]
  /\ failed \in [Documents -> BOOLEAN]
  /\ contract \in [Documents -> {"none", "plain", "evidence"}]
  /\ runs \in [Documents -> 0..MaxRuns]
  /\ task \in [Documents \X Runs -> Steps]

\* _resolve_document_scope: before there is a plan, the configured id.
Scope == IF plan = "none" THEN "configured" ELSE plan

\* The 404 of every request on a document or on the contract of one.
Visible(d) == status[d] # "ABSENT" /\ owner[d] = Scope

Live(d, r) == task[<<d, r>>] # "gone"

Init ==
  /\ plan = "none"
  /\ upload = [d \in Documents |-> "none"]
  /\ stored = {}
  /\ owner = [d \in Documents |-> "configured"]
  /\ status = [d \in Documents |-> "ABSENT"]
  /\ raw = [d \in Documents |-> 0]
  /\ origin = [d \in Documents |-> "LIVE_AI"]
  /\ failed = [d \in Documents |-> FALSE]
  /\ contract = [d \in Documents |-> "none"]
  /\ runs = [d \in Documents |-> 0]
  /\ task = [t \in Documents \X Runs |-> "gone"]

----------------------------------------------------------------------------
(* The plan: PUT /wedding-plan creates one under the configured id, the     *)
(* demo seed under its own; neither replaces an existing plan.  Of the seed *)
(* this is all that uploaded documents can tell: its own are not Documents. *)

SetUpPlan ==
  /\ plan = "none"
  /\ plan' \in Plans
  /\ UNCHANGED <<upload, stored, docVars, contract, runs, task>>

(* DocumentUploadService.upload resolves the scope, writes the file, then   *)
(* inserts the row; when the insert fails, the file stays without one.      *)

\* Mutant definitions are slips this code could have had; no behaviour uses
\* them, each stands for the definition below it to show a property notices.
Mutant_RowWithoutFile(d) ==
  /\ upload[d] = "none"
  /\ upload' = [upload EXCEPT ![d] = Scope]
  /\ UNCHANGED <<plan, stored, docVars, contract, runs, task>>

SaveFile(d) ==
  /\ upload[d] = "none"
  /\ upload' = [upload EXCEPT ![d] = Scope]
  /\ stored' = stored \cup {d}
  /\ UNCHANGED <<plan, docVars, contract, runs, task>>

InsertDocument(d) ==
  /\ upload[d] \in Plans
  /\ upload' = [upload EXCEPT ![d] = "over"]
  /\ owner' = [owner EXCEPT ![d] = upload[d]]
  /\ status' = [status EXCEPT ![d] = "UPLOADED"]
  /\ UNCHANGED <<plan, stored, raw, origin, failed, contract, runs, task>>

UploadFails(d) ==
  /\ upload[d] \in Plans
  /\ upload' = [upload EXCEPT ![d] = "over"]
  /\ UNCHANGED <<plan, stored, docVars, contract, runs, task>>

----------------------------------------------------------------------------
(* POST /documents/{id}/analyze *)

\* ensure_transition_allowed(status, PROCESSING), under the row lock.
Mutant_AnalyzeTwice(d) == status[d] \in {"UPLOADED", "FAILED", "PROCESSING"}
Mutant_AnalyzeReviewed(d) == status[d] \in {"UPLOADED", "FAILED", "REVIEW_REQUIRED"}
CanAnalyze(d) == status[d] \in {"UPLOADED", "FAILED"}

\* The commit comes before add_task: a refresh that fails in between answers
\* 500 and starts no task.
Start(d) ==
  /\ Visible(d)
  /\ CanAnalyze(d)
  /\ runs[d] < MaxRuns
  /\ runs' = [runs EXCEPT ![d] = @ + 1]
  /\ status' = [status EXCEPT ![d] = "PROCESSING"]
  /\ failed' = [failed EXCEPT ![d] = FALSE]
  /\ \E step \in {"queued", "gone"} :
       task' = [task EXCEPT ![<<d, runs'[d]>>] = step]
  /\ UNCHANGED <<plan, upload, stored, owner, raw, origin, contract>>

Goto(d, r, step) == task' = [task EXCEPT ![<<d, r>>] = step]

\* process reads the document outside its try block: a database error, like
\* a document of another plan, ends the task and leaves the row PROCESSING.
OpenDocument(d, r) ==
  /\ task[<<d, r>>] = "queued"
  /\ \/ Visible(d) /\ Goto(d, r, "analysing")
     \/ Goto(d, r, "gone")
  /\ UNCHANGED <<plan, upload, stored, docVars, contract, runs>>

\* Storage, provider, validation or database error inside _run_analysis.
AnalysisRaises(d, r) ==
  /\ task[<<d, r>>] = "analysing"
  /\ Goto(d, r, "failing")
  /\ UNCHANGED <<plan, upload, stored, docVars, contract, runs>>

StoreResult(d, r) ==
  /\ task[<<d, r>>] = "analysing"
  /\ raw' = [raw EXCEPT ![d] = r]
  /\ \E s \in Sources : origin' = [origin EXCEPT ![d] = s]
  /\ status' = [status EXCEPT ![d] = "REVIEW_REQUIRED"]
  /\ \/ Goto(d, r, "gone")
     \/ AmbiguousCommit /\ Goto(d, r, "failing")
  /\ UNCHANGED <<plan, upload, stored, owner, failed, contract, runs>>

\* Its own session; when that fails too, the row stays as it is.
MarkFailed(d, r) ==
  /\ task[<<d, r>>] = "failing"
  /\ status' = [status EXCEPT ![d] = "FAILED"]
  /\ failed' = [failed EXCEPT ![d] = TRUE]
  /\ Goto(d, r, "gone")
  /\ UNCHANGED <<plan, upload, stored, owner, raw, origin, contract, runs>>

MarkFailedRaises(d, r) ==
  /\ task[<<d, r>>] = "failing"
  /\ Goto(d, r, "gone")
  /\ UNCHANGED <<plan, upload, stored, docVars, contract, runs>>

\* The process ends: background tasks and requests are not resumed.
Restart ==
  /\ \/ \E d \in Documents, r \in Runs : Live(d, r)
     \/ \E d \in Documents : upload[d] \in Plans
  /\ task' = [t \in Documents \X Runs |-> "gone"]
  /\ upload' = [d \in Documents |-> IF upload[d] \in Plans THEN "over" ELSE upload[d]]
  /\ UNCHANGED <<plan, stored, docVars, contract, runs>>

----------------------------------------------------------------------------
(* Confirming a document, and the requests on its contract *)

Evidence(given) == IF given THEN "evidence" ELSE "plain"

\* given: whether the payload has a sourceText.  contracts.document_id is
\* UNIQUE, so a second contract raises and rolls back.
Confirm(d, given) ==
  /\ plan # "none"
  /\ Visible(d)
  /\ status[d] \in {"REVIEW_REQUIRED", "FAILED"}
  /\ contract[d] = "none"
  /\ contract' = [contract EXCEPT ![d] =
                    Evidence(given /\ status[d] = "REVIEW_REQUIRED")]
  /\ status' = [status EXCEPT ![d] = "CONFIRMED"]
  /\ UNCHANGED <<plan, upload, stored, owner, raw, origin, failed, runs, task>>

\* The document is locked, and its status is not looked at.
UpdateContract(d, given) ==
  /\ Visible(d) /\ contract[d] # "none"
  /\ contract' = [contract EXCEPT ![d] = Evidence(given)]
  /\ UNCHANGED <<plan, upload, stored, docVars, runs, task>>

Mutant_DeleteOnlyContract(d) ==
  /\ Visible(d) /\ contract[d] # "none"
  /\ contract' = [contract EXCEPT ![d] = "none"]
  /\ UNCHANGED <<plan, upload, stored, docVars, runs, task>>

Mutant_DeleteToReview(d) ==
  /\ Visible(d) /\ contract[d] # "none"
  /\ contract' = [contract EXCEPT ![d] = "none"]
  /\ status' = [status EXCEPT ![d] = "REVIEW_REQUIRED"]
  /\ UNCHANGED <<plan, upload, stored, owner, raw, origin, failed, runs, task>>

DeleteContract(d) ==
  /\ Visible(d) /\ contract[d] # "none"
  /\ contract' = [contract EXCEPT ![d] = "none"]
  /\ status' = [status EXCEPT ![d] =
                  IF raw[d] # 0 THEN "REVIEW_REQUIRED" ELSE "FAILED"]
  /\ UNCHANGED <<plan, upload, stored, owner, raw, origin, failed, runs, task>>

\* build_document_detail_response: what GET /documents/{id} tells.
Shown(d) == status[d] \in {"REVIEW_REQUIRED", "CONFIRMED"}
Detail(d) == [source     |-> IF Shown(d) THEN origin[d] ELSE "null",
              extraction |-> IF Shown(d) THEN raw[d] ELSE 0,
              error      |-> status[d] = "FAILED" /\ failed[d]]

----------------------------------------------------------------------------
Process(d, r) ==
  \/ OpenDocument(d, r) \/ AnalysisRaises(d, r) \/ StoreResult(d, r)
  \/ MarkFailed(d, r)   \/ MarkFailedRaises(d, r)

Next ==
  \/ SetUpPlan
  \/ Restart
  \/ \E d \in Documents :
       \/ SaveFile(d) \/ InsertDocument(d) \/ UploadFails(d)
       \/ Start(d)
       \/ \E r \in Runs : Process(d, r)
       \/ \E given \in BOOLEAN : Confirm(d, given) \/ UpdateContract(d, given)
       \/ DeleteContract(d)

Spec == Init /\ [][Next]_vars

\* A task that runs is not starved; the event loop gives it no guarantee
\* against a restart of the process.
FairSpec == Spec /\ \A d \in Documents, r \in Runs : WF_vars(Process(d, r))

----------------------------------------------------------------------------
(* Properties *)

\* Whatever a commit does, no document is analysed by two tasks at once: the
\* row lock and the transition check of start are enough.
OneTaskPerDocument ==
  \A d \in Documents : \A r, s \in Runs : Live(d, r) /\ Live(d, s) => r = s

\* A task writes its outcome without reading the row again; it may, because
\* as long as it lives the document is PROCESSING and the run is the latest.
TaskOwnsDocument ==
  \A d \in Documents, r \in Runs :
    Live(d, r) => status[d] = "PROCESSING" /\ r = runs[d]

\* A document is CONFIRMED exactly while it has a contract, so what the money
\* calculations count and what the document list shows are the same.
ContractIffConfirmed ==
  \A d \in Documents : (contract[d] # "none") <=> (status[d] = "CONFIRMED")

\* The extraction a user reviews is the result of the latest analysis, and
\* none is left from before a failed one.
LatestExtraction ==
  \A d \in Documents :
    /\ raw[d] # 0 => raw[d] = runs[d]
    /\ status[d] = "FAILED" => raw[d] = 0

\* The rows of the table in docs/07_API_SPEC.md:195-198 for the states before
\* confirmation, also after retries, confirmations and deletions: an uploaded
\* document to review shows an extraction, a failed one shows why it failed.
\* A demo document whose contract is deleted is FAILED and shows no error.
DetailTable ==
  \A d \in Documents :
    /\ status[d] = "REVIEW_REQUIRED" => Detail(d).extraction # 0
    /\ status[d] = "FAILED" => Detail(d).error

\* The file is written before the row and never removed, so a document that
\* was uploaded can be analysed and previewed, wherever that is interrupted.
FileKept == \A d \in Documents : status[d] # "ABSENT" => d \in stored

\* What makes the properties inductive, besides themselves: a row exists
\* once its upload is over, and an extraction says which way a document went.
UploadInOrder ==
  \A d \in Documents :
    /\ upload[d] \in Plans => status[d] = "ABSENT" /\ d \in stored
    /\ upload[d] = "none" => status[d] = "ABSENT"
    /\ status[d] = "ABSENT" => runs[d] = 0

ExtractionByStatus ==
  \A d \in Documents :
    /\ status[d] \in {"ABSENT", "UPLOADED", "PROCESSING", "FAILED"} => raw[d] = 0
    /\ status[d] = "REVIEW_REQUIRED" => raw[d] # 0

ErrorByStatus ==
  \A d \in Documents :
    \/ status[d] = "FAILED"
    \/ status[d] = "CONFIRMED" /\ raw[d] = 0
    => failed[d]

IInv ==
  /\ TypeOK
  /\ UploadInOrder
  /\ FileKept
  /\ TaskOwnsDocument
  /\ ContractIffConfirmed
  /\ ExtractionByStatus
  /\ LatestExtraction
  /\ ErrorByStatus

\* The part of this that survives a commit that takes effect and raises, and
\* that OneTaskPerDocument rests on: a contract of a document without an
\* extraction keeps analyses away.
TasksApart ==
  \A d \in Documents, r \in Runs : Live(d, r) =>
    /\ r = runs[d]
    /\ status[d] \in {"PROCESSING", "REVIEW_REQUIRED", "CONFIRMED"}
    /\ contract[d] # "none" => raw[d] # 0

ContractKeepsApart ==
  \A d \in Documents :
    /\ status[d] = "REVIEW_REQUIRED" => raw[d] # 0
    /\ status[d] = "CONFIRMED" => contract[d] # "none"
    /\ contract[d] # "none" /\ raw[d] = 0 => status[d] = "CONFIRMED"
    /\ upload[d] \in Plans \cup {"none"} => status[d] = "ABSENT"

LostAckInv == TypeOK /\ TasksApart /\ ContractKeepsApart

\* The columns and tasks implement the promise of DocumentStatus.  The status
\* a contract was confirmed from is not stored; extraction_raw tells it.
From == [d \in Documents |->
          IF contract[d] = "none" THEN "NONE"
          ELSE IF raw[d] # 0 THEN "REVIEW_REQUIRED" ELSE "FAILED"]
Promise == INSTANCE DocumentStatus WITH from <- From
KeepsPromise == Promise!Spec

\* transitions.py:7-13, with the transitions that deleting a contract adds.
Allowed == [ABSENT |-> {"UPLOADED"}, UPLOADED |-> {"PROCESSING"},
            PROCESSING |-> {"REVIEW_REQUIRED", "FAILED"},
            REVIEW_REQUIRED |-> {"CONFIRMED"},
            FAILED |-> {"PROCESSING", "CONFIRMED"},
            CONFIRMED |-> {"REVIEW_REQUIRED", "FAILED"}]
StatusTransitions ==
  [][\A d \in Documents :
       status'[d] # status[d] => status'[d] \in Allowed[status[d]]]_vars

\* docs/13_PHASE0_DECISIONS.md:45: a document that stays PROCESSING is put
\* into a failed state by the document service.
ProcessingEnds ==
  \A d \in Documents : status[d] = "PROCESSING" ~> status[d] # "PROCESSING"
=============================================================================
