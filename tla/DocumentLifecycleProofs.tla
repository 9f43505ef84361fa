---------------------- MODULE DocumentLifecycleProofs ----------------------
(* Theorems about DocumentLifecycle for any set of documents and any bound  *)
(* on the analyses of one.                                                  *)
EXTENDS DocumentLifecycle, TLAPS

LEMMA InitType == Init => TypeOK
BY DocumentAssumption DEF Init, TypeOK, Plans, Statuses, Sources, Steps

LEMMA TaskType ==
  ASSUME TypeOK, NEW d \in Documents, NEW r \in Runs, NEW step \in Steps,
         task' = [task EXCEPT ![<<d, r>>] = step]
  PROVE  task' \in [Documents \X Runs -> Steps]
BY DEF TypeOK

LEMMA UploadType ==
  ASSUME TypeOK, NEW d \in Documents,
         SaveFile(d) \/ InsertDocument(d) \/ UploadFails(d)
  PROVE  TypeOK'
BY DEF TypeOK, SaveFile, InsertDocument, UploadFails, docVars, Scope, Plans,
   Statuses

LEMMA StartType ==
  ASSUME TypeOK, NEW d \in Documents, Start(d)
  PROVE  TypeOK'
<1>1. runs[d] + 1 \in Runs /\ runs'[d] = runs[d] + 1
      /\ runs' \in [Documents -> 0..MaxRuns]
  BY DocumentAssumption DEF Start, TypeOK, Runs
<1>2. task' \in [Documents \X Runs -> Steps]
  BY <1>1, TaskType DEF Start, Steps
<1> QED
  BY <1>1, <1>2 DEF TypeOK, Start, Statuses

LEMMA ProcessType ==
  ASSUME TypeOK, NEW d \in Documents, NEW r \in Runs, Process(d, r)
  PROVE  TypeOK'
<1>1. task' \in [Documents \X Runs -> Steps]
  BY TaskType DEF Process, OpenDocument, AnalysisRaises, StoreResult,
     MarkFailed, MarkFailedRaises, Goto, Steps
<1>2. r \in 0..MaxRuns
  BY DocumentAssumption DEF Runs
<1>3. CASE UNCHANGED <<plan, upload, stored, docVars, contract, runs>>
  BY <1>1, <1>3 DEF TypeOK, docVars
<1>4. CASE StoreResult(d, r)
  BY <1>1, <1>2, <1>4 DEF TypeOK, StoreResult, Statuses
<1>5. CASE MarkFailed(d, r)
  BY <1>1, <1>5 DEF TypeOK, MarkFailed, Statuses
<1> QED
  BY <1>3, <1>4, <1>5 DEF Process, OpenDocument, AnalysisRaises,
     MarkFailedRaises

LEMMA ContractType ==
  ASSUME TypeOK, NEW d \in Documents, NEW given \in BOOLEAN,
         Confirm(d, given) \/ UpdateContract(d, given) \/ DeleteContract(d)
  PROVE  TypeOK'
BY DEF TypeOK, Confirm, UpdateContract, DeleteContract, Evidence, docVars,
   Statuses

LEMMA GlobalType ==
  ASSUME TypeOK, SetUpPlan \/ Restart \/ UNCHANGED vars
  PROVE  TypeOK'
BY DEF TypeOK, SetUpPlan, Restart, vars, docVars, Steps

LEMMA NextType == TypeOK /\ [Next]_vars => TypeOK'
<1> SUFFICES ASSUME TypeOK, [Next]_vars
             PROVE  TypeOK'
  OBVIOUS
<1>1. ASSUME NEW d \in Documents, DeleteContract(d)
      PROVE  TypeOK'
  BY <1>1, ContractType
<1> QED
  BY <1>1, UploadType, StartType, ProcessType, ContractType, GlobalType DEF Next

----------------------------------------------------------------------------
(* One task per document, whatever a commit does *)

LEMMA InitApart == Init => TasksApart /\ ContractKeepsApart
BY DEF Init, TasksApart, ContractKeepsApart, Live

LEMMA UploadApart ==
  ASSUME LostAckInv, NEW d \in Documents,
         SaveFile(d) \/ InsertDocument(d) \/ UploadFails(d)
  PROVE  TasksApart' /\ ContractKeepsApart'
BY DEF LostAckInv, TypeOK, TasksApart, ContractKeepsApart, Live, SaveFile,
   InsertDocument, UploadFails, docVars, Scope, Plans

LEMMA StartApart ==
  ASSUME LostAckInv, NEW d \in Documents, Start(d)
  PROVE  TasksApart' /\ ContractKeepsApart'
BY DocumentAssumption DEF LostAckInv, TypeOK, TasksApart, ContractKeepsApart,
   Live, Start, CanAnalyze, Visible, Runs

LEMMA ProcessApart ==
  ASSUME LostAckInv, NEW d \in Documents, NEW r \in Runs, Process(d, r)
  PROVE  TasksApart' /\ ContractKeepsApart'
<1>1. /\ Live(d, r)
      /\ \A e \in Documents, q \in Runs :
           /\ Live(e, q)' => Live(e, q)
           /\ e # d \/ q # r => task'[<<e, q>>] = task[<<e, q>>]
  BY DEF LostAckInv, TypeOK, Live, Process, OpenDocument, AnalysisRaises,
     StoreResult, MarkFailed, MarkFailedRaises, Goto
<1>2. r # 0 /\ \A q \in Runs : Live(d, q) => q = r
  BY <1>1, DocumentAssumption DEF LostAckInv, TasksApart, Runs
<1>3. CASE UNCHANGED <<plan, upload, stored, docVars, contract, runs>>
  BY <1>1, <1>3 DEF LostAckInv, TasksApart, ContractKeepsApart, docVars
<1>4. CASE StoreResult(d, r)
  BY <1>1, <1>2, <1>4 DEF LostAckInv, TypeOK, TasksApart, ContractKeepsApart,
     StoreResult
<1>5. CASE MarkFailed(d, r)
  <2>1. ~Live(d, r)'
    BY <1>5 DEF MarkFailed, Goto, Live, LostAckInv, TypeOK
  <2>2. TasksApart'
    BY <1>1, <1>2, <1>5, <2>1 DEF LostAckInv, TypeOK, TasksApart, MarkFailed
  <2>3. ContractKeepsApart'
    BY <1>1, <1>5 DEF LostAckInv, TypeOK, TasksApart, ContractKeepsApart,
       MarkFailed, Plans
  <2> QED
    BY <2>2, <2>3
<1> QED
  BY <1>3, <1>4, <1>5 DEF Process, OpenDocument, AnalysisRaises,
     MarkFailedRaises

LEMMA ContractApart ==
  ASSUME LostAckInv, NEW d \in Documents, NEW given \in BOOLEAN,
         Confirm(d, given) \/ UpdateContract(d, given) \/ DeleteContract(d)
  PROVE  TasksApart' /\ ContractKeepsApart'
BY DEF LostAckInv, TypeOK, TasksApart, ContractKeepsApart, Live, Confirm,
   UpdateContract, DeleteContract, Evidence, docVars, Visible

LEMMA GlobalApart ==
  ASSUME LostAckInv, SetUpPlan \/ Restart \/ UNCHANGED vars
  PROVE  TasksApart' /\ ContractKeepsApart'
BY DEF LostAckInv, TypeOK, TasksApart, ContractKeepsApart, Live, SetUpPlan,
   Restart, vars, docVars

\* What the documents keep even when a commit takes effect and raises: one
\* task each, and no analysis of a document whose contract has evidence.
THEOREM LostAckInvariant == Spec => []LostAckInv
<1>1. Init => LostAckInv
  BY InitType, InitApart DEF LostAckInv
<1>2. LostAckInv /\ [Next]_vars => LostAckInv'
  <2> SUFFICES ASSUME LostAckInv, [Next]_vars
               PROVE  TasksApart' /\ ContractKeepsApart'
    BY NextType DEF LostAckInv
  <2>1. ASSUME NEW d \in Documents, DeleteContract(d)
        PROVE  TasksApart' /\ ContractKeepsApart'
    BY <2>1, ContractApart
  <2> QED
    BY <2>1, UploadApart, StartApart, ProcessApart, ContractApart, GlobalApart
       DEF Next
<1> QED
  BY <1>1, <1>2, PTL DEF Spec

\* The row lock and the transition check of start keep two analyses of one
\* document from running at once, even when a commit's answer is lost.
THEOREM OneTaskPerDocumentHolds == Spec => []OneTaskPerDocument
<1>1. LostAckInv => OneTaskPerDocument
  BY DEF LostAckInv, TasksApart, OneTaskPerDocument
<1> QED
  BY <1>1, LostAckInvariant, PTL

----------------------------------------------------------------------------
(* With commits whose answer is the truth *)

Rest == /\ UploadInOrder /\ FileKept /\ TaskOwnsDocument /\ ContractIffConfirmed
        /\ ExtractionByStatus /\ LatestExtraction /\ ErrorByStatus

LEMMA InitRest == Init => Rest
BY DEF Init, Rest, UploadInOrder, FileKept, TaskOwnsDocument, Live,
   ContractIffConfirmed, ExtractionByStatus, LatestExtraction, ErrorByStatus,
   Plans

LEMMA UploadRest ==
  ASSUME TypeOK, Rest, NEW d \in Documents,
         SaveFile(d) \/ InsertDocument(d) \/ UploadFails(d)
  PROVE  Rest'
<1>1. UploadInOrder' /\ FileKept'
  BY DEF TypeOK, Rest, SaveFile, InsertDocument, UploadFails, docVars,
     UploadInOrder, FileKept, Scope, Plans
<1>2. \A e \in Documents : status'[e] = status[e]
        \/ (e = d /\ status[d] = "ABSENT" /\ status'[d] = "UPLOADED")
  BY DEF TypeOK, Rest, SaveFile, InsertDocument, UploadFails, docVars,
     UploadInOrder
<1>3. UNCHANGED <<raw, origin, failed, contract, runs, task>>
  BY DEF SaveFile, InsertDocument, UploadFails, docVars
<1> QED
  BY <1>1, <1>2, <1>3 DEF Rest, TaskOwnsDocument, Live, ContractIffConfirmed,
     ExtractionByStatus, LatestExtraction, ErrorByStatus

LEMMA StartRest ==
  ASSUME TypeOK, Rest, NEW d \in Documents, Start(d)
  PROVE  Rest'
<1>1. /\ status[d] \in {"UPLOADED", "FAILED"} /\ status'[d] = "PROCESSING"
      /\ raw[d] = 0 /\ contract[d] = "none"
      /\ \A e \in Documents \ {d} : /\ status'[e] = status[e]
                                    /\ failed'[e] = failed[e]
                                    /\ runs'[e] = runs[e]
      /\ UNCHANGED <<upload, stored, raw, contract>>
  BY DEF TypeOK, Rest, Start, CanAnalyze, ExtractionByStatus,
     ContractIffConfirmed
<1>2. runs'[d] \in Runs
  BY DocumentAssumption DEF Start, TypeOK, Runs
<1>3. \A e \in Documents, q \in Runs :
         Live(e, q)' => Live(e, q) \/ (e = d /\ q = runs'[d])
  BY <1>2 DEF Start, TypeOK, Live
<1>4. \A q \in Runs : ~Live(d, q)
  BY <1>1 DEF Rest, TaskOwnsDocument
<1>5. TaskOwnsDocument'
  BY <1>1, <1>3, <1>4 DEF Rest, TaskOwnsDocument
<1> QED
  BY <1>1, <1>5 DEF Rest, UploadInOrder, FileKept, ContractIffConfirmed,
     ExtractionByStatus, LatestExtraction, ErrorByStatus

LEMMA ProcessRest ==
  ASSUME ~AmbiguousCommit, TypeOK, Rest, NEW d \in Documents, NEW r \in Runs,
         Process(d, r)
  PROVE  Rest'
<1>1. /\ Live(d, r) /\ r # 0
      /\ \A e \in Documents, q \in Runs :
           /\ Live(e, q)' => Live(e, q)
           /\ e # d \/ q # r => task'[<<e, q>>] = task[<<e, q>>]
  BY DocumentAssumption DEF TypeOK, Live, Process, OpenDocument, AnalysisRaises,
     StoreResult, MarkFailed, MarkFailedRaises, Goto, Runs
<1>2. /\ status[d] = "PROCESSING" /\ r = runs[d] /\ raw[d] = 0
      /\ contract[d] = "none"
      /\ \A q \in Runs : Live(d, q) => q = r
  BY <1>1 DEF Rest, TaskOwnsDocument, ExtractionByStatus, ContractIffConfirmed
<1>3. CASE UNCHANGED <<plan, upload, stored, docVars, contract, runs>>
  <2>1. TaskOwnsDocument'
    BY <1>1, <1>3 DEF Rest, TaskOwnsDocument, docVars
  <2> QED
    BY <1>3, <2>1 DEF Rest, UploadInOrder, FileKept, ContractIffConfirmed,
       ExtractionByStatus, LatestExtraction, ErrorByStatus, docVars
<1>4. CASE /\ ~Live(d, r)'
           /\ \A e \in Documents \ {d} : /\ status'[e] = status[e]
                                         /\ raw'[e] = raw[e]
                                         /\ failed'[e] = failed[e]
           /\ \/ status'[d] = "REVIEW_REQUIRED" /\ raw'[d] = r
              \/ status'[d] = "FAILED" /\ raw'[d] = 0 /\ failed'[d]
           /\ UNCHANGED <<upload, stored, contract, runs>>
  <2>1. TaskOwnsDocument'
    BY <1>1, <1>2, <1>4 DEF Rest, TaskOwnsDocument
  <2>2. UploadInOrder' /\ FileKept'
    BY <1>2, <1>4 DEF Rest, UploadInOrder, FileKept
  <2> QED
    BY <1>1, <1>2, <1>4, <2>1, <2>2 DEF Rest, ContractIffConfirmed,
       ExtractionByStatus, LatestExtraction, ErrorByStatus
<1>5. StoreResult(d, r) \/ MarkFailed(d, r)
        => /\ ~Live(d, r)'
           /\ \A e \in Documents \ {d} : /\ status'[e] = status[e]
                                         /\ raw'[e] = raw[e]
                                         /\ failed'[e] = failed[e]
           /\ \/ status'[d] = "REVIEW_REQUIRED" /\ raw'[d] = r
              \/ status'[d] = "FAILED" /\ raw'[d] = 0 /\ failed'[d]
           /\ UNCHANGED <<upload, stored, contract, runs>>
  BY <1>2 DEF StoreResult, MarkFailed, Goto, Live, TypeOK
<1> QED
  BY <1>3, <1>4, <1>5 DEF Process, OpenDocument, AnalysisRaises,
     MarkFailedRaises

LEMMA ContractRest ==
  ASSUME TypeOK, Rest, NEW d \in Documents, NEW given \in BOOLEAN,
         Confirm(d, given) \/ UpdateContract(d, given) \/ DeleteContract(d)
  PROVE  Rest'
<1>1. UNCHANGED <<upload, stored, raw, failed, runs, task>>
  BY DEF Confirm, UpdateContract, DeleteContract, docVars
<1>2. \A e \in Documents \ {d} : status'[e] = status[e] /\ contract'[e] = contract[e]
  BY DEF TypeOK, Confirm, UpdateContract, DeleteContract, docVars
<1>3. \/ /\ status[d] \in {"REVIEW_REQUIRED", "FAILED"}
         /\ status'[d] = "CONFIRMED" /\ contract'[d] # "none"
      \/ /\ status'[d] = status[d]
         /\ contract[d] # "none" /\ contract'[d] # "none"
      \/ /\ contract[d] # "none" /\ contract'[d] = "none"
         /\ status'[d] = IF raw[d] # 0 THEN "REVIEW_REQUIRED" ELSE "FAILED"
  BY DEF TypeOK, Confirm, UpdateContract, DeleteContract, docVars, Evidence
<1>4. status[d] # "ABSENT" /\ status[d] # "PROCESSING" /\ status'[d] # "ABSENT"
  BY <1>3 DEF Rest, ContractIffConfirmed
<1>5. UploadInOrder' /\ FileKept'
  BY <1>1, <1>2, <1>4 DEF Rest, UploadInOrder, FileKept
<1>6. TaskOwnsDocument'
  BY <1>1, <1>2, <1>4 DEF Rest, TaskOwnsDocument, Live
<1>7. ContractIffConfirmed'
  BY <1>2, <1>3 DEF Rest, ContractIffConfirmed
<1> QED
  BY <1>1, <1>2, <1>3, <1>5, <1>6, <1>7 DEF Rest, ContractIffConfirmed,
     ExtractionByStatus, LatestExtraction, ErrorByStatus

LEMMA GlobalRest ==
  ASSUME TypeOK, Rest, SetUpPlan \/ Restart \/ UNCHANGED vars
  PROVE  Rest'
<1>1. UNCHANGED <<stored, status, raw, failed, contract, runs>>
  BY DEF SetUpPlan, Restart, vars, docVars
<1>2. \A e \in Documents, q \in Runs : Live(e, q)' => Live(e, q)
  BY DEF SetUpPlan, Restart, vars, Live
<1>3. \A e \in Documents : upload'[e] = upload[e] \/ upload'[e] = "over"
  BY DEF TypeOK, SetUpPlan, Restart, vars
<1> QED
  BY <1>1, <1>2, <1>3 DEF Rest, UploadInOrder, FileKept, TaskOwnsDocument,
     ContractIffConfirmed, ExtractionByStatus, LatestExtraction, ErrorByStatus,
     Plans

\* When no commit takes effect and still raises, IInv is inductive: a live
\* task holds its document in PROCESSING, so its blind writes are in place.
THEOREM DocumentInvariant ==
  ASSUME ~AmbiguousCommit
  PROVE  Spec => []IInv
<1>1. Init => IInv
  BY InitType, InitRest DEF IInv, Rest
<1>2. IInv /\ [Next]_vars => IInv'
  <2> SUFFICES ASSUME TypeOK, Rest, [Next]_vars
               PROVE  TypeOK' /\ Rest'
    BY DEF IInv, Rest
  <2>1. ASSUME NEW d \in Documents, DeleteContract(d)
        PROVE  Rest'
    BY <2>1, ContractRest
  <2>2. Rest'
    BY <2>1, UploadRest, StartRest, ProcessRest, ContractRest, GlobalRest
       DEF Next
  <2> QED
    BY <2>2, NextType
<1> QED
  BY <1>1, <1>2, PTL DEF Spec

\* The contracts that count in the money calculations are those of the
\* documents shown as CONFIRMED, through every retry, restart and deletion.
THEOREM ContractIffConfirmedHolds ==
  ASSUME ~AmbiguousCommit
  PROVE  Spec => []ContractIffConfirmed
<1>1. IInv => ContractIffConfirmed
  BY DEF IInv
<1> QED
  BY <1>1, DocumentInvariant, PTL

\* The extraction a user reviews comes from the latest analysis.
THEOREM LatestExtractionHolds ==
  ASSUME ~AmbiguousCommit
  PROVE  Spec => []LatestExtraction
<1>1. IInv => LatestExtraction
  BY DEF IInv
<1> QED
  BY <1>1, DocumentInvariant, PTL

\* GET /documents/{id} shows of an uploaded document what the table of the API
\* promises: one to review has an extraction, a failed one has its error.  The
\* documents of the demo seed, which never had an analysis, are not Documents.
THEOREM DetailTableHolds ==
  ASSUME ~AmbiguousCommit
  PROVE  Spec => []DetailTable
<1>1. IInv => DetailTable
  BY DEF IInv, ExtractionByStatus, ErrorByStatus, DetailTable, Detail, Shown
<1> QED
  BY <1>1, DocumentInvariant, PTL

\* No row of an uploaded document is without its file, wherever the upload
\* stops.
THEOREM FileKeptHolds ==
  ASSUME ~AmbiguousCommit
  PROVE  Spec => []FileKept
<1>1. IInv => FileKept
  BY DEF IInv
<1> QED
  BY <1>1, DocumentInvariant, PTL

----------------------------------------------------------------------------
(* Refinement *)

LEMMA UploadKeeps ==
  ASSUME IInv, NEW d \in Documents,
         SaveFile(d) \/ InsertDocument(d) \/ UploadFails(d)
  PROVE  [Promise!Next]_(Promise!svars)
<1>1. From' = From
  BY DEF SaveFile, InsertDocument, UploadFails, docVars, From
<1>2. CASE UNCHANGED status
  BY <1>1, <1>2 DEF Promise!svars
<1>3. CASE InsertDocument(d)
  <2>1. status[d] = "ABSENT"
    BY <1>3 DEF InsertDocument, IInv, UploadInOrder
  <2>2. Promise!Upload(d)
    BY <1>1, <1>3, <2>1 DEF InsertDocument, Promise!Upload, Promise!Becomes
  <2> QED
    BY <2>2 DEF Promise!Next
<1> QED
  BY <1>2, <1>3 DEF SaveFile, UploadFails, docVars

LEMMA StartKeeps ==
  ASSUME IInv, NEW d \in Documents, Start(d)
  PROVE  [Promise!Next]_(Promise!svars)
<1>1. From' = From
  BY DEF Start, From
<1>2. Promise!Analyze(d)
  BY <1>1 DEF Start, CanAnalyze, Promise!Analyze, Promise!Becomes
<1> QED
  BY <1>2 DEF Promise!Next

LEMMA ProcessKeeps ==
  ASSUME IInv, NEW d \in Documents, NEW r \in Runs, Process(d, r)
  PROVE  [Promise!Next]_(Promise!svars)
<1>1. status[d] = "PROCESSING" /\ contract[d] = "none"
  BY DEF IInv, TaskOwnsDocument, ContractIffConfirmed, Live, Process,
     OpenDocument, AnalysisRaises, StoreResult, MarkFailed, MarkFailedRaises
<1>2. From' = From
  <2>1. UNCHANGED contract /\ \A e \in Documents \ {d} : raw'[e] = raw[e]
    BY DEF Process, OpenDocument, AnalysisRaises, StoreResult, MarkFailed,
       MarkFailedRaises, docVars, IInv, TypeOK
  <2> QED
    BY <1>1, <2>1 DEF From
<1>3. CASE UNCHANGED status
  BY <1>2, <1>3 DEF Promise!svars
<1>4. CASE StoreResult(d, r)
  <2>1. Promise!Succeed(d)
    BY <1>1, <1>2, <1>4 DEF StoreResult, Promise!Succeed, Promise!Becomes
  <2> QED
    BY <2>1 DEF Promise!Next
<1>5. CASE MarkFailed(d, r)
  <2>1. Promise!Fail(d)
    BY <1>1, <1>2, <1>5 DEF MarkFailed, Promise!Fail, Promise!Becomes
  <2> QED
    BY <2>1 DEF Promise!Next
<1> QED
  BY <1>3, <1>4, <1>5 DEF Process, OpenDocument, AnalysisRaises,
     MarkFailedRaises, docVars

LEMMA ConfirmKeeps ==
  ASSUME IInv, NEW d \in Documents, NEW given \in BOOLEAN, Confirm(d, given)
  PROVE  [Promise!Next]_(Promise!svars)
<1>1. /\ status[d] \in {"REVIEW_REQUIRED", "FAILED"}
      /\ contract[d] = "none" /\ contract'[d] # "none" /\ raw' = raw
      /\ \A e \in Documents \ {d} : contract'[e] = contract[e]
      /\ status' = [status EXCEPT ![d] = "CONFIRMED"]
  BY DEF Confirm, Evidence, IInv, TypeOK
<1>2. status[d] = IF raw[d] # 0 THEN "REVIEW_REQUIRED" ELSE "FAILED"
  BY <1>1 DEF IInv, ExtractionByStatus
<1>3. From[d] = "NONE"
  BY <1>1 DEF From
<1>4. From' = [From EXCEPT ![d] = status[d]]
  BY <1>1, <1>2 DEF From
<1>5. Promise!Confirm(d)
  BY <1>1, <1>3, <1>4 DEF Promise!Confirm
<1> QED
  BY <1>5 DEF Promise!Next

LEMMA UpdateKeeps ==
  ASSUME IInv, NEW d \in Documents, NEW given \in BOOLEAN,
         UpdateContract(d, given)
  PROVE  [Promise!Next]_(Promise!svars)
<1>1. /\ contract[d] # "none" /\ contract'[d] # "none"
      /\ UNCHANGED <<raw, status>>
      /\ \A e \in Documents \ {d} : contract'[e] = contract[e]
  BY DEF UpdateContract, Evidence, IInv, TypeOK, docVars
<1>2. From' = From
  BY <1>1 DEF From
<1> QED
  BY <1>1, <1>2 DEF Promise!svars

LEMMA DeleteKeeps ==
  ASSUME IInv, NEW d \in Documents, DeleteContract(d)
  PROVE  [Promise!Next]_(Promise!svars)
<1>1. /\ contract[d] # "none" /\ contract'[d] = "none" /\ raw' = raw
      /\ \A e \in Documents \ {d} : contract'[e] = contract[e]
      /\ status' = [status EXCEPT ![d] =
                      IF raw[d] # 0 THEN "REVIEW_REQUIRED" ELSE "FAILED"]
  BY DEF DeleteContract, IInv, TypeOK
<1>2. status[d] = "CONFIRMED"
  BY <1>1 DEF IInv, ContractIffConfirmed
<1>3. From[d] = IF raw[d] # 0 THEN "REVIEW_REQUIRED" ELSE "FAILED"
  BY <1>1 DEF From
<1>4. From' = [From EXCEPT ![d] = "NONE"]
  BY <1>1 DEF From
<1>5. Promise!DeleteContract(d)
  BY <1>1, <1>2, <1>3, <1>4 DEF Promise!DeleteContract
<1> QED
  BY <1>5 DEF Promise!Next

LEMMA GlobalKeeps ==
  ASSUME SetUpPlan \/ Restart \/ UNCHANGED vars
  PROVE  UNCHANGED Promise!svars
BY DEF SetUpPlan, Restart, vars, docVars, Promise!svars, From

\* Blind writes, implicit restarts and columns that only hint at the past
\* together implement the transition table, and deletion undoes confirming.
THEOREM PromiseKept ==
  ASSUME ~AmbiguousCommit
  PROVE  Spec => KeepsPromise
<1>1. Init => Promise!Init
  BY DEF Init, Promise!Init, From
<1>2. IInv /\ [Next]_vars => [Promise!Next]_(Promise!svars)
  <2> SUFFICES ASSUME IInv, [Next]_vars
               PROVE  [Promise!Next]_(Promise!svars)
    OBVIOUS
  <2> QED
    BY UploadKeeps, StartKeeps, ProcessKeeps, ConfirmKeeps, UpdateKeeps,
       DeleteKeeps, GlobalKeeps DEF Next
<1> QED
  BY <1>1, <1>2, DocumentInvariant, PTL DEF Spec, KeepsPromise, Promise!Spec
=============================================================================
