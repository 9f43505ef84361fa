------------------------- MODULE RagIndexingProofs -------------------------
(* Safety of RagIndexing for every number of contracts, versions, workers   *)
(* and attempts, every lease time and every retry delay.                    *)
EXTENDS RagIndexing, TLAPS

\* What NextVersion returns when the versions in use are an initial segment.
LEMMA NextVersionIs ==
  ASSUME NEW c \in Contracts, NEW n \in Nat,
         {v \in Versions : job[<<c, v>>].status # "ABSENT"} = 1..n
  PROVE  NextVersion(c) = n + 1
<1> DEFINE S == {0} \cup {v \in Versions : job[<<c, v>>].status # "ABSENT"}
<1>1. S = 0..n
  OBVIOUS
<1>2. n \in S /\ \A x \in S : n >= x
  BY <1>1
<1>3. \A m \in 0..n : (\A x \in 0..n : m >= x) => m = n
  OBVIOUS
<1>4. Max(S) = n
  BY <1>1, <1>2, <1>3 DEF Max
<1> QED
  BY <1>4 DEF NextVersion

----------------------------------------------------------------------------
LEMMA InitType == Init => TypeOK
BY RagAssumption DEF Init, TypeOK, Row, NoRow, Chunks, NoChunks, Claim,
   NoClaim, NoSource, Source, Steps, Versions, Keys, Null

\* A row that Enqueue writes is a row, whether the version had one or not.
LEMMA EnqueueType ==
  ASSUME TypeOK, NEW k \in Keys, Enqueue(k[1], k[2])
  PROVE  job' \in [Keys -> Row]
<1>1. k = <<k[1], k[2]>> /\ job[k] \in Row
  BY DEF TypeOK, Keys
<1> DEFINE t == IF job[k].status = "ABSENT" THEN now ELSE job[k].created_at
<1>2. t \in Nat
  BY <1>1 DEF TypeOK, Row
<1>3. NewRow(t) \in Row
  BY <1>2, RagAssumption DEF NewRow, Row
<1> QED
  BY <1>1, <1>3 DEF Enqueue, TypeOK

LEMMA ConfirmType ==
  ASSUME TypeOK, NEW c \in Contracts, Confirm(c)
  PROVE  TypeOK'
<1>1. <<c, 1>> \in Keys
  BY RagAssumption DEF Keys, Versions
<1>2. job' \in [Keys -> Row]
  BY <1>1, EnqueueType DEF Confirm
<1> QED
  BY <1>2, RagAssumption DEF TypeOK, Confirm, workerVars, Claim

LEMMA DeleteType ==
  ASSUME TypeOK, NEW c \in Contracts, Delete(c)
  PROVE  TypeOK'
BY RagAssumption DEF TypeOK, Delete, Row, NoRow, Chunks, NoChunks, Versions, Keys, Null, workerVars, Claim

\* What the three outcomes of a claim do to a row of the table.
LEMMA LeaseRow ==
  ASSUME NEW row \in Row, row.attempts < MaxAttempts, now \in Nat
  PROVE  /\ Lease(row) \in Row
         /\ Lease(row).status = "INDEXING"
         /\ Lease(row).attempts = row.attempts + 1
         /\ Lease(row).attempts \in 1..MaxAttempts
         /\ Lease(row).locked_at = now
<1>1. MaxAttempts \in Nat
  BY RagAssumption
<1>2. row.attempts + 1 \in 1..MaxAttempts /\ row.attempts + 1 \in 0..MaxAttempts
  BY <1>1 DEF Row
<1> QED
  BY <1>2 DEF Row, Lease

LEMMA FinishRow ==
  ASSUME NEW row \in Row
  PROVE  /\ Finish(row) \in Row
         /\ Finish(row).status = "INDEXED"
         /\ Finish(row).attempts = row.attempts
BY DEF Row, Finish

LEMMA FailRow ==
  ASSUME NEW row \in Row, row.attempts \in 1..MaxAttempts, now \in Nat
  PROVE  /\ Fail(row) \in Row
         /\ Fail(row).status = "FAILED"
         /\ Fail(row).attempts = row.attempts
<1>1. row.attempts - 1 \in 0..(MaxAttempts - 1)
  BY RagAssumption
<1>2. 2^(row.attempts - 1) \in Nat
  BY <1>1, RagAssumption
<1>3. RetryBase * 2^(row.attempts - 1) \in Nat
  BY <1>2, RagAssumption
<1>4. now + Backoff(row.attempts) \in Nat
  BY <1>3 DEF Backoff
<1> QED
  BY <1>4 DEF Row, Fail

\* The job a worker claims, and what it takes away from the claim.
LEMMA ClaimFacts ==
  ASSUME TypeOK, NEW S \in SUBSET Contracts, NEW w \in Workers, ClaimJob(w, S)
  PROVE  \E k \in Keys :
           /\ Claimable(job[k]) /\ ~JobLocked(k)
           /\ job[k] \in Row /\ job[k].attempts < MaxAttempts
           /\ job' = [job EXCEPT ![k] = Lease(job[k])]
           /\ claim' = [claim EXCEPT ![w] =
                [key |-> k, attempt |-> job[k].attempts + 1, locked_at |-> now]]
<1>1. PICK k \in {x \in S \X Versions : Claimable(job[x]) /\ ~JobLocked(x)} :
         /\ job' = [job EXCEPT ![k] = Lease(job[k])]
         /\ claim' = [claim EXCEPT ![w] =
                [key |-> k, attempt |-> job[k].attempts + 1, locked_at |-> now]]
  BY DEF ClaimJob
<1>2. k \in Keys /\ Claimable(job[k]) /\ ~JobLocked(k)
  BY DEF Keys
<1> QED
  BY <1>1, <1>2 DEF Claimable, TypeOK

LEMMA ClaimType ==
  ASSUME TypeOK, NEW S \in SUBSET Contracts, NEW w \in Workers, ClaimJob(w, S)
  PROVE  TypeOK'
<1>1. PICK k \in Keys :
         /\ job[k] \in Row /\ job[k].attempts < MaxAttempts
         /\ job' = [job EXCEPT ![k] = Lease(job[k])]
         /\ claim' = [claim EXCEPT ![w] =
                [key |-> k, attempt |-> job[k].attempts + 1, locked_at |-> now]]
  BY ClaimFacts
<1>2. now \in Nat
  BY DEF TypeOK
<1>3. Lease(job[k]) \in Row /\ job[k].attempts + 1 \in 1..MaxAttempts
  BY <1>1, <1>2, LeaseRow
<1>4. job' \in [Keys -> Row]
  BY <1>1, <1>3 DEF TypeOK
<1>5. claim'[w] \in Claim /\ claim' \in [Workers -> Claim \cup {NoClaim}]
  BY <1>1, <1>2, <1>3 DEF TypeOK, Claim
<1> QED
  BY <1>1, <1>4, <1>5 DEF TypeOK, ClaimJob, Goto, Steps

\* The worker's own state after a step that moves on, or returns.
WorkerTypeOK ==
  /\ pc \in [Workers -> Steps]
  /\ claim \in [Workers -> Claim \cup {NoClaim}]
  /\ \A w \in Workers : pc[w] # "idle" => claim[w] \in Claim
  /\ source \in [Workers -> Source]
  /\ seen \in [Workers -> SUBSET Versions]

LEMMA ReturnType ==
  ASSUME TypeOK, NEW w \in Workers, Return(w)
  PROVE  WorkerTypeOK'
BY DEF TypeOK, WorkerTypeOK, Return, Goto, Steps, NoSource, Source

LEMMA GotoType ==
  ASSUME TypeOK, NEW w \in Workers, NEW step \in Steps, Goto(w, step),
         pc[w] # "idle", UNCHANGED claim,
         source' \in [Workers -> Source],
         seen' \in [Workers -> SUBSET Versions]
  PROVE  WorkerTypeOK'
BY DEF TypeOK, WorkerTypeOK, Goto

LEMMA UpdateType ==
  ASSUME TypeOK, JobPerRevision, NEW c \in Contracts, Update(c)
  PROVE  TypeOK'
<1>1. content[c] \in 1..(MaxVersion - 1) /\ content[c] \in Nat
  BY DEF Update
<1>2. NextVersion(c) = content[c] + 1
  BY <1>1, NextVersionIs DEF JobPerRevision
<1>3. <<c, NextVersion(c)>> \in Keys
  BY <1>1, <1>2, RagAssumption DEF Keys, Versions
<1>4. job' \in [Keys -> Row]
  BY <1>3, EnqueueType DEF Update
<1> QED
  BY <1>1, <1>4, RagAssumption DEF TypeOK, Update, workerVars, Claim

\* What the worker adds is a row set, or none.
LEMMA BuiltType ==
  ASSUME TypeOK, NEW w \in Workers
  PROVE  Built(w) \in Chunks
BY DEF TypeOK, Built, Source, Chunks, NoChunks

LEMMA CompleteType ==
  ASSUME TypeOK, NEW w \in Workers, CompleteJob(w)
  PROVE  TypeOK'
<1>1. claim[w].key \in Keys /\ pc[w] # "idle"
  BY DEF TypeOK, CompleteJob, Claim
<1>2. chunks' \in [Keys -> Chunks]
  BY <1>1, BuiltType DEF CompleteJob, ReplaceContractChunks, TypeOK, Chunks, Inactive
<1>3. job' \in [Keys -> Row]
  BY <1>1, FinishRow DEF CompleteJob, TypeOK
<1>4. CASE Return(w)
  BY <1>2, <1>3, <1>4, ReturnType DEF CompleteJob, TypeOK, WorkerTypeOK
<1>5. CASE Goto(w, "failing") /\ UNCHANGED <<claim, source, seen>>
  <2>1. WorkerTypeOK'
    BY <1>1, <1>5, GotoType DEF TypeOK, Steps
  <2> QED
    BY <1>2, <1>3, <2>1 DEF CompleteJob, TypeOK, WorkerTypeOK
<1> QED
  BY <1>4, <1>5 DEF CompleteJob

LEMMA RecordType ==
  ASSUME TypeOK, NEW w \in Workers, RecordFailure(w)
  PROVE  TypeOK'
<1> DEFINE k == claim[w].key
<1>1. claim[w] \in Claim /\ k \in Keys /\ job[k] \in Row
  BY DEF TypeOK, RecordFailure, Claim
<1>2. ASSUME ClaimIsCurrent(w)
      PROVE  Fail(job[k]) \in Row
  <2>1. job[k].attempts \in 1..MaxAttempts /\ now \in Nat
    BY <1>1, <1>2 DEF ClaimIsCurrent, Claim, TypeOK
  <2> QED
    BY <1>1, <2>1, FailRow
<1>3. job' \in [Keys -> Row]
  BY <1>1, <1>2 DEF RecordFailure, TypeOK
<1> QED
  BY <1>3, ReturnType DEF RecordFailure, TypeOK, WorkerTypeOK

LEMMA WorkerType ==
  ASSUME TypeOK, NEW w \in Workers,
         \/ LoadContract(w) \/ LoadClauses(w) \/ BeginReplace(w)
         \/ LockSeenChunks(w) \/ IndexingFails(w) \/ Crash(w)
  PROVE  TypeOK'
<1>1. pc[w] # "idle" /\ claim[w].key[1] \in Contracts
  BY DEF TypeOK, Claim, Keys, LoadContract, LoadClauses, BeginReplace,
     LockSeenChunks, IndexingFails, Crash
<1>2. content[claim[w].key[1]] \in Nat
  BY <1>1 DEF TypeOK
<1>3. CASE LoadContract(w)
  BY <1>1, <1>2, <1>3 DEF LoadContract, TypeOK, Goto, Steps, Source
<1>4. CASE LoadClauses(w)
  <2>1. source' \in [Workers -> Source]
    <3>1. PICK text \in BOOLEAN :
            source' = [source EXCEPT ![w].clauses = content[claim[w].key[1]],
                                     ![w].text = text]
      BY <1>4 DEF LoadClauses
    <3>2. source[w] \in Source /\ source \in [Workers -> Source]
      BY DEF TypeOK
    <3> DEFINE new == [source[w] EXCEPT !.clauses = content[claim[w].key[1]], !.text = text]
    <3>3. new \in Source
      BY <1>2, <3>2 DEF Source
    <3>4. source' = [source EXCEPT ![w] = new]
      BY <3>1, <3>2
    <3> QED
      BY <3>2, <3>3, <3>4
  <2>2. WorkerTypeOK'
    BY <1>1, <1>4, <2>1, GotoType DEF LoadClauses, TypeOK, Steps
  <2> QED
    BY <1>4, <2>2 DEF LoadClauses, TypeOK, WorkerTypeOK
<1>5. CASE BeginReplace(w)
  <2>1. CASE Return(w)
    BY <1>5, <2>1, ReturnType DEF BeginReplace, TypeOK, WorkerTypeOK
  <2>2. CASE Goto(w, "replacing") /\ ~Return(w)
    <3>1. UNCHANGED <<claim, source>> /\ seen' \in [Workers -> SUBSET Versions]
      BY <1>5, <2>2 DEF BeginReplace, TypeOK
    <3>2. WorkerTypeOK'
      BY <1>1, <2>2, <3>1, GotoType DEF TypeOK, Steps
    <3> QED
      BY <1>5, <3>2 DEF BeginReplace, TypeOK, WorkerTypeOK
  <2> QED
    BY <1>5, <2>1, <2>2 DEF BeginReplace
<1>6. CASE LockSeenChunks(w)
  BY <1>6 DEF LockSeenChunks, TypeOK, Goto, Steps
<1>7. CASE IndexingFails(w)
  BY <1>7 DEF IndexingFails, TypeOK, Goto, Steps
<1>8. CASE Crash(w)
  BY <1>8, ReturnType DEF Crash, TypeOK, WorkerTypeOK
<1> QED
  BY <1>3, <1>4, <1>5, <1>6, <1>7, <1>8

LEMMA TickType == TypeOK /\ (Tick \/ UNCHANGED vars) => TypeOK'
BY DEF TypeOK, Tick, vars, workerVars

LEMMA NextType == TypeOK /\ JobPerRevision /\ [Next]_vars => TypeOK'
<1> SUFFICES ASSUME TypeOK, JobPerRevision, [Next]_vars
             PROVE  TypeOK'
  OBVIOUS
<1>1. \A c \in Contracts : {c} \in SUBSET Contracts
  OBVIOUS
<1> QED
  BY <1>1, ConfirmType, UpdateType, DeleteType, ClaimType, CompleteType,
     RecordType, WorkerType, TickType DEF Next, ProcessNextIndexJob

----------------------------------------------------------------------------
\* The conjuncts of IInv other than typing.
Safe == /\ LiveIsBorn /\ JobPerRevision /\ ClaimsNumbered /\ LockedIsCurrent
        /\ SourceFresh /\ ChunksOnlyIndexed /\ NeverOlderThanVersion

LEMMA InitSafe == Init => Safe
<1> SUFFICES ASSUME Init PROVE Safe
  OBVIOUS
<1>1. LiveIsBorn
  BY DEF Init, LiveIsBorn
<1>2. JobPerRevision
  BY DEF Init, JobPerRevision, NoRow, Keys, Versions
<1>3. ClaimsNumbered /\ LockedIsCurrent /\ SourceFresh
  BY DEF Init, ClaimsNumbered, LockedIsCurrent, SourceFresh, Completing
<1>4. ChunksOnlyIndexed
  BY DEF Init, ChunksOnlyIndexed, NoRow, NoChunks
<1>5. NeverOlderThanVersion
  BY DEF Init, NeverOlderThanVersion, Keys
<1> QED
  BY <1>1, <1>2, <1>3, <1>4, <1>5 DEF Safe

\* A contract that does not exist has neither jobs nor chunks.
LEMMA NothingOfAbsent ==
  ASSUME TypeOK, JobPerRevision, ChunksOnlyIndexed,
         NEW c \in Contracts, content[c] = 0, NEW v \in Versions
  PROVE  job[<<c, v>>].status = "ABSENT" /\ chunks[<<c, v>>] = NoChunks
<1>1. {x \in Versions : job[<<c, x>>].status # "ABSENT"} = {}
  BY DEF JobPerRevision
<1> QED
  BY <1>1 DEF ChunksOnlyIndexed, Keys

LEMMA ConfirmSafe ==
  ASSUME TypeOK, Safe, NEW c \in Contracts, Confirm(c)
  PROVE  Safe'
<1> USE DEF Safe
<1>1. c \notin born /\ content[c] = 0
  BY DEF Confirm, LiveIsBorn
<1>2. content' = [content EXCEPT ![c] = 1] /\ born' = born \cup {c}
      /\ UNCHANGED <<chunks, pc, claim, source, seen, now>>
  BY DEF Confirm, workerVars
<1>3. PICK t : job' = [job EXCEPT ![<<c, 1>>] = NewRow(t)]
  BY DEF Confirm, Enqueue
<1>4. <<c, 1>> \in Keys /\ 1 \in Versions
  BY RagAssumption DEF Keys, Versions
<1>5. \A v \in Versions : job[<<c, v>>].status = "ABSENT"
                         /\ chunks[<<c, v>>] = NoChunks
  BY <1>1, NothingOfAbsent
<1>6. \A k \in Keys : k[1] # c => job'[k] = job[k]
  BY <1>3 DEF TypeOK
<1>7. \A v \in Versions : job'[<<c, v>>].status =
                           IF v = 1 THEN "PENDING" ELSE "ABSENT"
  BY <1>3, <1>4, <1>5 DEF TypeOK, NewRow, Keys
<1>8. \A w \in Workers : pc[w] # "idle" => /\ claim[w].key \in Keys
                                           /\ claim[w].key[1] # c
                                           /\ claim[w].key[1] \in Contracts
  BY <1>1 DEF TypeOK, ClaimsNumbered, Claim, Keys
<1>9. LiveIsBorn'
  BY <1>2 DEF LiveIsBorn, TypeOK
<1>10. JobPerRevision'
  <2> SUFFICES ASSUME NEW d \in Contracts
               PROVE  {v \in Versions : job'[<<d, v>>].status # "ABSENT"}
                        = 1..content'[d]
    BY DEF JobPerRevision
  <2>1. CASE d = c
    BY <1>2, <1>4, <1>7, <2>1 DEF TypeOK
  <2>2. CASE d # c
    <3>1. content'[d] = content[d]
      BY <1>2, <2>2 DEF TypeOK
    <3>2. \A v \in Versions : job'[<<d, v>>] = job[<<d, v>>]
      BY <1>6, <2>2 DEF Keys
    <3> QED
      BY <3>1, <3>2 DEF JobPerRevision
  <2> QED
    BY <2>1, <2>2
<1>11. ClaimsNumbered'
  BY <1>2, <1>6, <1>8 DEF ClaimsNumbered, TypeOK
<1>12. LockedIsCurrent'
  BY <1>2, <1>6, <1>8 DEF LockedIsCurrent, Completing, ClaimIsCurrent
<1>13. SourceFresh'
  BY <1>2, <1>8 DEF SourceFresh, TypeOK
<1>14. ChunksOnlyIndexed'
  <2> SUFFICES ASSUME NEW k \in Keys
               PROVE  chunks[k] # NoChunks => job'[k].status = "INDEXED"
    BY <1>2 DEF ChunksOnlyIndexed
  <2>1. CASE k[1] = c
    BY <1>5, <1>7, <2>1 DEF Keys
  <2>2. CASE k[1] # c
    BY <1>6, <2>2 DEF ChunksOnlyIndexed
  <2> QED
    BY <2>1, <2>2
<1>15. NeverOlderThanVersion'
  BY <1>2, <1>5 DEF NeverOlderThanVersion, TypeOK
<1> QED
  BY <1>9, <1>10, <1>11, <1>12, <1>13, <1>14, <1>15

LEMMA UpdateSafe ==
  ASSUME TypeOK, Safe, NEW c \in Contracts, Update(c)
  PROVE  Safe'
<1> USE DEF Safe
<1> DEFINE n == content[c]
<1>1. n \in 1..(MaxVersion - 1) /\ n \in Nat /\ c \in born
  BY DEF Update, LiveIsBorn
<1>2. content' = [content EXCEPT ![c] = n + 1]
      /\ UNCHANGED <<born, chunks, pc, claim, source, seen, now>>
  BY DEF Update, workerVars
<1>3. NextVersion(c) = n + 1
  BY <1>1, NextVersionIs DEF JobPerRevision
<1>4. PICK t : job' = [job EXCEPT ![<<c, n + 1>>] = NewRow(t)]
  BY <1>3 DEF Update, Enqueue
<1>5. <<c, n + 1>> \in Keys /\ n + 1 \in Versions /\ n + 1 \notin 1..n
  BY <1>1, RagAssumption DEF Keys, Versions
<1>6. job[<<c, n + 1>>].status = "ABSENT"
  BY <1>5 DEF JobPerRevision
<1>7. \A k \in Keys : k # <<c, n + 1>> => job'[k] = job[k]
  BY <1>4 DEF TypeOK
<1>8. job'[<<c, n + 1>>].status = "PENDING"
  BY <1>4, <1>5 DEF TypeOK, NewRow
<1>9. \A d \in Contracts : d # c => content'[d] = content[d]
  BY <1>2 DEF TypeOK
<1>10. content'[c] = n + 1
  BY <1>2 DEF TypeOK
<1>11. \A w \in Workers : pc[w] # "idle" => /\ claim[w].key \in Keys
                                            /\ claim[w].key[1] \in Contracts
                                            /\ claim[w].key[2] \in Nat
                                            /\ claim[w].key # <<c, n + 1>>
  <2> SUFFICES ASSUME NEW w \in Workers, pc[w] # "idle"
               PROVE  /\ claim[w].key \in Keys /\ claim[w].key[1] \in Contracts
                      /\ claim[w].key[2] \in Nat /\ claim[w].key # <<c, n + 1>>
    OBVIOUS
  <2>1. claim[w].key \in Keys
    BY DEF TypeOK, Claim
  <2>2. content[claim[w].key[1]] = 0 \/ claim[w].key[2] <= content[claim[w].key[1]]
    BY DEF ClaimsNumbered
  <2> QED
    BY <1>1, <2>1, <2>2 DEF Keys, Versions
<1>12. LiveIsBorn'
  BY <1>1, <1>2 DEF LiveIsBorn, TypeOK
<1>13. JobPerRevision'
  <2> SUFFICES ASSUME NEW d \in Contracts
               PROVE  {v \in Versions : job'[<<d, v>>].status # "ABSENT"}
                        = 1..content'[d]
    BY DEF JobPerRevision
  <2>1. CASE d = c
    <3>1. {v \in Versions : job'[<<c, v>>].status # "ABSENT"}
            = {v \in Versions : job[<<c, v>>].status # "ABSENT"} \cup {n + 1}
      BY <1>5, <1>7, <1>8 DEF Keys
    <3> QED
      BY <1>1, <1>10, <2>1, <3>1 DEF JobPerRevision
  <2>2. CASE d # c
    <3>1. \A v \in Versions : job'[<<d, v>>] = job[<<d, v>>]
      BY <1>7, <2>2 DEF Keys
    <3> QED
      BY <1>9, <2>2, <3>1 DEF JobPerRevision
  <2> QED
    BY <2>1, <2>2
<1>14. ClaimsNumbered'
  <2> SUFFICES ASSUME NEW w \in Workers, pc[w] # "idle"
               PROVE  LET k == claim[w].key
                      IN /\ k[1] \in born
                         /\ content'[k[1]] = 0 \/ k[2] <= content'[k[1]]
                         /\ job'[k].status # "ABSENT" =>
                              claim[w].attempt <= job'[k].attempts
                         /\ \A x \in Workers :
                              /\ pc[x] # "idle" /\ claim[x].key = k
                              /\ claim[x].attempt = claim[w].attempt
                              => x = w
    BY <1>2 DEF ClaimsNumbered
  <2>1. content'[claim[w].key[1]] = 0
        \/ claim[w].key[2] <= content'[claim[w].key[1]]
    BY <1>1, <1>9, <1>10, <1>11 DEF ClaimsNumbered
  <2>2. job'[claim[w].key] = job[claim[w].key]
    BY <1>7, <1>11
  <2>3. /\ claim[w].key[1] \in born
        /\ job[claim[w].key].status # "ABSENT" =>
             claim[w].attempt <= job[claim[w].key].attempts
        /\ \A x \in Workers :
             /\ pc[x] # "idle" /\ claim[x].key = claim[w].key
             /\ claim[x].attempt = claim[w].attempt
             => x = w
    BY DEF ClaimsNumbered
  <2> QED
    BY <2>1, <2>2, <2>3
<1>15. LockedIsCurrent'
  BY <1>2, <1>7, <1>11 DEF LockedIsCurrent, Completing, ClaimIsCurrent
<1>16. SourceFresh'
  <2> SUFFICES ASSUME NEW w \in Workers, pc[w] # "idle"
               PROVE  LET k == claim[w].key
                      IN /\ content[k[1]] = 0 =>  content'[k[1]] = 0
                         /\ content[k[1]] \in Nat /\ content'[k[1]] \in Nat
                         /\ content[k[1]] <= content'[k[1]]
    BY <1>2, <1>11 DEF SourceFresh, TypeOK
  <2> QED
    BY <1>1, <1>9, <1>10, <1>11 DEF TypeOK
<1>17. ChunksOnlyIndexed'
  BY <1>2, <1>6, <1>7, <1>8 DEF ChunksOnlyIndexed
<1>18. NeverOlderThanVersion'
  <2> SUFFICES ASSUME NEW d \in Contracts
               PROVE  /\ content[d] \in Nat /\ content'[d] \in Nat
                      /\ content[d] <= content'[d]
    BY <1>2 DEF NeverOlderThanVersion, Versions
  <2> QED
    BY <1>1, <1>9, <1>10 DEF TypeOK
<1> QED
  BY <1>12, <1>13, <1>14, <1>15, <1>16, <1>17, <1>18

LEMMA DeleteSafe ==
  ASSUME TypeOK, Safe, NEW c \in Contracts, Delete(c)
  PROVE  Safe'
<1> USE DEF Safe
<1>1. content' = [content EXCEPT ![c] = 0]
      /\ UNCHANGED <<born, pc, claim, source, seen, now>>
  BY DEF Delete, workerVars
<1>2. \A k \in Keys : /\ k[1] # c => job'[k] = job[k] /\ chunks'[k] = chunks[k]
                      /\ k[1] = c => job'[k] = NoRow /\ chunks'[k] = NoChunks
  BY DEF Delete
<1>3. \A d \in Contracts : d # c => content'[d] = content[d]
  BY <1>1 DEF TypeOK
<1>4. content'[c] = 0
  BY <1>1 DEF TypeOK
<1>5. NoRow.status = "ABSENT"
  BY DEF NoRow
<1>6. \A w \in Workers : pc[w] # "idle" => /\ claim[w].key \in Keys
                                           /\ claim[w].key[1] \in Contracts
  BY DEF TypeOK, Claim, Keys
<1>7. \A w \in Workers : Completing(w) => claim[w].key[1] # c
  <2> SUFFICES ASSUME NEW w \in Workers, Completing(w), claim[w].key[1] = c
               PROVE  FALSE
    OBVIOUS
  <2>1. PICK v \in Versions : claim[w].key = <<c, v>>
    BY <1>6 DEF Completing, Keys
  <2> QED
    BY <2>1 DEF Delete, JobLocked
<1>8. LiveIsBorn'
  BY <1>1, <1>3, <1>4 DEF LiveIsBorn
<1>9. JobPerRevision'
  <2> SUFFICES ASSUME NEW d \in Contracts
               PROVE  {v \in Versions : job'[<<d, v>>].status # "ABSENT"}
                        = 1..content'[d]
    BY DEF JobPerRevision
  <2>1. CASE d = c
    BY <1>2, <1>4, <1>5, <2>1 DEF Keys
  <2>2. CASE d # c
    BY <1>2, <1>3, <2>2 DEF JobPerRevision, Keys
  <2> QED
    BY <2>1, <2>2
<1>10. ClaimsNumbered'
  BY <1>1, <1>2, <1>3, <1>4, <1>5, <1>6 DEF ClaimsNumbered
<1>11. LockedIsCurrent'
  BY <1>1, <1>2, <1>6, <1>7 DEF LockedIsCurrent, Completing, ClaimIsCurrent
<1>12. SourceFresh'
  BY <1>1, <1>3, <1>4, <1>6 DEF SourceFresh
<1>13. ChunksOnlyIndexed'
  BY <1>2, <1>5 DEF ChunksOnlyIndexed
<1>14. NeverOlderThanVersion'
  BY <1>2, <1>3 DEF NeverOlderThanVersion, Keys
<1> QED
  BY <1>8, <1>9, <1>10, <1>11, <1>12, <1>13, <1>14

LEMMA ClaimSafe ==
  ASSUME TypeOK, Safe, NEW S \in SUBSET Contracts, NEW w \in Workers,
         ClaimJob(w, S)
  PROVE  Safe'
<1> USE DEF Safe
<1>1. PICK k \in Keys :
         /\ Claimable(job[k]) /\ ~JobLocked(k)
         /\ job[k] \in Row /\ job[k].attempts < MaxAttempts
         /\ job' = [job EXCEPT ![k] = Lease(job[k])]
         /\ claim' = [claim EXCEPT ![w] =
                [key |-> k, attempt |-> job[k].attempts + 1, locked_at |-> now]]
  BY ClaimFacts
<1>2. /\ pc[w] = "idle" /\ pc' = [pc EXCEPT ![w] = "claimed"]
      /\ UNCHANGED <<content, born, chunks, source, seen, now>>
  BY DEF ClaimJob, Goto
<1>3. /\ job'[k].status = "INDEXING"
      /\ job'[k].attempts = job[k].attempts + 1
      /\ job[k].attempts \in Nat
  <2>1. job'[k] = Lease(job[k])
    BY <1>1 DEF TypeOK
  <2>2. now \in Nat /\ job[k].attempts \in Nat
    BY <1>1, RagAssumption DEF TypeOK, Row
  <2> QED
    BY <1>1, <2>1, <2>2, LeaseRow
<1>4. \A x \in Keys : x # k => job'[x] = job[x]
  BY <1>1 DEF TypeOK
<1>5. job[k].status \in {"PENDING", "FAILED", "INDEXING"}
  BY <1>1 DEF Claimable, ReadyToRetry, StaleClaim
<1>6. claim'[w].key = k /\ claim'[w].attempt = job[k].attempts + 1
  BY <1>1 DEF TypeOK
<1>7. \A x \in Workers : x # w => pc'[x] = pc[x] /\ claim'[x] = claim[x]
  BY <1>1, <1>2 DEF TypeOK
<1>8. pc'[w] = "claimed"
  BY <1>2 DEF TypeOK
<1>9. k[1] \in Contracts /\ k[2] \in Versions /\ k = <<k[1], k[2]>>
      /\ k[2] \in 1..content[k[1]] /\ content[k[1]] # 0
  BY <1>5 DEF Keys, JobPerRevision, TypeOK
<1>10. LiveIsBorn' /\ NeverOlderThanVersion'
  BY <1>2 DEF LiveIsBorn, NeverOlderThanVersion
<1>11. JobPerRevision'
  <2>1. \A x \in Keys : (job'[x].status # "ABSENT") <=> (job[x].status # "ABSENT")
    BY <1>3, <1>4, <1>5
  <2> QED
    BY <1>2, <2>1 DEF JobPerRevision, Keys
<1>12. \A x \in Workers : pc[x] # "idle" =>
         /\ claim[x].key \in Keys /\ claim[x].attempt \in Nat
         /\ claim[x].key = k => claim[x].attempt <= job[k].attempts
  BY <1>5 DEF ClaimsNumbered, TypeOK, Claim
<1>13. ClaimsNumbered'
  <2> SUFFICES ASSUME NEW x \in Workers, pc'[x] # "idle"
               PROVE  /\ claim'[x].key[1] \in born
                      /\ \/ content[claim'[x].key[1]] = 0
                         \/ claim'[x].key[2] <= content[claim'[x].key[1]]
                      /\ job'[claim'[x].key].status # "ABSENT" =>
                           claim'[x].attempt <= job'[claim'[x].key].attempts
                      /\ \A y \in Workers :
                           /\ pc'[y] # "idle" /\ claim'[y].key = claim'[x].key
                           /\ claim'[y].attempt = claim'[x].attempt
                           => y = x
    BY <1>2 DEF ClaimsNumbered
  <2>1. CASE x = w
    <3>1. \A y \in Workers : /\ pc'[y] # "idle" /\ claim'[y].key = k
                             /\ claim'[y].attempt = job[k].attempts + 1
                             => y = w
      BY <1>3, <1>7, <1>12
    <3>2. k[1] \in born /\ k[2] <= content[k[1]]
      BY <1>9 DEF LiveIsBorn, TypeOK
    <3> QED
      BY <1>3, <1>6, <2>1, <3>1, <3>2
  <2>2. CASE x # w
    <3>1. pc[x] # "idle" /\ claim'[x] = claim[x]
      BY <1>7, <2>2
    <3>2. /\ claim[x].key[1] \in born
          /\ \/ content[claim[x].key[1]] = 0
             \/ claim[x].key[2] <= content[claim[x].key[1]]
      BY <3>1 DEF ClaimsNumbered
    <3>3. job'[claim[x].key].status # "ABSENT" =>
            claim[x].attempt <= job'[claim[x].key].attempts
      BY <1>3, <1>4, <1>12, <3>1 DEF ClaimsNumbered
    <3>4. ASSUME NEW y \in Workers, pc'[y] # "idle",
                 claim'[y].key = claim[x].key,
                 claim'[y].attempt = claim[x].attempt
          PROVE  y = x
      <4>1. y # w
        BY <1>3, <1>6, <1>12, <3>1, <3>4
      <4>2. pc[y] # "idle" /\ claim'[y] = claim[y]
        BY <1>7, <3>4, <4>1
      <4> QED
        BY <3>1, <3>4, <4>2 DEF ClaimsNumbered
    <3> QED
      BY <3>1, <3>2, <3>3, <3>4
  <2> QED
    BY <2>1, <2>2
<1>14. LockedIsCurrent'
  <2> SUFFICES ASSUME NEW x \in Workers, Completing(x)'
               PROVE  ClaimIsCurrent(x)'
    BY DEF LockedIsCurrent
  <2>1. x # w /\ Completing(x) /\ claim'[x] = claim[x]
    BY <1>7, <1>8 DEF Completing
  <2>2. claim[x].key \in Keys /\ claim[x].key # k
    BY <1>1, <1>12, <2>1 DEF JobLocked, Completing
  <2>3. job'[claim[x].key] = job[claim[x].key]
    BY <1>4, <2>2
  <2> QED
    BY <2>1, <2>3 DEF LockedIsCurrent, ClaimIsCurrent
<1>15. SourceFresh'
  BY <1>2, <1>7, <1>8 DEF SourceFresh
<1>16. ChunksOnlyIndexed'
  BY <1>2, <1>3, <1>4, <1>5 DEF ChunksOnlyIndexed
<1> QED
  BY <1>10, <1>11, <1>13, <1>14, <1>15, <1>16

\* Steps of a worker that write no table: what is left to show is that its
\* own claim, lock and source stay in order.
LEMMA LocalSafe ==
  ASSUME TypeOK, Safe, NEW w \in Workers,
         \/ LoadContract(w) \/ LoadClauses(w) \/ BeginReplace(w)
         \/ LockSeenChunks(w) \/ IndexingFails(w) \/ Crash(w)
  PROVE  Safe'
<1> USE DEF Safe
<1>1. UNCHANGED <<content, born, job, chunks, now>> /\ pc[w] # "idle"
  BY DEF LoadContract, LoadClauses, BeginReplace, LockSeenChunks,
     IndexingFails, Crash
<1>2. \A x \in Workers \ {w} : /\ pc'[x] = pc[x] /\ claim'[x] = claim[x]
                               /\ source'[x] = source[x]
  BY DEF LoadContract, LoadClauses, BeginReplace, LockSeenChunks,
     IndexingFails, Crash, Goto, Return, TypeOK
<1>3. pc'[w] = "idle" \/ claim'[w] = claim[w]
  BY DEF LoadContract, LoadClauses, BeginReplace, LockSeenChunks,
     IndexingFails, Crash, Goto, Return, TypeOK
<1>4. pc'[w] \in {"replacing", "writing"} => Completing(w) \/ ClaimIsCurrent(w)
  BY DEF LoadContract, LoadClauses, BeginReplace, LockSeenChunks,
     IndexingFails, Crash, Goto, Return, TypeOK, Completing
<1>5. LiveIsBorn' /\ JobPerRevision' /\ ChunksOnlyIndexed'
      /\ NeverOlderThanVersion'
  BY <1>1 DEF LiveIsBorn, JobPerRevision, ChunksOnlyIndexed,
     NeverOlderThanVersion
<1>6. \A x \in Workers : pc'[x] # "idle" =>
         pc[x] # "idle" /\ claim'[x] = claim[x]
  BY <1>1, <1>2, <1>3
<1>7. ClaimsNumbered'
  BY <1>1, <1>6 DEF ClaimsNumbered
<1>8. LockedIsCurrent'
  <2> SUFFICES ASSUME NEW x \in Workers, Completing(x)'
               PROVE  ClaimIsCurrent(x)'
    BY DEF LockedIsCurrent
  <2>1. ClaimIsCurrent(x)
    BY <1>2, <1>4 DEF LockedIsCurrent, Completing
  <2>2. claim'[x] = claim[x]
    BY <1>6 DEF Completing
  <2> QED
    BY <1>1, <2>1, <2>2 DEF ClaimIsCurrent
<1> DEFINE k == claim[w].key
<1>9. k \in Keys /\ k[1] \in Contracts /\ k[2] \in Nat /\ content[k[1]] \in Nat
      /\ (content[k[1]] = 0 \/ content[k[1]] \in k[2]..content[k[1]])
  BY <1>1 DEF TypeOK, Claim, Keys, Versions, ClaimsNumbered
<1>10. pc'[w] \in {"loading", "built", "replacing", "writing"} =>
         content[k[1]] = 0 \/ source'[w].header \in k[2]..content[k[1]]
  <2>1. CASE LoadContract(w)
    BY <1>9, <2>1 DEF LoadContract, TypeOK, Source
  <2>2. CASE LoadClauses(w)
    BY <2>2 DEF LoadClauses, TypeOK, SourceFresh, Source
  <2>3. CASE BeginReplace(w) \/ LockSeenChunks(w) \/ IndexingFails(w) \/ Crash(w)
    BY <2>3 DEF BeginReplace, LockSeenChunks, IndexingFails, Crash, Goto,
       Return, TypeOK, SourceFresh
  <2> QED
    BY <2>1, <2>2, <2>3
<1>11. pc'[w] \in {"built", "replacing", "writing"} =>
         content[k[1]] = 0 \/ source'[w].clauses \in k[2]..content[k[1]]
  <2>1. CASE LoadContract(w)
    BY <2>1 DEF LoadContract, Goto, TypeOK
  <2>2. CASE LoadClauses(w)
    BY <1>9, <2>2 DEF LoadClauses, TypeOK, Source
  <2>3. CASE BeginReplace(w) \/ LockSeenChunks(w) \/ IndexingFails(w) \/ Crash(w)
    BY <2>3 DEF BeginReplace, LockSeenChunks, IndexingFails, Crash, Goto,
       Return, TypeOK, SourceFresh
  <2> QED
    BY <2>1, <2>2, <2>3
<1>12. SourceFresh'
  <2> SUFFICES ASSUME NEW x \in Workers, pc'[x] # "idle"
               PROVE  LET j == claim[x].key
                      IN /\ pc'[x] \in {"loading", "built", "replacing", "writing"}
                            => content[j[1]] = 0
                               \/ source'[x].header \in j[2]..content[j[1]]
                         /\ pc'[x] \in {"built", "replacing", "writing"}
                            => content[j[1]] = 0
                               \/ source'[x].clauses \in j[2]..content[j[1]]
    BY <1>1, <1>6 DEF SourceFresh
  <2>1. CASE x = w
    BY <1>10, <1>11, <2>1
  <2>2. CASE x # w
    BY <1>2, <2>2 DEF SourceFresh
  <2> QED
    BY <2>1, <2>2
<1> QED
  BY <1>5, <1>7, <1>8, <1>12

\* Steps of a worker that write its job's row and keep its attempt number.
\* claim, source and pc move as in Return or to "failing".
LEMMA WriteBackSafe ==
  ASSUME TypeOK, Safe, NEW w \in Workers, pc[w] # "idle",
         ClaimIsCurrent(w),
         job'[claim[w].key].status \in {"INDEXED", "FAILED"},
         job'[claim[w].key].attempts = job[claim[w].key].attempts,
         \A x \in Keys : x # claim[w].key => job'[x] = job[x],
         \A x \in Workers \ {w} : Completing(x) => claim[x].key # claim[w].key,
         UNCHANGED <<content, born, now>>,
         Return(w) \/ (Goto(w, "failing") /\ UNCHANGED <<claim, source, seen>>)
  PROVE  JobPerRevision' /\ ClaimsNumbered' /\ LockedIsCurrent' /\ SourceFresh'
<1> USE DEF Safe
<1> DEFINE k == claim[w].key
<1>1. k \in Keys
  BY DEF TypeOK, Claim
<1>2. job'[k].status \in {"INDEXED", "FAILED"}
      /\ job'[k].attempts = job[k].attempts
      /\ \A x \in Keys : x # k => job'[x] = job[x]
  OBVIOUS
<1>3. job[k].status = "INDEXING"
  BY DEF ClaimIsCurrent
<1>4. /\ pc'[w] \in {"idle", "failing"}
      /\ \A x \in Workers \ {w} : /\ pc'[x] = pc[x] /\ claim'[x] = claim[x]
                                  /\ source'[x] = source[x]
  BY DEF Return, Goto, TypeOK
<1>5. \A x \in Workers : pc'[x] # "idle" =>
         /\ pc[x] # "idle" /\ claim'[x] = claim[x] /\ claim[x].key \in Keys
  BY <1>4 DEF Return, Goto, TypeOK, Claim
<1>6. \A x \in Keys : /\ (job'[x].status # "ABSENT") <=> (job[x].status # "ABSENT")
                      /\ job'[x].attempts = job[x].attempts
  BY <1>2, <1>3
<1>7. JobPerRevision'
  BY <1>6 DEF JobPerRevision, Keys
<1>8. ClaimsNumbered'
  BY <1>5, <1>6 DEF ClaimsNumbered
<1>9. LockedIsCurrent'
  <2> SUFFICES ASSUME NEW x \in Workers, Completing(x)'
               PROVE  ClaimIsCurrent(x)'
    BY DEF LockedIsCurrent
  <2>1. x # w /\ Completing(x) /\ claim'[x] = claim[x] /\ claim[x].key \in Keys
    BY <1>4, <1>5 DEF Completing
  <2>2. job'[claim[x].key] = job[claim[x].key]
    BY <1>2, <2>1
  <2> QED
    BY <2>1, <2>2 DEF LockedIsCurrent, ClaimIsCurrent
<1>10. SourceFresh'
  BY <1>4, <1>5 DEF SourceFresh
<1> QED
  BY <1>7, <1>8, <1>9, <1>10

\* What is known when a worker commits: it owns the job, no other worker is
\* replacing the chunks of the same version, and what it read is fresh.
LEMMA CompleteFacts ==
  ASSUME TypeOK, Safe, NEW w \in Workers, CompleteJob(w)
  PROVE  LET k == claim[w].key
         IN /\ k \in Keys /\ k[1] \in Contracts /\ k[2] \in Versions
            /\ job[k] \in Row /\ ClaimIsCurrent(w)
            /\ \A x \in Workers \ {w} : Completing(x) => claim[x].key # k
            /\ source[w].header \in k[2]..content[k[1]]
            /\ source[w].clauses \in k[2]..content[k[1]]
<1> USE DEF Safe
<1> DEFINE k == claim[w].key
<1>1. pc[w] = "writing" /\ Completing(w)
  BY DEF CompleteJob, Completing
<1>2. k \in Keys /\ k[1] \in Contracts /\ k[2] \in Versions /\ job[k] \in Row
      /\ k = <<k[1], k[2]>>
  BY <1>1 DEF TypeOK, Claim, Keys
<1>3. ClaimIsCurrent(w)
  BY <1>1 DEF LockedIsCurrent
<1>4. ASSUME NEW x \in Workers \ {w}, Completing(x)
      PROVE  claim[x].key # k
  <2> SUFFICES ASSUME claim[x].key = k
               PROVE  FALSE
    OBVIOUS
  <2>1. ClaimIsCurrent(x)
    BY <1>4 DEF LockedIsCurrent
  <2>2. claim[x].attempt = claim[w].attempt
    BY <1>3, <2>1 DEF ClaimIsCurrent
  <2> QED
    BY <1>1, <1>4, <2>2 DEF ClaimsNumbered, Completing
<1>5. content[k[1]] # 0
  <2>1. k[2] \in 1..content[k[1]]
    BY <1>2, <1>3 DEF ClaimIsCurrent, JobPerRevision
  <2> QED
    BY <2>1
<1> QED
  BY <1>1, <1>2, <1>3, <1>4, <1>5 DEF SourceFresh

LEMMA CompleteSafe ==
  ASSUME TypeOK, Safe, NEW w \in Workers, CompleteJob(w)
  PROVE  Safe'
<1> USE DEF Safe
<1> DEFINE k == claim[w].key
<1>1. /\ k \in Keys /\ k[1] \in Contracts /\ k[2] \in Versions
      /\ job[k] \in Row /\ ClaimIsCurrent(w)
      /\ \A x \in Workers \ {w} : Completing(x) => claim[x].key # k
      /\ source[w].header \in k[2]..content[k[1]]
      /\ source[w].clauses \in k[2]..content[k[1]]
  BY CompleteFacts
<1>2. UNCHANGED <<content, born, now>> /\ pc[w] # "idle"
      /\ job' = [job EXCEPT ![k] = Finish(job[k])]
      /\ (Return(w) \/ (Goto(w, "failing") /\ UNCHANGED <<claim, source, seen>>))
  BY DEF CompleteJob
<1>3. Finish(job[k]).status = "INDEXED"
      /\ Finish(job[k]).attempts = job[k].attempts
  BY <1>1, FinishRow
<1>4. JobPerRevision' /\ ClaimsNumbered' /\ LockedIsCurrent' /\ SourceFresh'
  <2>1. /\ job'[claim[w].key].status \in {"INDEXED", "FAILED"}
        /\ job'[claim[w].key].attempts = job[claim[w].key].attempts
        /\ \A x \in Keys : x # claim[w].key => job'[x] = job[x]
    BY <1>1, <1>2, <1>3 DEF TypeOK
  <2> HIDE DEF Safe
  <2> QED
    BY <1>1, <1>2, <2>1, WriteBackSafe
<1>5. LiveIsBorn'
  BY <1>2 DEF LiveIsBorn
<1>6. \/ chunks'[k] = NoChunks
      \/ /\ chunks'[k].header = source[w].header
         /\ chunks'[k].clauses = source[w].clauses
  BY <1>1 DEF CompleteJob, ReplaceContractChunks, Built
<1>7. \A x \in Keys : x # k => \/ chunks'[x] = chunks[x]
                              \/ chunks'[x] = Inactive(chunks[x])
  BY DEF CompleteJob, ReplaceContractChunks
<1>8. \A x \in Keys : chunks[x] \in Chunks
  BY DEF TypeOK
<1>9. NeverOlderThanVersion'
  <2> SUFFICES ASSUME NEW c \in Contracts, NEW v \in Versions,
                      chunks'[<<c, v>>] # NoChunks
               PROVE  /\ chunks'[<<c, v>>].header \in v..content[c]
                      /\ chunks'[<<c, v>>].clauses \in v..content[c]
    BY <1>2 DEF NeverOlderThanVersion
  <2>1. <<c, v>> \in Keys /\ chunks[<<c, v>>] \in Chunks
    BY <1>8 DEF Keys
  <2>2. CASE <<c, v>> = k
    BY <1>1, <1>6, <2>2
  <2>3. CASE <<c, v>> # k
    <3>1. chunks[<<c, v>>] # NoChunks
      <4>1. chunks[<<c, v>>] = NoChunks => Inactive(chunks[<<c, v>>]) = NoChunks
        BY DEF NoChunks, Inactive
      <4> QED
        BY <1>7, <2>1, <2>3, <4>1
    <3>2. /\ chunks'[<<c, v>>].header = chunks[<<c, v>>].header
          /\ chunks'[<<c, v>>].clauses = chunks[<<c, v>>].clauses
      <4>1. /\ Inactive(chunks[<<c, v>>]).header = chunks[<<c, v>>].header
            /\ Inactive(chunks[<<c, v>>]).clauses = chunks[<<c, v>>].clauses
        BY DEF Inactive
      <4> QED
        BY <1>7, <2>1, <2>3, <4>1
    <3> QED
      BY <3>1, <3>2 DEF NeverOlderThanVersion
  <2> QED
    BY <2>2, <2>3
<1>10. ChunksOnlyIndexed'
  <2> SUFFICES ASSUME NEW x \in Keys, chunks'[x] # NoChunks
               PROVE  job'[x].status = "INDEXED"
    BY DEF ChunksOnlyIndexed
  <2>1. CASE x = k
    BY <1>1, <1>2, <1>3, <2>1 DEF TypeOK
  <2>2. CASE x # k
    <3>1. job'[x] = job[x]
      BY <1>2, <2>2 DEF TypeOK
    <3>2. chunks[x] # NoChunks
      BY <1>7, <2>2 DEF NoChunks, Inactive
    <3> QED
      BY <3>1, <3>2 DEF ChunksOnlyIndexed
  <2> QED
    BY <2>1, <2>2
<1> QED
  BY <1>4, <1>5, <1>9, <1>10

LEMMA RecordSafe ==
  ASSUME TypeOK, Safe, NEW w \in Workers, RecordFailure(w)
  PROVE  Safe'
<1> USE DEF Safe
<1> DEFINE k == claim[w].key
<1>1. /\ pc[w] # "idle" /\ ~JobLocked(k) /\ Return(w)
      /\ UNCHANGED <<content, born, chunks, now>>
  BY DEF RecordFailure
<1>2. k \in Keys /\ job[k] \in Row /\ claim[w].attempt \in 1..MaxAttempts
      /\ now \in Nat
  BY <1>1 DEF TypeOK, Claim
<1>3. LiveIsBorn' /\ NeverOlderThanVersion'
  BY <1>1 DEF LiveIsBorn, NeverOlderThanVersion
<1>4. CASE ClaimIsCurrent(w) /\ job' = [job EXCEPT ![k] = Fail(job[k])]
  <2>1. Fail(job[k]).status = "FAILED" /\ Fail(job[k]).attempts = job[k].attempts
    BY <1>2, <1>4, FailRow DEF ClaimIsCurrent
  <2>2. \A x \in Workers \ {w} : Completing(x) => claim[x].key # k
    BY <1>1 DEF JobLocked
  <2>3. JobPerRevision' /\ ClaimsNumbered' /\ LockedIsCurrent' /\ SourceFresh'
    <3>1. /\ job'[claim[w].key].status \in {"INDEXED", "FAILED"}
          /\ job'[claim[w].key].attempts = job[claim[w].key].attempts
          /\ \A x \in Keys : x # claim[w].key => job'[x] = job[x]
      BY <1>2, <1>4, <2>1 DEF TypeOK
    <3> HIDE DEF Safe
    <3> QED
      BY <1>1, <1>4, <2>2, <3>1, WriteBackSafe
  <2>4. ChunksOnlyIndexed'
    BY <1>1, <1>2, <1>4, <2>1 DEF ChunksOnlyIndexed, ClaimIsCurrent, TypeOK
  <2> QED
    BY <1>3, <2>3, <2>4
<1>5. CASE UNCHANGED job
  <2>1. \A x \in Workers : /\ pc'[x] # "idle" => pc[x] # "idle"
                           /\ pc'[x] # "idle" => /\ x # w /\ pc'[x] = pc[x]
                                                /\ claim'[x] = claim[x]
                                                /\ source'[x] = source[x]
    BY <1>1 DEF Return, Goto, TypeOK
  <2>2. JobPerRevision' /\ ChunksOnlyIndexed'
    BY <1>1, <1>5 DEF JobPerRevision, ChunksOnlyIndexed
  <2>3. ClaimsNumbered'
    BY <1>1, <1>5, <2>1 DEF ClaimsNumbered
  <2>4. LockedIsCurrent'
    BY <1>1, <1>5, <2>1 DEF LockedIsCurrent, Completing, ClaimIsCurrent
  <2>5. SourceFresh'
    BY <1>1, <1>5, <2>1 DEF SourceFresh
  <2> QED
    BY <1>3, <2>2, <2>3, <2>4, <2>5
<1> QED
  BY <1>4, <1>5 DEF RecordFailure

LEMMA TickSafe == Safe /\ (Tick \/ UNCHANGED vars) => Safe'
<1> SUFFICES ASSUME Safe, Tick \/ UNCHANGED vars
             PROVE  Safe'
  OBVIOUS
<1>1. UNCHANGED <<content, born, job, chunks, pc, claim, source, seen>>
  BY DEF Tick, vars, workerVars
<1> QED
  BY <1>1 DEF Safe, LiveIsBorn, JobPerRevision, ClaimsNumbered, LockedIsCurrent,
     SourceFresh, ChunksOnlyIndexed, NeverOlderThanVersion, Completing,
     ClaimIsCurrent

----------------------------------------------------------------------------
\* IInv is inductive: the claim numbering and the row locks make the check
\* of _claim_is_current exclusive, and that makes the commits atomic.
THEOREM InductiveInvariant == Spec => []IInv
<1>1. Init => IInv
  BY InitType, InitSafe DEF IInv, Safe
<1>2. IInv /\ [Next]_vars => IInv'
  <2> SUFFICES ASSUME TypeOK, Safe, [Next]_vars
               PROVE  TypeOK' /\ Safe'
    BY DEF IInv, Safe
  <2>1. TypeOK'
    BY NextType DEF Safe
  <2>2. \A c \in Contracts : {c} \in SUBSET Contracts
    OBVIOUS
  <2>3. Safe'
    BY <2>2, ConfirmSafe, UpdateSafe, DeleteSafe, ClaimSafe, LocalSafe,
       CompleteSafe, RecordSafe, TickSafe DEF Next, ProcessNextIndexJob
  <2> QED
    BY <2>1, <2>3
<1> QED
  BY <1>1, <1>2, PTL DEF Spec

\* Every variable of the queue stays within its type (rag/models.py), with
\* attempts bounded by the configured maximum.
THEOREM TypeCorrect == Spec => []TypeOK
<1>1. IInv => TypeOK
  BY DEF IInv
<1> QED
  BY <1>1, InductiveInvariant, PTL

\* However many workers believe they hold a job, one at most passes the
\* check of _claim_is_current (rag/service.py:193-199).
THEOREM LeaseExclusiveHolds == Spec => []LeaseExclusive
<1>1. IInv => LeaseExclusive
  BY DEF IInv, LeaseExclusive, ClaimsNumbered, ClaimIsCurrent
<1> QED
  BY <1>1, InductiveInvariant, PTL

\* Chunks are there only for a version whose job committed INDEXED: nothing of
\* a deleted contract or of an abandoned attempt is left behind.
THEOREM ChunksOnlyIndexedHolds == Spec => []ChunksOnlyIndexed
<1>1. IInv => ChunksOnlyIndexed
  BY DEF IInv
<1> QED
  BY <1>1, InductiveInvariant, PTL

\* The outbox holds one job per revision of a contract that exists.
THEOREM JobPerRevisionHolds == Spec => []JobPerRevision
<1>1. IInv => JobPerRevision
  BY DEF IInv
<1> QED
  BY <1>1, InductiveInvariant, PTL

\* No chunk is older than the version it is filed under.
THEOREM NeverOlderThanVersionHolds == Spec => []NeverOlderThanVersion
<1>1. IInv => NeverOlderThanVersion
  BY DEF IInv
<1> QED
  BY <1>1, InductiveInvariant, PTL

\* A contract leaves the search results with its deletion or when a version of
\* it is indexed whose source gave no text, and in no other way: what
\* replace_contract_chunks deactivates it replaces, whatever the workers do.
THEOREM StaysSearchableHolds == Spec => StaysSearchable
<1> DEFINE A == \A c \in Contracts :
       Searchable(c) # {} =>
         \/ Searchable(c)' # {} \/ content'[c] = 0
         \/ \E v \in Versions : BecomesEmpty(<<c, v>>)
<1>1. IInv /\ [Next]_vars => [A]_vars
  <2> SUFFICES ASSUME TypeOK, Safe, [Next]_vars, NEW c \in Contracts,
                      NEW v \in Versions, chunks[<<c, v>>].active
               PROVE  \/ \E x \in Versions : chunks'[<<c, x>>].active
                      \/ content'[c] = 0
                      \/ \E x \in Versions : BecomesEmpty(<<c, x>>)
    BY DEF IInv, Safe, Searchable
  <2>1. ASSUME NEW w \in Workers, CompleteJob(w)
        PROVE  \/ \E x \in Versions : chunks'[<<c, x>>].active
               \/ \E x \in Versions : BecomesEmpty(<<c, x>>)
    <3> DEFINE k == claim[w].key
    <3>1. /\ k \in Keys /\ k[2] \in Versions /\ k = <<k[1], k[2]>>
          /\ job[k] \in Row /\ ClaimIsCurrent(w)
      BY <2>1, CompleteFacts DEF Keys
    <3>2. CASE k[1] = c
      <4>1. chunks'[k] = Built(w)
        BY <2>1, <3>1 DEF CompleteJob, ReplaceContractChunks
      <4>2. job[k].status # "INDEXED" /\ job'[k].status = "INDEXED"
        BY <2>1, <3>1, FinishRow DEF CompleteJob, ClaimIsCurrent, TypeOK
      <4>3. chunks'[k].active \/ chunks'[k] = NoChunks
        BY <4>1 DEF Built
      <4>4. chunks'[k].active \/ BecomesEmpty(k)
        BY <4>2, <4>3 DEF BecomesEmpty
      <4> QED
        BY <3>1, <3>2, <4>4
    <3>3. CASE k[1] # c
      <4>1. <<c, v>> \in Keys
        BY DEF Keys
      <4>2. chunks'[<<c, v>>] = chunks[<<c, v>>]
        BY <2>1, <3>3, <4>1 DEF CompleteJob, ReplaceContractChunks
      <4> QED
        BY <4>2
    <3> QED
      BY <3>2, <3>3
  <2>2. ASSUME NEW d \in Contracts, Delete(d)
        PROVE  content'[c] = 0 \/ chunks'[<<c, v>>] = chunks[<<c, v>>]
    BY <2>2 DEF Delete, TypeOK, Keys
  <2>3. CASE UNCHANGED chunks
    BY <2>3
  <2> QED
    BY <2>1, <2>2, <2>3 DEF Next, ProcessNextIndexJob, Confirm, Update,
       ClaimJob, LoadContract, LoadClauses, BeginReplace, LockSeenChunks,
       RecordFailure, IndexingFails, Crash, Tick, vars
<1> QED
  BY <1>1, InductiveInvariant, PTL DEF Spec, StaysSearchable

\* Where workers do not overlap, the one that replaces a contract's chunks has
\* seen all of them.
OneWorker == \A w, x \in Workers : w = x

SeenAll ==
  \A w \in Workers : Completing(w) =>
    \A v \in Versions : chunks[<<claim[w].key[1], v>>] # NoChunks => v \in seen[w]

LEMMA OneWorkerKeeps ==
  ASSUME OneWorker, IInv, SeenAll, OneVersionSearchable, [Next]_vars
  PROVE  SeenAll' /\ OneVersionSearchable'
<1>1. TypeOK /\ Safe
  BY DEF IInv, Safe
<1>2. \A c \in Contracts, v \in Versions : <<c, v>> \in Keys /\ chunks[<<c, v>>] \in Chunks
  BY <1>1 DEF TypeOK, Keys
<1>3. ASSUME NEW w \in Workers, CompleteJob(w)
      PROVE  SeenAll' /\ OneVersionSearchable'
  <2> DEFINE k == claim[w].key
  <2>1. k \in Keys /\ k[1] \in Contracts /\ k[2] \in Versions /\ Completing(w)
    BY <1>1, <1>3, CompleteFacts DEF CompleteJob, Completing
  <2>2. SeenAll'
    <3>1. ~Completing(w)'
      BY <1>1, <1>3 DEF CompleteJob, Return, Goto, Completing, TypeOK
    <3> QED
      BY <3>1 DEF OneWorker, SeenAll
  <2>3. OneVersionSearchable'
    <3>1. ASSUME NEW c \in Contracts, NEW v \in Versions, chunks'[<<c, v>>].active
          PROVE  IF c = k[1] THEN v = k[2] ELSE chunks[<<c, v>>].active
      <4>1. CASE <<c, v>> = k
        BY <4>1
      <4>2. CASE <<c, v>> # k /\ c = k[1]
        <5>1. chunks[<<c, v>>] # NoChunks => v \in seen[w]
          BY <2>1, <4>2 DEF SeenAll
        <5>2. chunks'[<<c, v>>] =
                IF v \in seen[w] THEN Inactive(chunks[<<c, v>>]) ELSE chunks[<<c, v>>]
          BY <1>2, <1>3, <4>2 DEF CompleteJob, ReplaceContractChunks
        <5> QED
          BY <3>1, <5>1, <5>2 DEF Inactive, NoChunks
      <4>3. CASE c # k[1]
        BY <1>2, <1>3, <3>1, <4>3 DEF CompleteJob, ReplaceContractChunks
      <4> QED
        BY <2>1, <4>1, <4>2, <4>3 DEF Keys
    <3> HIDE DEF k
    <3> QED
      BY <3>1 DEF OneVersionSearchable, Searchable
  <2> QED
    BY <2>2, <2>3
<1>4. ASSUME NEW d \in Contracts, Delete(d)
      PROVE  SeenAll' /\ OneVersionSearchable'
  <2>1. UNCHANGED <<pc, claim, seen>>
    BY <1>4 DEF Delete, workerVars
  <2>2. \A c \in Contracts, v \in Versions :
          chunks'[<<c, v>>] = chunks[<<c, v>>] \/ chunks'[<<c, v>>] = NoChunks
    BY <1>2, <1>4 DEF Delete
  <2>3. \A w \in Workers : Completing(w) => claim[w].key[1] \in Contracts
    BY <1>1 DEF TypeOK, Completing, Claim, Keys
  <2>4. SeenAll'
    BY <2>1, <2>2, <2>3 DEF SeenAll, Completing
  <2>5. OneVersionSearchable'
    BY <2>2 DEF OneVersionSearchable, Searchable, NoChunks
  <2> QED
    BY <2>4, <2>5
<1>5. ASSUME UNCHANGED chunks,
             \A w \in Workers :
               \/ ~Completing(w)'
               \/ Completing(w) /\ claim'[w].key = claim[w].key /\ seen'[w] = seen[w]
               \/ /\ claim'[w].key = claim[w].key
                  /\ seen'[w] = {v \in Versions : chunks[<<claim[w].key[1], v>>] # NoChunks}
      PROVE  SeenAll' /\ OneVersionSearchable'
  BY <1>5 DEF SeenAll, OneVersionSearchable, Searchable
<1>6. ASSUME UNCHANGED <<chunks, pc, claim, seen>> PROVE SeenAll' /\ OneVersionSearchable'
  BY <1>6 DEF SeenAll, Completing, OneVersionSearchable, Searchable
<1>7. ASSUME NEW w \in Workers,
             \/ \E s \in SUBSET Contracts : ClaimJob(w, s)
             \/ LoadContract(w) \/ LoadClauses(w) \/ BeginReplace(w) \/ LockSeenChunks(w)
             \/ RecordFailure(w) \/ IndexingFails(w) \/ Crash(w)
      PROVE  SeenAll' /\ OneVersionSearchable'
  <2>1. /\ UNCHANGED chunks /\ \A x \in Workers : x = w
        /\ pc \in [Workers -> Steps] /\ DOMAIN seen = Workers
    BY <1>1, <1>7 DEF OneWorker, TypeOK, ClaimJob, LoadContract, LoadClauses, BeginReplace,
       LockSeenChunks, RecordFailure, IndexingFails, Crash
  <2>2. CASE BeginReplace(w) /\ ClaimIsCurrent(w)
    BY <1>5, <2>1, <2>2 DEF BeginReplace, Return, Goto, Completing
  <2>3. CASE LockSeenChunks(w)
    BY <1>5, <2>1, <2>3 DEF LockSeenChunks, Goto, Completing
  <2>4. CASE ~(BeginReplace(w) /\ ClaimIsCurrent(w)) /\ ~LockSeenChunks(w)
    <3>1. pc'[w] \notin {"replacing", "writing"}
      BY <1>7, <2>1, <2>4 DEF ClaimJob, LoadContract, LoadClauses, BeginReplace, RecordFailure,
         IndexingFails, Crash, Return, Goto
    <3> QED
      BY <1>5, <2>1, <3>1 DEF Completing
  <2> QED
    BY <2>2, <2>3, <2>4
<1>8. \A c \in Contracts : {c} \in SUBSET Contracts
  OBVIOUS
<1> QED
  BY <1>3, <1>4, <1>6, <1>7, <1>8 DEF Next, ProcessNextIndexJob, Confirm, Update, Tick, vars,
     workerVars

\* With one worker two versions are never searched at the same time
\* (replace_contract_chunks); with two they are, as a run shows.
THEOREM OneWorkerOneVersion == ASSUME OneWorker PROVE Spec => []OneVersionSearchable
<1>1. Init => SeenAll /\ OneVersionSearchable
  BY DEF Init, SeenAll, Completing, OneVersionSearchable, Searchable, NoChunks, Keys
<1>2. IInv /\ SeenAll /\ OneVersionSearchable /\ [Next]_vars => (SeenAll /\ OneVersionSearchable)'
  BY OneWorkerKeeps
<1> QED
  BY <1>1, <1>2, InductiveInvariant, PTL DEF Spec
=============================================================================
