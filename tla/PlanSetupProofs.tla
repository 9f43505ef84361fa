--------------------------- MODULE PlanSetupProofs ---------------------------
(***************************************************************************)
(* Proofs about PlanSetup, for any number of requests in flight, amounts   *)
(* and demo contracts.                                                     *)
(***************************************************************************)
EXTENDS PlanSetup, TLAPS

LoggedIn == {"answer", "lock", "plan", "write", "read"}

LEMMA CurrentType == OnePlan => CurrentPlan \in PlanIds \cup {None}
BY DEF OnePlan, CurrentPlan, PlanIds

\* What a step of request p has to do for the invariant: it may change the
\* plan only while it holds the lock, and leaves other requests alone.
LEMMA StepOf ==
  ASSUME PlanInv, NEW p \in Requests, TypeOK', written' \in Nat, OnePlan',
         \A q \in Requests \ {p} : req'[q] = req[q] /\ (lock' = q <=> lock = q),
         Holding(p)' <=> lock' = p,
         plans' = plans \/ lock = p,
         users \subseteq users', plans' # <<>> => "demo" \in users',
         req'[p].at = "write" => req'[p].plan = CurrentPlan',
         req'[p].at \in LoggedIn => "demo" \in users'
  PROVE  PlanInv'
<1>1. LockHeld'
  BY DEF PlanInv, LockHeld, Holding
<1>2. ReadsCurrent'
  <2> SUFFICES ASSUME NEW q \in Requests, q # p, req'[q].at = "write"
               PROVE  req'[q].plan = CurrentPlan'
    BY DEF ReadsCurrent
  <2>1. req[q].at = "write" /\ lock = q
    BY DEF PlanInv, LockHeld, Holding
  <2> QED
    BY <2>1 DEF PlanInv, ReadsCurrent, CurrentPlan
<1>3. UserFirst'
  BY DEF PlanInv, UserFirst, LoggedIn
<1> QED
  BY <1>1, <1>2, <1>3 DEF PlanInv

LEMMA GoToStep ==
  ASSUME TypeOK, NEW p \in Requests, NEW at \in Ats, req' = GoTo(p, at)
  PROVE  /\ req' \in [Requests -> Records]
         /\ req'[p].at = at /\ req'[p].plan = req[p].plan
         /\ \A q \in Requests \ {p} : req'[q] = req[q]
BY DEF TypeOK, Records, GoTo

LEMMA EndStep ==
  ASSUME TypeOK, NEW p \in Requests, NEW result \in Results, req' = End(p, result)
  PROVE  /\ req' \in [Requests -> Records]
         /\ req'[p].at = "done"
         /\ \A q \in Requests \ {p} : req'[q] = req[q]
BY DEF TypeOK, Records, End, Ats

\* A step that only changes the record of request p.
LEMMA GoOn ==
  ASSUME PlanInv, NEW p \in Requests, req' \in [Requests -> Records],
         \A q \in Requests \ {p} : req'[q] = req[q],
         UNCHANGED <<users, plans, assets, demo, lock, written>>,
         uploads' \subseteq PlanIds,
         Holding(p)' <=> Holding(p),
         req'[p].at = "save" => req'[p].plan \in PlanIds,
         req'[p].at = "write" => req'[p].plan = CurrentPlan,
         req'[p].at \in LoggedIn => "demo" \in users
  PROVE  PlanInv'
<1>1. TypeOK'
  BY DEF PlanInv, TypeOK
<1>2. OnePlan' /\ CurrentPlan' = CurrentPlan
  BY DEF PlanInv, OnePlan, CurrentPlan
<1> QED
  BY <1>1, <1>2, StepOf DEF PlanInv, LockHeld, UserFirst

LEMMA LoginKeeps ==
  ASSUME PlanInv, NEW p \in Requests, Login(p) \/ Answer(p)
  PROVE  PlanInv'
<1> USE DEF PlanInv
<1>1. CASE Login(p)
  <2> DEFINE at == IF "demo" \in users THEN AfterLogin(p) ELSE "insert"
  <2>1. /\ at \in {"answer", "read", "lock", "insert"}
        /\ at \in LoggedIn => "demo" \in users
    BY DEF AfterLogin, LoggedIn
  <2>2. req' = GoTo(p, at) /\ at \in Ats
    BY <1>1, <2>1 DEF Login, Ats
  <2> HIDE DEF at
  <2>3. Holding(p)' <=> Holding(p)
    BY <1>1, <2>1, <2>2, GoToStep DEF Holding, Login
  <2> QED
    BY <1>1, <2>1, <2>2, <2>3, GoToStep, GoOn DEF Login, TypeOK
<1>2. CASE Answer(p)
  <2>1. "ok" \in Results /\ req' = End(p, "ok")
    BY <1>2 DEF Answer, Results
  <2>2. Holding(p)' <=> Holding(p)
    BY <1>2, <2>1, EndStep DEF Holding, Answer
  <2> QED
    BY <1>2, <2>1, <2>2, EndStep, GoOn DEF Answer, TypeOK, LoggedIn
<1> QED
  BY <1>1, <1>2

LEMMA StartKeeps ==
  ASSUME PlanInv, NEW p \in Requests, NEW op \in Ops, NEW amount \in Nat,
         Start(p, op, amount)
  PROVE  PlanInv'
<1> DEFINE r == [Idle EXCEPT !.op = op, !.amount = amount,
                            !.at = IF op = "upload" THEN "scope" ELSE "login"]
<1>1. /\ r \in Records /\ r.at \in {"scope", "login"}
      /\ req' = [req EXCEPT ![p] = r]
  BY DEF Start, Records, Idle, Ats, Results
<1> HIDE DEF r
<1>2. /\ req' \in [Requests -> Records]
      /\ req'[p] = r
      /\ \A q \in Requests \ {p} : req'[q] = req[q]
  BY <1>1 DEF PlanInv, TypeOK
<1> QED
  BY <1>1, <1>2, GoOn DEF PlanInv, TypeOK, Start, Holding, LoggedIn

LEMMA ReadKeeps ==
  ASSUME PlanInv, NEW p \in Requests,
         GetCurrentForUser(p) \/ ResolveDocumentScope(p)
  PROVE  PlanInv'
<1>1. CurrentPlan \in PlanIds \cup {None}
  BY CurrentType DEF PlanInv
<1>2. CASE GetCurrentForUser(p)
  <2>1. /\ req' \in [Requests -> Records]
        /\ req'[p].at = "write" /\ req'[p].plan = CurrentPlan
        /\ \A q \in Requests \ {p} : req'[q] = req[q]
    BY <1>1, <1>2 DEF PlanInv, TypeOK, Records, GetCurrentForUser, Ats
  <2>2. req[p].at = "plan" /\ UNCHANGED <<users, plans, assets, uploads, demo, lock, written>>
    BY <1>2 DEF GetCurrentForUser
  <2> QED
    BY <2>1, <2>2, GoOn DEF PlanInv, TypeOK, UserFirst, Holding
<1>3. CASE ResolveDocumentScope(p)
  <2> DEFINE plan == IF CurrentPlan = None THEN Configured ELSE CurrentPlan
  <2>1. plan \in PlanIds /\ req' = [req EXCEPT ![p].plan = plan, ![p].at = "save"]
    BY <1>1, <1>3 DEF ResolveDocumentScope, PlanIds
  <2> HIDE DEF plan
  <2>2. /\ req' \in [Requests -> Records]
        /\ req'[p].at = "save" /\ req'[p].plan = plan
        /\ \A q \in Requests \ {p} : req'[q] = req[q]
    BY <2>1 DEF PlanInv, TypeOK, Records, Ats
  <2>3. req[p].at = "scope" /\ UNCHANGED <<users, plans, assets, uploads, demo, lock, written>>
    BY <1>3 DEF ResolveDocumentScope
  <2> QED
    BY <2>1, <2>2, <2>3, GoOn DEF PlanInv, TypeOK, Holding, LoggedIn
<1> QED
  BY <1>2, <1>3

\* The only asset of the only plan is its first, and no other plan has one.
LEMMA TheAsset ==
  ASSUME OnePlan, written \in Nat, plans # <<>>
  PROVE  /\ OfPlan(CurrentPlan) = {1} /\ First(CurrentPlan) = 1
         /\ assets = <<[plan |-> CurrentPlan, amount |-> written]>>
         /\ plans = <<CurrentPlan>> /\ CurrentPlan \in PlanIds
         /\ InitialAsset(CurrentPlan) = written
<1>1. PICK id \in PlanIds : plans = <<id>> /\ assets = <<[plan |-> id, amount |-> written]>>
  BY DEF OnePlan
<1>2. CurrentPlan = id
  BY <1>1 DEF CurrentPlan
<1>3. OfPlan(id) = {1}
  BY <1>1 DEF OfPlan
<1>4. First(id) = 1
  BY <1>3 DEF First
<1> QED
  BY <1>1, <1>2, <1>3, <1>4 DEF InitialAsset

LEMMA AnswerKeeps ==
  ASSUME PlanInv, NEW p \in Requests, GetCurrent(p) \/ Upload(p)
  PROVE  PlanInv'
<1>1. CASE GetCurrent(p)
  <2>1. /\ req' \in [Requests -> Records]
        /\ req'[p].at = "done"
        /\ \A q \in Requests \ {p} : req'[q] = req[q]
    <3>1. CASE CurrentPlan = None
      <4>1. req' = End(p, "not found") /\ "not found" \in Results
        BY <1>1, <3>1 DEF GetCurrent, Results
      <4> QED
        BY <4>1, EndStep DEF PlanInv
    <3>2. CASE CurrentPlan # None
      <4>1. plans # <<>>
        BY <3>2 DEF CurrentPlan
      <4>2. InitialAsset(CurrentPlan) \in Nat
        BY <4>1, TheAsset DEF PlanInv
      <4> DEFINE e == End(p, "ok")
                 x == InitialAsset(CurrentPlan)
      <4>3. req' = [e EXCEPT ![p].amount = x] /\ x \in Nat
        BY <1>1, <3>2, <4>2 DEF GetCurrent
      <4>4. /\ e \in [Requests -> Records] /\ e[p].at = "done"
            /\ \A q \in Requests \ {p} : e[q] = req[q]
        <5>1. "ok" \in Results
          BY DEF Results
        <5> QED
          BY <5>1 DEF End, PlanInv, TypeOK, Records, Ats
      <4> HIDE DEF e, x
      <4> QED
        BY <4>3, <4>4 DEF Records
    <3> QED
      BY <3>1, <3>2
  <2>2. req[p].at = "read" /\ UNCHANGED <<users, plans, assets, uploads, demo, lock, written>>
    BY <1>1 DEF GetCurrent
  <2> QED
    BY <2>1, <2>2, GoOn DEF PlanInv, TypeOK, Holding, LoggedIn
<1>2. CASE Upload(p)
  <2>1. "ok" \in Results /\ req' = End(p, "ok")
    BY <1>2 DEF Upload, Results
  <2>2. Holding(p)' <=> Holding(p)
    BY <1>2, <2>1, EndStep DEF Holding, Upload, PlanInv
  <2>3. uploads' \subseteq PlanIds
    BY <1>2 DEF Upload, PlanInv, TypeOK
  <2> QED
    BY <1>2, <2>1, <2>2, <2>3, EndStep, GoOn DEF Upload, PlanInv, LoggedIn
<1> QED
  BY <1>1, <1>2

LEMMA CloseKeeps ==
  ASSUME PlanInv, NEW p \in Requests, Close(p)
  PROVE  PlanInv'
<1>1. /\ req' \in [Requests -> Records]
      /\ req'[p].at = "idle" /\ req[p].at = "done"
      /\ \A q \in Requests \ {p} : req'[q] = req[q]
  BY DEF Close, PlanInv, TypeOK, Records, Idle, Ops, Ats, Results
<1> QED
  BY <1>1, GoOn DEF Close, PlanInv, TypeOK, Holding, LoggedIn

LEMMA WaitKeeps ==
  ASSUME PlanInv, NEW p \in Requests,
         InsertDemoIfAbsent(p) \/ LockUserPlan(p) \/ Break(p)
  PROVE  PlanInv'
<1>1. UNCHANGED <<plans, assets, uploads, demo, written>>
  BY DEF InsertDemoIfAbsent, LockUserPlan, Break
<1>2. OnePlan' /\ CurrentPlan' = CurrentPlan
  BY <1>1 DEF PlanInv, OnePlan, CurrentPlan
<1>3. /\ users \subseteq users' /\ users' \subseteq {"demo", "other"}
      /\ plans # <<>> => "demo" \in users'
  BY DEF InsertDemoIfAbsent, LockUserPlan, Break, PlanInv, TypeOK, UserFirst
<1>4. CASE InsertDemoIfAbsent(p)
  <2>1. /\ req' \in [Requests -> Records]
        /\ req'[p].at \in {"answer", "read", "lock", "done"}
        /\ req'[p].at \in LoggedIn => "demo" \in users'
        /\ \A q \in Requests \ {p} : req'[q] = req[q]
    <3>1. CASE "demo" \in users'
      <4>1. req' = GoTo(p, AfterLogin(p)) /\ AfterLogin(p) \in {"answer", "read", "lock"}
        BY <1>4, <3>1 DEF InsertDemoIfAbsent, AfterLogin
      <4> QED
        BY <3>1, <4>1, GoToStep DEF PlanInv, Ats
    <3>2. CASE "demo" \notin users'
      <4>1. req' = End(p, "configuration") /\ "configuration" \in Results
        BY <1>4, <3>2 DEF InsertDemoIfAbsent, Results
      <4> QED
        BY <4>1, EndStep DEF PlanInv, LoggedIn
    <3> QED
      BY <3>1, <3>2
  <2>2. req[p].at = "insert" /\ lock' = lock
    BY <1>4 DEF InsertDemoIfAbsent
  <2>3. TypeOK'
    BY <1>1, <1>3, <2>1, <2>2 DEF PlanInv, TypeOK
  <2> QED
    BY <1>1, <1>2, <1>3, <2>1, <2>2, <2>3, StepOf DEF PlanInv, LockHeld, Holding
<1>5. CASE LockUserPlan(p)
  <2>1. req' = GoTo(p, "plan") /\ lock = None /\ lock' = p /\ users' = users
    BY <1>5 DEF LockUserPlan
  <2>2. /\ req' \in [Requests -> Records]
        /\ req'[p].at = "plan"
        /\ \A q \in Requests \ {p} : req'[q] = req[q]
    BY <2>1, GoToStep DEF PlanInv, Ats
  <2>3. \A q \in Requests : q # None
    BY PlanAssumption
  <2>4. TypeOK'
    BY <1>1, <2>1, <2>2 DEF PlanInv, TypeOK
  <2>5. "demo" \in users'
    BY <1>5, <2>1 DEF LockUserPlan, PlanInv, UserFirst
  <2> QED
    BY <1>1, <1>2, <1>3, <2>1, <2>2, <2>3, <2>4, <2>5, StepOf DEF PlanInv, Holding
<1>6. CASE Break(p)
  <2>1. /\ req' \in [Requests -> Records]
        /\ req'[p].at = "idle"
        /\ \A q \in Requests \ {p} : req'[q] = req[q]
    BY <1>6 DEF Break, PlanInv, TypeOK, Records, Idle, Ops, Ats, Results
  <2>2. \A q \in Requests : q # None
    BY PlanAssumption
  <2>3. /\ lock' \in Requests \cup {None} /\ lock' # p
        /\ \A q \in Requests \ {p} : lock' = q <=> lock = q
    BY <1>6, <2>2 DEF Break, Release, PlanInv, TypeOK
  <2>4. TypeOK'
    BY <1>1, <1>3, <2>1, <2>3 DEF PlanInv, TypeOK
  <2> QED
    BY <1>1, <1>2, <1>3, <2>1, <2>3, <2>4, StepOf DEF PlanInv, Holding, LoggedIn
<1> QED
  BY <1>4, <1>5, <1>6

----------------------------------------------------------------------------
(* The two that write a plan *)

\* What was read is what is there, so no key can be taken.
LEMMA NoKeyTaken ==
  ASSUME PlanInv, NEW p \in Requests, NEW new \in PlanIds, req[p].at = "write"
  PROVE  ~KeyTaken(p, new)
<1>1. req[p].plan = CurrentPlan
  BY DEF PlanInv, ReadsCurrent
<1>2. CASE plans = <<>>
  BY <1>2 DEF KeyTaken
<1>3. CASE plans # <<>>
  BY <1>1, <1>3, TheAsset, PlanAssumption DEF KeyTaken, PlanInv, PlanIds, Configured, Seeded
<1> QED
  BY <1>2, <1>3

LEMMA WriteKeeps ==
  ASSUME PlanInv, NEW p \in Requests, NEW new \in PlanIds, NEW amount \in Nat,
         req[p].at = "write", WritePlan(p, new, amount), written' = amount
  PROVE  OnePlan' /\ plans' # <<>>
<1>1. req[p].plan = CurrentPlan
  BY DEF PlanInv, ReadsCurrent
<1>2. CASE plans = <<>>
  <2>1. CurrentPlan = None /\ assets = <<>>
    BY <1>2 DEF CurrentPlan, PlanInv, OnePlan
  <2>2. plans' = <<new>> /\ assets' = <<[plan |-> new, amount |-> amount]>>
    BY <1>1, <1>2, <2>1 DEF WritePlan
  <2> QED
    BY <2>2 DEF OnePlan
<1>3. CASE plans # <<>>
  <2>1. CurrentPlan \in PlanIds /\ CurrentPlan # None
    BY <1>3, TheAsset, PlanAssumption DEF PlanInv, PlanIds, Configured, Seeded
  <2>2. plans' = plans /\ assets' = SetAvailableAsset(CurrentPlan, amount)
    BY <1>1, <2>1 DEF WritePlan
  <2>3. assets' = <<[plan |-> CurrentPlan, amount |-> amount]>>
    <3>1. assets' = [assets EXCEPT ![1] = [plan |-> CurrentPlan, amount |-> amount]]
      BY <1>3, <2>2, TheAsset DEF SetAvailableAsset, PlanInv
    <3>2. assets = <<[plan |-> CurrentPlan, amount |-> written]>>
      BY <1>3, TheAsset DEF PlanInv
    <3>3. \A a, b : [<<a>> EXCEPT ![1] = b] = <<b>>
      OBVIOUS
    <3> QED
      BY <3>1, <3>2, <3>3
  <2> QED
    BY <1>3, <2>1, <2>2, <2>3, TheAsset DEF OnePlan, PlanInv
<1> QED
  BY <1>2, <1>3

\* The end of a transaction that holds the lock.
LEMMA CommitKeeps ==
  ASSUME PlanInv, NEW p \in Requests, NEW result \in Results, req[p].at = "write",
         req' = End(p, result), Release(p), users' = users,
         uploads' = uploads, demo' \in [Demos -> DemoRows],
         written' \in Nat, OnePlan'
  PROVE  PlanInv'
<1>1. lock = p /\ "demo" \in users
  BY DEF PlanInv, LockHeld, Holding, UserFirst
<1>2. lock' = None /\ \A q \in Requests : q # None
  BY <1>1, PlanAssumption DEF Release
<1>3. /\ req' \in [Requests -> Records]
      /\ req'[p].at = "done"
      /\ \A q \in Requests \ {p} : req'[q] = req[q]
  BY EndStep DEF PlanInv
<1>4. TypeOK'
  BY <1>2, <1>3 DEF PlanInv, TypeOK
<1> QED
  BY <1>1, <1>2, <1>3, <1>4, StepOf DEF PlanInv, Holding, LoggedIn

LEMMA UpsertKeeps ==
  ASSUME PlanInv, NEW p \in Requests, Upsert(p)
  PROVE  PlanInv'
<1>1. req[p].at = "write" /\ NewPlanId \in PlanIds /\ req[p].amount \in Nat
  BY DEF Upsert, NewPlanId, PlanIds, PlanInv, TypeOK, Records
<1>2. /\ WritePlan(p, NewPlanId, req[p].amount) /\ written' = req[p].amount
      /\ req' = End(p, "ok") /\ Release(p) /\ UNCHANGED <<users, uploads, demo>>
  BY <1>1, NoKeyTaken DEF Upsert
<1>3. OnePlan'
  BY <1>1, <1>2, WriteKeeps
<1>4. "ok" \in Results /\ demo' \in [Demos -> DemoRows]
  BY <1>2 DEF Results, PlanInv, TypeOK
<1> QED
  BY <1>1, <1>2, <1>3, <1>4, CommitKeeps

LEMMA SeedKeeps ==
  ASSUME PlanInv, NEW p \in Requests, Seed(p)
  PROVE  PlanInv'
<1>1. req[p].at = "write" /\ Seeded \in PlanIds /\ SeedAmount \in Nat
  BY DEF Seed, PlanIds, SeedAmount
<1>2. ~KeyTaken(p, Seeded)
  BY <1>1, NoKeyTaken
<1>3. CASE Refuse(p)
  <2>1. /\ req' = End(p, "conflict") /\ Release(p)
        /\ UNCHANGED <<users, plans, assets, uploads, demo, written>>
    BY <1>3 DEF Refuse
  <2>2. OnePlan'
    BY <2>1 DEF PlanInv, OnePlan
  <2>3. "conflict" \in Results /\ demo' \in [Demos -> DemoRows] /\ written' \in Nat
    BY <2>1 DEF Results, PlanInv, TypeOK
  <2> QED
    BY <1>1, <2>1, <2>2, <2>3, CommitKeeps
<1>4. CASE ~Refuse(p)
  <2>1. /\ WritePlan(p, Seeded, SeedAmount) /\ written' = SeedAmount
        /\ demo' = [d \in Demos |-> SeedRows(d)]
        /\ req' = End(p, "ok") /\ Release(p) /\ UNCHANGED <<users, uploads>>
    BY <1>2, <1>4 DEF Seed
  <2>2. OnePlan'
    BY <1>1, <2>1, WriteKeeps
  <2>3. "ok" \in Results /\ demo' \in [Demos -> DemoRows]
    BY <2>1 DEF Results, PlanInv, TypeOK, SeedRows, DemoRows
  <2> QED
    BY <1>1, <2>1, <2>2, <2>3, CommitKeeps
<1> QED
  BY <1>3, <1>4

LEMMA EditKeeps ==
  ASSUME PlanInv, NEW d \in Demos, DeleteContract(d) \/ PutContract(d) \/ ConfirmAgain(d)
  PROVE  PlanInv'
<1>1. demo' \in [Demos -> DemoRows]
  BY DEF DeleteContract, PutContract, ConfirmAgain, Edit, PlanInv, TypeOK, DemoRows
<1>2. UNCHANGED <<users, plans, assets, uploads, lock, req, written>>
  BY DEF DeleteContract, PutContract, ConfirmAgain, Edit
<1> QED
  BY <1>1, <1>2 DEF PlanInv, TypeOK, OnePlan, LockHeld, ReadsCurrent, UserFirst,
     Holding, CurrentPlan

LEMMA StutterKeeps == PlanInv /\ UNCHANGED vars => PlanInv'
BY DEF vars, PlanInv, TypeOK, OnePlan, LockHeld, ReadsCurrent, UserFirst, Holding, CurrentPlan

LEMMA NextKeeps == PlanInv /\ [Next]_vars => PlanInv'
<1> SUFFICES ASSUME PlanInv, [Next]_vars PROVE PlanInv'
  OBVIOUS
<1>1. ASSUME NEW p \in Requests, Request(p) PROVE PlanInv'
  <2>1. ASSUME NEW op \in Ops, NEW amount \in IF op = "put" THEN Amounts ELSE {0},
               Start(p, op, amount)
        PROVE  PlanInv'
    BY <2>1, StartKeeps, PlanAssumption
  <2> QED
    BY <1>1, <2>1, LoginKeeps, ReadKeeps, AnswerKeeps, CloseKeeps, WaitKeeps,
       UpsertKeeps, SeedKeeps DEF Request
<1>2. ASSUME NEW d \in Demos, DeleteContract(d) \/ PutContract(d) \/ ConfirmAgain(d)
      PROVE  PlanInv'
  BY <1>2, EditKeeps
<1> QED
  BY <1>1, <1>2, StutterKeeps DEF Next

LEMMA InitKeeps == Init => PlanInv
BY PlanAssumption DEF Init, PlanInv, TypeOK, OnePlan, LockHeld, ReadsCurrent, UserFirst,
   Holding, Idle, NoDemo, DemoRows, Records, Ops, Ats, Results, PlanIds

\* The demo user has at most one plan, and that plan one asset, however many
\* logins, PUTs and seeds come at once (lock_user_plan).
THEOREM PlanInvariant == Spec => []PlanInv
BY InitKeeps, NextKeeps, PTL DEF Spec

----------------------------------------------------------------------------
(* Conflicts *)

LEMMA OthersWait ==
  ASSUME TypeOK, NEW p \in Requests, Request(p), NEW q \in Requests, q # p
  PROVE  req'[q] = req[q]
<1>1. \A op, amount : Start(p, op, amount) => req'[q] = req[q]
  BY DEF Start, TypeOK
<1>2. Upsert(p) \/ Seed(p) => req'[q] = req[q]
  BY DEF Upsert, Seed, Refuse, End, TypeOK
<1> QED
  BY <1>1, <1>2 DEF Request, TypeOK, GoTo, End, Login, InsertDemoIfAbsent, Answer,
     LockUserPlan, GetCurrentForUser, GetCurrent, ResolveDocumentScope, Upload, Close, Break

LEMMA NewResult ==
  ASSUME PlanInv, NEW p \in Requests, Request(p), ~Seed(p)
  PROVE  req'[p].result \in {req[p].result, None, "ok", "configuration", "not found"}
<1>1. req[p] \in Records /\ req \in [Requests -> Records]
  BY DEF PlanInv, TypeOK
<1>2. ASSUME NEW at, req' = GoTo(p, at) PROVE req'[p].result = req[p].result
  BY <1>1, <1>2 DEF GoTo, Records
<1>3. ASSUME NEW result, req' = End(p, result) PROVE req'[p].result = result
  BY <1>1, <1>3 DEF End, Records
<1>4. ASSUME NEW op, NEW amount, Start(p, op, amount) PROVE req'[p].result = None
  BY <1>1, <1>4 DEF Start, Idle
<1>5. CASE Close(p) \/ Break(p)
  <2>1. req' = [req EXCEPT ![p] = Idle] /\ Idle.result = None
    BY <1>5 DEF Close, Break, Idle
  <2> QED
    BY <1>1, <2>1
<1>6. CASE Login(p) \/ LockUserPlan(p)
  BY <1>2, <1>6 DEF Login, LockUserPlan
<1>7. CASE InsertDemoIfAbsent(p)
  BY <1>2, <1>3, <1>7 DEF InsertDemoIfAbsent
<1>8. CASE Answer(p) \/ Upload(p)
  <2>1. req' = End(p, "ok")
    BY <1>8 DEF Answer, Upload
  <2> QED
    BY <1>3, <2>1
<1>9. CASE GetCurrentForUser(p) \/ ResolveDocumentScope(p)
  <2>1. PICK plan, at : req' = [req EXCEPT ![p].plan = plan, ![p].at = at]
    BY <1>9 DEF GetCurrentForUser, ResolveDocumentScope
  <2> QED
    BY <1>1, <2>1 DEF Records
<1>10. CASE GetCurrent(p)
  <2> DEFINE e == End(p, "ok")
             x == InitialAsset(CurrentPlan)
  <2>1. req' = End(p, "not found") \/ req' = [e EXCEPT ![p].amount = x]
    BY <1>10 DEF GetCurrent
  <2>2. e[p].result = "ok" /\ e \in [Requests -> Records]
    <3>1. "ok" \in Results
      BY DEF Results
    <3> QED
      BY <1>1, <3>1 DEF End, Records, Ats
  <2> HIDE DEF e, x
  <2>3. req' = [e EXCEPT ![p].amount = x] => req'[p].result = "ok"
    BY <2>2 DEF Records
  <2> QED
    BY <1>3, <2>1, <2>3
<1>11. CASE Upsert(p)
  <2>1. req[p].at = "write" /\ NewPlanId \in PlanIds
    BY <1>11 DEF Upsert, NewPlanId, PlanIds
  <2>2. req' = End(p, "ok")
    BY <1>11, <2>1, NoKeyTaken DEF Upsert
  <2> QED
    BY <1>3, <2>2
<1> QED
  BY <1>4, <1>5, <1>6, <1>7, <1>8, <1>9, <1>10, <1>11 DEF Request

\* First logins, PUTs and seeds that race do not make each other fail; only
\* a seed is refused, for a contract that a user confirmed anew.
THEOREM OnlyTakenConflictsHold == Spec => OnlyTakenConflicts
<1>1. ASSUME PlanInv, [Next]_vars, NEW p \in Requests,
             req'[p].result = "conflict", req[p].result = None
      PROVE  req[p].op = "seed" /\ Taken # {}
  <2>1. req' # req /\ None # "conflict"
    BY <1>1, PlanAssumption
  <2>2. PICK q \in Requests : Request(q)
    BY <1>1, <2>1 DEF Next, vars, DeleteContract, PutContract, ConfirmAgain, Edit
  <2>3. q = p
    BY <1>1, <2>1, <2>2, OthersWait DEF PlanInv
  <2>4. Seed(p)
    BY <1>1, <2>1, <2>2, <2>3, NewResult
  <2>5. ~KeyTaken(p, Seeded)
    BY <1>1, <2>4, NoKeyTaken DEF Seed, PlanIds
  <2>6. req' = End(p, "ok") => req'[p].result = "ok"
    BY <1>1 DEF End, PlanInv, TypeOK, Records
  <2> QED
    BY <1>1, <2>4, <2>5, <2>6 DEF Seed
<1>2. PlanInv /\ [Next]_vars =>
        \A p \in Requests : req'[p].result = "conflict" /\ req[p].result = None =>
                               req[p].op = "seed" /\ Taken # {}
  BY <1>1
<1> QED
  BY <1>2, PlanInvariant, PTL DEF Spec, OnlyTakenConflicts

----------------------------------------------------------------------------
(* The amount *)

\* What a plan with one asset has available.
LEMMA SumOfOne ==
  ASSUME NEW plan, NEW k, OfPlan(plan) = {k}, assets[k].amount \in Nat
  PROVE  AvailableAsset(plan) = assets[k].amount
<1> DEFINE Iter(g) == [s \in SUBSET {k} |->
             IF s = {} THEN 0
             ELSE LET x == CHOOSE y \in s : TRUE IN assets[x].amount + g[s \ {x}]]
           sum == CHOOSE g : g = Iter(g)
           two == [s \in SUBSET {k} |-> IF s = {} THEN 0 ELSE assets[k].amount]
<1>1. \A s \in SUBSET {k} : s # {} => s = {k}
  OBVIOUS
<1>2. (CHOOSE y \in {k} : TRUE) = k
  OBVIOUS
<1>3. two = Iter(two)
  BY <1>1, <1>2
<1>4. sum = Iter(sum)
  BY <1>3
<1>5. sum[{}] = 0 /\ sum[{k}] = assets[k].amount + sum[{}]
  BY <1>2, <1>4
<1>6. AvailableAsset(plan) = sum[{k}]
  BY DEF AvailableAsset, MapThenSumSet, MapThenFoldSet
<1> QED
  BY <1>5, <1>6

\* The plan's page and the finance page show what was written last.
THEOREM AssetsAgreeHolds == Spec => []AssetsAgree
<1>1. PlanInv => AssetsAgree
  <2> SUFFICES ASSUME PlanInv, plans # <<>>
               PROVE  InitialAsset(CurrentPlan) = written /\ AvailableAsset(CurrentPlan) = written
    BY DEF AssetsAgree
  <2>1. /\ OfPlan(CurrentPlan) = {1} /\ InitialAsset(CurrentPlan) = written
        /\ assets = <<[plan |-> CurrentPlan, amount |-> written]>>
    BY TheAsset DEF PlanInv
  <2>2. assets[1].amount = written /\ written \in Nat
    BY <2>1 DEF PlanInv
  <2> QED
    BY <2>1, <2>2, SumOfOne
<1> QED
  BY <1>1, PlanInvariant, PTL

----------------------------------------------------------------------------
(* Uploads *)

\* As long as the seed has not run, the plan is the configured one, and so
\* is the plan every upload takes, whichever of the two comes first.
ScopeInv ==
  (\A d \in Demos : demo[d] = NoDemo) =>
    /\ plans # <<>> => CurrentPlan = Configured
    /\ uploads \subseteq {Configured}
    /\ \A p \in Requests : req[p].at = "save" => req[p].plan = Configured

LEMMA OnlyScopeSaves ==
  ASSUME PlanInv, NEW p \in Requests, Request(p), ~ResolveDocumentScope(p)
  PROVE  req'[p].at # "save"
<1>1. req \in [Requests -> Records] /\ req[p] \in Records
  BY DEF PlanInv, TypeOK
<1>2. ASSUME NEW at, req' = GoTo(p, at) PROVE req'[p].at = at
  BY <1>1, <1>2 DEF GoTo, Records
<1>3. ASSUME NEW result, req' = End(p, result) PROVE req'[p].at = "done"
  BY <1>1, <1>3 DEF End, Records
<1>4. ASSUME NEW op, NEW amount, Start(p, op, amount) PROVE req'[p].at # "save"
  BY <1>1, <1>4 DEF Start, Idle
<1>5. CASE Close(p) \/ Break(p)
  <2>1. req' = [req EXCEPT ![p] = Idle] /\ Idle.at = "idle"
    BY <1>5 DEF Close, Break, Idle
  <2> QED
    BY <1>1, <2>1
<1>6. CASE Login(p) \/ LockUserPlan(p) \/ InsertDemoIfAbsent(p)
  <2>1. AfterLogin(p) # "save"
    BY DEF AfterLogin
  <2> QED
    BY <1>2, <1>3, <1>6, <2>1 DEF Login, LockUserPlan, InsertDemoIfAbsent
<1>7. CASE Answer(p) \/ Upload(p) \/ Upsert(p) \/ Seed(p)
  <2>1. PICK result : req' = End(p, result)
    BY <1>7 DEF Answer, Upload, Upsert, Seed, Refuse
  <2> QED
    BY <1>3, <2>1
<1>8. CASE GetCurrentForUser(p)
  BY <1>1, <1>8 DEF GetCurrentForUser, Records
<1>9. CASE GetCurrent(p)
  <2> DEFINE e == End(p, "ok")
             x == InitialAsset(CurrentPlan)
  <2>1. req' = End(p, "not found") \/ req' = [e EXCEPT ![p].amount = x]
    BY <1>9 DEF GetCurrent
  <2>2. e[p].at = "done" /\ e \in [Requests -> Records]
    <3>1. "ok" \in Results
      BY DEF Results
    <3> QED
      BY <1>1, <3>1 DEF End, Records, Ats
  <2> HIDE DEF e, x
  <2>3. req' = [e EXCEPT ![p].amount = x] => req'[p].at = "done"
    BY <2>2 DEF Records
  <2> QED
    BY <1>3, <2>1, <2>3
<1> QED
  BY <1>4, <1>5, <1>6, <1>7, <1>8, <1>9 DEF Request

LEMMA ScopeStep ==
  ASSUME PlanInv, ScopeInv, NEW p \in Requests, Request(p)
  PROVE  ScopeInv'
<1>1. \A q \in Requests \ {p} : req'[q] = req[q]
  BY OthersWait DEF PlanInv
<1>2. CASE ResolveDocumentScope(p)
  <2>1. /\ UNCHANGED <<plans, uploads, demo>>
        /\ req' = [req EXCEPT ![p].plan = IF CurrentPlan = None THEN Configured ELSE CurrentPlan,
                              ![p].at = "save"]
    BY <1>2 DEF ResolveDocumentScope
  <2>2. req'[p].plan = IF CurrentPlan = None THEN Configured ELSE CurrentPlan
    BY <2>1 DEF PlanInv, TypeOK, Records
  <2>3. plans = <<>> => CurrentPlan = None
    BY DEF CurrentPlan
  <2> QED
    BY <1>1, <2>1, <2>2, <2>3 DEF ScopeInv, CurrentPlan
<1>3. CASE Upload(p)
  <2>1. /\ UNCHANGED <<plans, demo>> /\ uploads' = uploads \cup {req[p].plan}
        /\ req[p].at = "save" /\ req'[p].at # "save"
    BY <1>3, OnlyScopeSaves DEF Upload, ResolveDocumentScope
  <2> QED
    BY <1>1, <2>1 DEF ScopeInv, CurrentPlan
<1>4. CASE Upsert(p)
  <2>1. req'[p].at # "save"
    BY <1>4, OnlyScopeSaves DEF Upsert, ResolveDocumentScope
  <2>2. UNCHANGED <<uploads, demo>> /\ WritePlan(p, Configured, req[p].amount)
    <3>1. ~KeyTaken(p, NewPlanId)
      BY <1>4, NoKeyTaken DEF Upsert, NewPlanId, PlanIds
    <3> QED
      BY <1>4, <3>1 DEF Upsert, NewPlanId
  <2>3. req[p].plan = CurrentPlan
    BY <1>4 DEF Upsert, PlanInv, ReadsCurrent
  <2>4. plans = <<>> => plans' = <<Configured>>
    BY <2>2, <2>3 DEF WritePlan, CurrentPlan
  <2>5. plans # <<>> => plans' = plans
    BY <2>2, <2>3, TheAsset, PlanAssumption
       DEF WritePlan, PlanInv, PlanIds, Configured, Seeded
  <2> QED
    BY <1>1, <2>1, <2>2, <2>4, <2>5 DEF ScopeInv, CurrentPlan
<1>5. CASE Seed(p)
  <2>1. req'[p].at # "save"
    BY <1>5, OnlyScopeSaves DEF Seed, ResolveDocumentScope
  <2>2. CASE Refuse(p)
    BY <1>1, <2>1, <2>2 DEF Refuse, ScopeInv, CurrentPlan
  <2>3. CASE demo' = [d \in Demos |-> SeedRows(d)]
    <3>1. PICK d \in Demos : TRUE
      BY PlanAssumption
    <3>2. demo'[d].contract = "seeded" /\ NoDemo.contract = None /\ None # "seeded"
      BY <2>3, PlanAssumption DEF SeedRows, NoDemo
    <3> QED
      BY <3>1, <3>2 DEF ScopeInv
  <2> QED
    BY <1>5, <2>2, <2>3 DEF Seed
<1>6. CASE ~ResolveDocumentScope(p) /\ ~Upload(p) /\ ~Upsert(p) /\ ~Seed(p)
  <2>1. UNCHANGED <<plans, uploads, demo>>
    BY <1>6 DEF Request, Start, Login, InsertDemoIfAbsent, Answer, LockUserPlan,
       GetCurrentForUser, GetCurrent, Close, Break
  <2>2. req'[p].at # "save"
    BY <1>6, OnlyScopeSaves
  <2> QED
    BY <1>1, <2>1, <2>2 DEF ScopeInv, CurrentPlan
<1> QED
  BY <1>2, <1>3, <1>4, <1>5, <1>6

LEMMA ScopeKeeps == PlanInv /\ ScopeInv /\ [Next]_vars => ScopeInv'
<1> SUFFICES ASSUME PlanInv, ScopeInv, [Next]_vars PROVE ScopeInv'
  OBVIOUS
<1>1. ASSUME NEW d \in Demos, DeleteContract(d) \/ PutContract(d) \/ ConfirmAgain(d)
      PROVE  ScopeInv'
  <2>1. demo[d] \in DemoRows /\ demo \in [Demos -> DemoRows]
    BY DEF PlanInv, TypeOK
  <2>2. demo'[d].contract \in {"seeded", "deleted", "again"}
    BY <1>1, <2>1 DEF DeleteContract, PutContract, ConfirmAgain, Edit, DemoRows
  <2>3. NoDemo.contract = None /\ None \notin {"seeded", "deleted", "again"}
    BY PlanAssumption DEF NoDemo
  <2> QED
    BY <2>2, <2>3 DEF ScopeInv
<1>2. UNCHANGED vars => ScopeInv'
  BY DEF vars, ScopeInv, CurrentPlan
<1> QED
  BY <1>1, <1>2, ScopeStep DEF Next

\* A plan the user enters is the one the documents uploaded before, or at the
\* same time, belong to.
THEOREM UploadsKeptHolds == Spec => []UploadsKept
<1>1. Init => ScopeInv
  BY DEF Init, ScopeInv, Idle
<1>2. ScopeInv => UploadsKept
  BY DEF ScopeInv, UploadsKept
<1> QED
  BY <1>1, <1>2, PlanInvariant, ScopeKeeps, PTL DEF Spec
=============================================================================
