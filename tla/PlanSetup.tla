------------------------------ MODULE PlanSetup ------------------------------
(***************************************************************************)
(* How the demo user, the wedding plan and the demo data come to be: the   *)
(* demo login, PUT and GET of the plan, the seed command, and what an      *)
(* upload takes as its plan, all at once and each a transaction of several *)
(* statements (domains/auth, users and wedding_plan, application/          *)
(* demo_seed.py, domains/documents/service.py).                            *)
(*                                                                         *)
(* Only rows are modelled that the next request's outcome depends on.  The *)
(* amount stands for all a PUT writes.  Left out: a second analysis of a   *)
(* demo document (its file is not in the storage, so it can only fail),    *)
(* and an edit of the demo contracts in the middle of a seed.              *)
(***************************************************************************)
EXTENDS Integers, Sequences, FiniteSetsExt

CONSTANTS
  None,
  Requests,      \* requests in flight, and runs of the seed command
  Amounts,       \* what a user enters as the available asset
  Demos          \* the seed's contracts, each with a document of its own

ASSUME PlanAssumption ==
  /\ Amounts \subseteq Nat
  /\ Demos # {}
  /\ None \notin Requests \cup {"configured", "seeded", "deleted", "again", "conflict"}

Ops == {"login", "put", "get", "seed", "upload"}
Configured == "configured"      \* Settings.demo_wedding_plan_id
Seeded == "seeded"              \* DEMO_PLAN_ID
SeedAmount == 50                \* in million won, as are Amounts

VARIABLES
  users,      \* "demo", and "other": someone else with the demo's login id
  plans,      \* ids of the active plans of the demo user, oldest first
  assets,     \* joint cash assets, oldest first
  uploads,    \* ids of the plans that uploaded documents belong to
  demo,       \* demo contract -> the rows the seed made for it
  lock,       \* who holds the advisory lock of the user
  req,        \* the request or command p
  written     \* the amount the latest commit wrote (history)

vars == <<users, plans, assets, uploads, demo, lock, req, written>>

\* contract: the seed's own row, none since it was deleted, or one a user
\* confirmed anew for the document that is still there;
\* payments: whose rows the contract has, the seed's or a user's.
NoDemo == [contract |-> None, payments |-> {}]

Idle == [op |-> "login", at |-> "idle", amount |-> 0, plan |-> None, result |-> None]

Init ==
  /\ users \in SUBSET {"demo", "other"}
  /\ plans = <<>> /\ assets = <<>> /\ uploads = {}
  /\ demo = [d \in Demos |-> NoDemo]
  /\ lock = None
  /\ req = [p \in Requests |-> Idle]
  /\ written = 0

CurrentPlan == IF plans = <<>> THEN None ELSE Head(plans)

\* get_initial_asset and available_asset.
OfPlan(plan) == {i \in DOMAIN assets : assets[i].plan = plan}
First(plan) == CHOOSE i \in OfPlan(plan) : \A j \in OfPlan(plan) : i <= j
InitialAsset(plan) == IF OfPlan(plan) = {} THEN 0 ELSE assets[First(plan)].amount
AvailableAsset(plan) == MapThenSumSet(LAMBDA i : assets[i].amount, OfPlan(plan))

Start(p, op, amount) ==
  /\ req[p].at = "idle"
  /\ req' = [req EXCEPT ![p] = [Idle EXCEPT !.op = op, !.amount = amount,
                                            !.at = IF op = "upload" THEN "scope" ELSE "login"]]
  /\ UNCHANGED <<users, plans, assets, uploads, demo, lock, written>>

End(p, result) == [req EXCEPT ![p].at = "done", ![p].result = result]
GoTo(p, at) == [req EXCEPT ![p].at = at]

AfterLogin(p) == CASE req[p].op = "login" -> "answer"
                   [] req[p].op = "get"   -> "read"
                   [] OTHER               -> "lock"

----------------------------------------------------------------------------
(* The demo login, which every other request starts with *)

Login(p) ==
  /\ req[p].at = "login"
  /\ req' = GoTo(p, IF "demo" \in users THEN AfterLogin(p) ELSE "insert")
  /\ UNCHANGED <<users, plans, assets, uploads, demo, lock, written>>

\* Mutant definitions are slips this code could have had; no behaviour uses
\* them, each stands for the definition below it to show a property notices.
Mutant_InsertOrFail(p) ==
  /\ req[p].at = "insert"
  /\ users' = IF users = {} THEN {"demo"} ELSE users
  /\ req' = IF users # {} THEN End(p, "conflict") ELSE GoTo(p, AfterLogin(p))
  /\ UNCHANGED <<plans, assets, uploads, demo, lock, written>>

\* insert_demo_if_absent skips on any conflict; what counts is whether the
\* user is there afterwards.
InsertDemoIfAbsent(p) ==
  /\ req[p].at = "insert"
  /\ users' = IF users = {} THEN {"demo"} ELSE users
  /\ req' = IF "demo" \in users' THEN GoTo(p, AfterLogin(p)) ELSE End(p, "configuration")
  /\ UNCHANGED <<plans, assets, uploads, demo, lock, written>>

Answer(p) ==
  /\ req[p].at = "answer"
  /\ req' = End(p, "ok")
  /\ UNCHANGED <<users, plans, assets, uploads, demo, lock, written>>

----------------------------------------------------------------------------
(* The plan *)

Mutant_NoLock(p) ==
  /\ req[p].at = "lock"
  /\ req' = GoTo(p, "plan")
  /\ UNCHANGED <<users, plans, assets, uploads, demo, lock, written>>

LockUserPlan(p) ==
  /\ req[p].at = "lock" /\ lock = None
  /\ lock' = p
  /\ req' = GoTo(p, "plan")
  /\ UNCHANGED <<users, plans, assets, uploads, demo, written>>

GetCurrentForUser(p) ==
  /\ req[p].at = "plan"
  /\ req' = [req EXCEPT ![p].plan = CurrentPlan, ![p].at = "write"]
  /\ UNCHANGED <<users, plans, assets, uploads, demo, lock, written>>

\* What an asset table looks like once the plan has its amount.
Mutant_AnotherAsset(plan, amount) ==
  Append(assets, [plan |-> plan, amount |-> amount])

SetAvailableAsset(plan, amount) ==
  IF OfPlan(plan) = {} THEN Append(assets, [plan |-> plan, amount |-> amount])
  ELSE [assets EXCEPT ![First(plan)] = [plan |-> plan, amount |-> amount]]

\* The new plan has the id new; its key can be taken since the plan was read.
WritePlan(p, new, amount) ==
  IF req[p].plan = None
  THEN /\ plans' = Append(plans, new)
       /\ assets' = Append(assets, [plan |-> new, amount |-> amount])
  ELSE /\ plans' = plans
       /\ assets' = SetAvailableAsset(req[p].plan, amount)

KeyTaken(p, new) == req[p].plan = None /\ \E i \in DOMAIN plans : plans[i] = new

Release(p) == lock' = IF lock = p THEN None ELSE lock

Refuse(p) ==
  /\ req' = End(p, "conflict")
  /\ Release(p)
  /\ UNCHANGED <<users, plans, assets, uploads, demo, written>>

\* The id a PUT gives the first plan.
Mutant_SeedsId == Seeded

NewPlanId == Configured

Upsert(p) ==
  /\ req[p].op = "put" /\ req[p].at = "write"
  /\ \/ KeyTaken(p, NewPlanId) /\ Refuse(p)
     \/ /\ ~KeyTaken(p, NewPlanId)
        /\ WritePlan(p, NewPlanId, req[p].amount)
        /\ written' = req[p].amount
        /\ req' = End(p, "ok")
        /\ Release(p)
        /\ UNCHANGED <<users, uploads, demo>>

GetCurrent(p) ==
  /\ req[p].at = "read"
  /\ req' = IF CurrentPlan = None THEN End(p, "not found")
            ELSE [End(p, "ok") EXCEPT ![p].amount = InitialAsset(CurrentPlan)]
  /\ UNCHANGED <<users, plans, assets, uploads, demo, lock, written>>

----------------------------------------------------------------------------
(* The seed *)

\* A document has one contract: the seed's cannot join one confirmed since.
Taken == {d \in Demos : demo[d].contract = "again"}

\* What the seed makes of a demo contract: rows found by their fixed ids
\* are reset, missing ones added; others are not looked at.
SeedRows(d) ==
  [contract |-> "seeded", payments |-> demo[d].payments \cup {"seed"}]

Seed(p) ==
  /\ req[p].op = "seed" /\ req[p].at = "write"
  /\ \/ (KeyTaken(p, Seeded) \/ Taken # {}) /\ Refuse(p)
     \/ /\ ~KeyTaken(p, Seeded) /\ Taken = {}
        /\ WritePlan(p, Seeded, SeedAmount)
        /\ written' = SeedAmount
        /\ demo' = [d \in Demos |-> SeedRows(d)]
        /\ req' = End(p, "ok")
        /\ Release(p)
        /\ UNCHANGED <<users, uploads>>

----------------------------------------------------------------------------
(* Uploads and what a user does to the demo contracts *)

\* _resolve_document_scope, before the file is stored.
ResolveDocumentScope(p) ==
  /\ req[p].at = "scope"
  /\ req' = [req EXCEPT ![p].plan = IF CurrentPlan = None THEN Configured ELSE CurrentPlan,
                        ![p].at = "save"]
  /\ UNCHANGED <<users, plans, assets, uploads, demo, lock, written>>

Upload(p) ==
  /\ req[p].at = "save"
  /\ uploads' = uploads \cup {req[p].plan}
  /\ req' = End(p, "ok")
  /\ UNCHANGED <<users, plans, assets, demo, lock, written>>

Edit(d, row) ==
  /\ demo' = [demo EXCEPT ![d] = row]
  /\ UNCHANGED <<users, plans, assets, uploads, lock, req, written>>

DeleteContract(d) ==
  demo[d].contract \in {"seeded", "again"} /\ Edit(d, [contract |-> "deleted", payments |-> {}])

PutContract(d) ==
  demo[d].contract \in {"seeded", "again"} /\ Edit(d, [demo[d] EXCEPT !.payments = {"user"}])

ConfirmAgain(d) ==
  demo[d].contract = "deleted" /\ Edit(d, [contract |-> "again", payments |-> {"user"}])

----------------------------------------------------------------------------

Close(p) ==
  /\ req[p].at = "done"
  /\ req' = [req EXCEPT ![p] = Idle]
  /\ UNCHANGED <<users, plans, assets, uploads, demo, lock, written>>

\* The connection breaks, or a statement fails: the transaction is undone.
Break(p) ==
  /\ req[p].at \notin {"idle", "done"}
  /\ req' = [req EXCEPT ![p] = Idle]
  /\ Release(p)
  /\ UNCHANGED <<users, plans, assets, uploads, demo, written>>

Request(p) ==
  \/ \E op \in Ops : \E amount \in IF op = "put" THEN Amounts ELSE {0} : Start(p, op, amount)
  \/ Login(p) \/ InsertDemoIfAbsent(p) \/ Answer(p)
  \/ LockUserPlan(p) \/ GetCurrentForUser(p) \/ Upsert(p) \/ GetCurrent(p) \/ Seed(p)
  \/ ResolveDocumentScope(p) \/ Upload(p)
  \/ Close(p) \/ Break(p)

Next ==
  \/ \E p \in Requests : Request(p)
  \/ \E d \in Demos : DeleteContract(d) \/ PutContract(d) \/ ConfirmAgain(d)

Spec == Init /\ [][Next]_vars
----------------------------------------------------------------------------
(* Properties *)

PlanIds == {Configured, Seeded}
Ats == {"idle", "login", "insert", "answer", "lock", "plan", "write", "read",
        "scope", "save", "done"}
Results == {None, "ok", "conflict", "configuration", "not found"}
Records == [op: Ops, at: Ats, amount: Nat, plan: PlanIds \cup {None}, result: Results]
DemoRows == [contract: {None, "seeded", "deleted", "again"},
             payments: SUBSET {"seed", "user"}]

TypeOK ==
  /\ users \subseteq {"demo", "other"}
  /\ uploads \subseteq PlanIds
  /\ demo \in [Demos -> DemoRows]
  /\ lock \in Requests \cup {None}
  /\ req \in [Requests -> Records]
  /\ \A p \in Requests : req[p].at = "save" => req[p].plan \in PlanIds

\* No plan, or one that has the one asset, of the amount written last.
OnePlan ==
  \/ plans = <<>> /\ assets = <<>>
  \/ \E id \in PlanIds : plans = <<id>> /\ assets = <<[plan |-> id, amount |-> written]>>

\* Whoever holds the lock is alone between looking for the plan and writing,
\* so what was found is still what is there.
Holding(p) == req[p].at \in {"plan", "write"}

LockHeld == \A p \in Requests : Holding(p) <=> lock = p

ReadsCurrent == \A p \in Requests : req[p].at = "write" => req[p].plan = CurrentPlan

\* The plan's user exists; so does a request's after its login.
UserFirst ==
  /\ plans # <<>> => "demo" \in users
  /\ \A p \in Requests :
       req[p].at \in {"answer", "lock", "plan", "write", "read"} => "demo" \in users

\* Type invariant, and: whatever the order of first PUTs, seeds and logins,
\* the user has at most one plan, which has exactly one joint cash asset.
\* The schema allows several of each; the advisory lock of the user, taken
\* before the plan is looked for, is all that keeps PUT and seed apart
\* (WeddingPlanService.upsert, seed_demo_data, lock_user_plan).
PlanInv ==
  /\ TypeOK
  /\ written \in Nat
  /\ OnePlan
  /\ LockHeld
  /\ ReadsCurrent
  /\ UserFirst

\* No request that comes first in a race makes the other one fail: logins
\* agree on the user, PUTs on the plan.  Only a seed is ever refused by a
\* key, when the user has deleted its contract and confirmed the document
\* again (DemoLoginService.login, _upsert_contract).
OnlyTakenConflicts ==
  [][\A p \in Requests :
       req'[p].result = "conflict" /\ req[p].result = None =>
         req[p].op = "seed" /\ Taken # {}]_vars

\* The first asset, which the plan's page shows, the sum of all, which the
\* finance page computes with, and the latest commit of a PUT or a seed
\* agree (get_initial_asset, available_asset, _set_available_asset).
AssetsAgree ==
  plans # <<>> =>
    /\ InitialAsset(CurrentPlan) = written
    /\ AvailableAsset(CurrentPlan) = written

\* Documents uploaded before there is a plan belong to the plan a PUT then
\* makes, also when it comes between the upload's reading of the scope and
\* its insert.  Only a seed's plan leaves them out of reach
\* (_resolve_document_scope, WeddingPlanService._create_plan).
UploadsKept ==
  plans # <<>> /\ (\A d \in Demos : demo[d] = NoDemo) => uploads \subseteq {CurrentPlan}
=============================================================================
