------------------------ MODULE ChatOrchestrationProofs ------------------------
(***************************************************************************)
(* Proofs about ChatOrchestration, for any contracts and any questions.    *)
(***************************************************************************)
EXTENDS ChatOrchestration, FiniteSetTheorems, TLAPS

(* Helpers *)

LEMMA TheIs ==
  ASSUME NEW S
  PROVE  The(S) = None \/ The(S) \in S
<1>1. CASE S = {}
  <2>1. Cardinality(S) = 0
    BY <1>1, FS_EmptySet
  <2> QED
    BY <2>1 DEF The
<1>2. CASE S # {}
  BY <1>2 DEF The
<1> QED
  BY <1>1, <1>2

LEMMA TheOne == ASSUME NEW c PROVE The({c}) = c
<1>1. Cardinality({c}) = 1
  BY FS_Singleton
<1> QED
  BY <1>1 DEF The

LEMMA NoneIs ==
  None \notin Contracts /\ None \notin Companies /\ None \notin Questions /\ None # "SUCCESS"
BY OrchestrationAssumption

LEMMA CompanyIs == \A c \in Contracts : Company[c] \in Companies /\ Company[c] # None
BY NoneIs DEF Companies

LEMMA RewriteType ==
  ASSUME NEW text \in Texts, NEW history \in Texts \cup {None},
         NEW vendor \in Companies \cup {None}, NEW calculation
  PROVE  RewriteQuestion(text, history, vendor, calculation) \in Texts
<1>1. text.words \subseteq Words /\ text.names \subseteq Companies /\ text.amounts \in Nat
  BY DEF Texts
<1>2. CASE calculation # None /\ Has(text, FollowUpMarkers)
  BY <1>2 DEF RewriteQuestion, Texts, Words
<1>3. CASE ~(calculation # None /\ Has(text, FollowUpMarkers)) /\ vendor # None /\ HasContractReference(text)
  BY <1>1, <1>3 DEF RewriteQuestion, Texts, Words
<1>4. CASE /\ ~(calculation # None /\ Has(text, FollowUpMarkers))
           /\ ~(vendor # None /\ HasContractReference(text))
           /\ history # None /\ Has(text, HistoryMarkers)
  <2>1. history.words \subseteq Words /\ history.names \subseteq Companies /\ history.amounts \in Nat
    BY <1>4 DEF Texts
  <2>2. text.amounts + history.amounts \in Nat
    BY <1>1, <2>1
  <2> HIDE DEF Texts
  <2>3. RewriteQuestion(text, history, vendor, calculation) =
          [words |-> text.words \cup history.words, names |-> text.names \cup history.names,
           amounts |-> text.amounts + history.amounts]
    BY <1>4 DEF RewriteQuestion
  <2> QED
    BY <1>1, <2>1, <2>2, <2>3 DEF Texts
<1>5. CASE /\ ~(calculation # None /\ Has(text, FollowUpMarkers))
           /\ ~(vendor # None /\ HasContractReference(text))
           /\ ~(history # None /\ Has(text, HistoryMarkers))
  BY <1>5 DEF RewriteQuestion
<1> QED
  BY <1>2, <1>3, <1>4, <1>5

\* What holds of the contracts a turn can know.
LEMMA KnownIs ==
  ASSUME TypeOK, Advance
  PROVE  /\ Confirmed \subseteq Known /\ Known \subseteq Contracts
         /\ Throughout \subseteq Confirmed
BY DEF TypeOK, Advance, Confirmed, Known, Throughout

----------------------------------------------------------------------------
(* Turns as records *)

Fields == {"question", "rewritten", "route", "kind", "intent", "argument", "provided",
           "provider", "result", "target", "chunks", "found", "context", "aborted"}

LEMMA TurnIs ==
  ASSUME NEW t, t \in Turns
  PROVE  /\ DOMAIN t = Fields
         /\ t.question \in Texts \cup {None} /\ t.rewritten \in Texts \cup {None}
         /\ t.route \in {None, "GENERAL", "TOOL", "RAG", "MIXED"}
         /\ t.kind \in {None, "CONTRACT_CLAUSE", "SERVICE_FAQ", "DOMAIN_KNOWLEDGE"}
         /\ t.intent \in ToolIntents \cup DOMAIN DecidedRoute \cup {"UNKNOWN"}
         /\ t.argument \in Ref /\ t.provided \in BOOLEAN /\ t.provider \in BOOLEAN
         /\ t.result \in Results /\ t.target \in Ref /\ t.chunks \subseteq Contracts
         /\ t.found \in BOOLEAN /\ t.context \in Contexts /\ t.aborted \in BOOLEAN
BY DEF Turns, Fields

\* A node sets some fields and leaves the others.
LEMMA SetIs ==
  ASSUME turn \in Turns, NEW fields
  PROVE  LET t == Set(fields) IN
         /\ t = [f \in Fields |-> t[f]]
         /\ \A f \in Fields : t[f] = IF f \in DOMAIN fields THEN fields[f] ELSE turn[f]
<1>1. DOMAIN turn = Fields
  BY TurnIs
<1> QED
  BY <1>1 DEF Set

LEMMA IsTurn ==
  ASSUME NEW t, t = [f \in Fields |-> t[f]],
         t.question \in Texts \cup {None}, t.rewritten \in Texts \cup {None},
         t.route \in {None, "GENERAL", "TOOL", "RAG", "MIXED"},
         t.kind \in {None, "CONTRACT_CLAUSE", "SERVICE_FAQ", "DOMAIN_KNOWLEDGE"},
         t.intent \in ToolIntents \cup DOMAIN DecidedRoute \cup {"UNKNOWN"},
         t.argument \in Ref, t.provided \in BOOLEAN, t.provider \in BOOLEAN,
         t.result \in Results, t.target \in Ref, t.chunks \subseteq Contracts,
         t.found \in BOOLEAN, t.context \in Contexts, t.aborted \in BOOLEAN
  PROVE  t \in Turns
<1>1. DOMAIN t = Fields
  OBVIOUS
<1> QED
  BY <1>1 DEF Turns, Fields

\* A turn that is over, or that begins.
LEMMA TurnAboutIs ==
  ASSUME TypeOK, NEW question \in Texts \cup {None}, NEW rewritten \in Texts \cup {None}
  PROVE  LET t == TurnAbout(question, rewritten) IN
         /\ t \in Turns /\ t.question = question /\ t.rewritten = rewritten
         /\ t.result = NoResult /\ t.chunks = {} /\ t.argument = None /\ ~t.provided
         /\ t.intent = "UNKNOWN" /\ t.context \in {context, NoContext}
         /\ question = None => t.context = NoContext
<1>1. NoResult \in Results /\ NoContext \in Contexts /\ context \in Contexts
  BY DEF TypeOK, NoResult, Results, NoSubject, Subjects, Ref, NoContext, Contexts, Calculations
<1>2. (IF question = None THEN NoContext ELSE context) \in Contexts
  BY <1>1
<1> QED
  BY <1>1, <1>2 DEF TurnAbout, Turns, Ref

----------------------------------------------------------------------------
(* What the tools and the searches find *)

LEMMA ContextIs ==
  ASSUME NEW x \in Contexts
  PROVE  /\ x.contract \in Ref /\ x.document \in Ref /\ x.vendor \in Companies \cup {None}
         /\ x.calculation \in Calculations
BY DEF Contexts

LEMMA WholeIs ==
  ASSUME NEW c \in Contracts
  PROVE  LET document == [Whole(c) EXCEPT !.document = None]
             id == [NoSubject EXCEPT !.contract = c] IN
         /\ Whole(c) \in Subjects /\ Whole(c).contract = c
         /\ document \in Subjects /\ document.contract = c
         /\ id \in Subjects /\ id.contract = c
BY CompanyIs DEF Whole, NoSubject, Subjects, Ref

\* Data that name no contract change no context.
LEMMA CarryIs ==
  ASSUME NEW old \in Contexts, NEW subject \in Subjects,
         subject.contract = None => subject = NoSubject,
         old.contract = None => old.document = None /\ old.vendor = None
  PROVE  LET new == Carry(old, subject) IN
         /\ new \in Contexts
         /\ new.contract \in {old.contract, subject.contract}
         /\ subject.contract # None => new.contract = subject.contract
         /\ new.contract = None => new.document = None /\ new.vendor = None
<1> DEFINE new == Carry(old, subject)
<1>1. /\ DOMAIN old = {"contract", "document", "vendor", "calculation"}
      /\ DOMAIN subject = {"contract", "document", "vendor"}
  BY DEF Contexts, Subjects
<1>2. /\ new = [f \in {"contract", "document", "vendor", "calculation"} |-> new[f]]
      /\ new.contract = IF subject.contract # None THEN subject.contract ELSE old.contract
      /\ new.document = IF subject.document # None THEN subject.document ELSE old.document
      /\ new.vendor = IF subject.vendor # None THEN subject.vendor ELSE old.vendor
      /\ new.calculation = old.calculation
  BY <1>1 DEF Carry
<1>3. /\ subject.contract \in Ref /\ subject.document \in Ref
      /\ subject.vendor \in Companies \cup {None}
  BY DEF Subjects
<1> HIDE DEF new
<1>4. new \in Contexts
  BY <1>2, <1>3, ContextIs DEF Contexts
<1>5. new.contract = None => new.document = None /\ new.vendor = None
  BY <1>2 DEF NoSubject
<1> QED
  BY <1>2, <1>4, <1>5 DEF new

\* What a result may be of: of contracts that are there, and of the one that
\* is asked for; and whose data name a contract only if it is one of them.
Sane(r, intent, c) ==
  /\ r \in Results /\ r.about \subseteq Confirmed
  /\ r.about # {} => r.status = "SUCCESS" /\ intent \notin {"FINANCE_SUMMARY", "EXPENSE_SIMULATION"}
  /\ c # None => r.about \subseteq {c}
  /\ r.subject.contract \in {None} \cup r.about
  /\ r.subject.contract = None => r.subject = NoSubject

LEMMA FailureIs ==
  ASSUME TypeOK, NEW intent, NEW c,
         NEW status \in {None, "SUCCESS", "NOT_FOUND", "INVALID_ARGUMENT", "INSUFFICIENT_DATA",
                         "TOOL_ERROR"}
  PROVE  Sane(Failure(status), intent, c) /\ Failure(status).about = {}
BY DEF Sane, Failure, NoResult, Results, NoSubject, Subjects, Ref

LEMMA FoundIs ==
  ASSUME TypeOK, NEW intent, intent \notin {"FINANCE_SUMMARY", "EXPENSE_SIMULATION"},
         NEW c, NEW S, S \subseteq Confirmed, c # None => S \subseteq {c},
         NEW subject \in Subjects, subject.contract \in {None} \cup S,
         subject.contract = None => subject = NoSubject
  PROVE  Sane([status |-> "SUCCESS", about |-> S, subject |-> subject], intent, c)
<1>1. S \subseteq Contracts
  BY DEF Confirmed
<1> QED
  BY <1>1 DEF Sane, Results

LEMMA ToolResultsIs ==
  ASSUME TypeOK, NEW intent, NEW c \in Ref, NEW r \in ToolResults(intent, c)
  PROVE  Sane(r, intent, c)
<1>0. /\ NoSubject \in Subjects /\ NoSubject.contract = None
      /\ Confirmed \subseteq Contracts /\ Scope(c) \subseteq Confirmed
      /\ c # None => Scope(c) \subseteq {c}
  BY DEF NoSubject, Subjects, Ref, Confirmed, Scope
<1>1. CASE intent = "USER_CONTRACT_LOOKUP"
  <2>1. PICK S \in (IF c # None THEN {Scope(c)} ELSE SUBSET Confirmed) : r \in ContractLists(S)
    BY <1>1 DEF ToolResults
  <2>2. S \subseteq Confirmed /\ (c # None => S \subseteq {c})
    BY <1>0, <2>1
  <2> DEFINE subject == IF The(S) = None THEN NoSubject ELSE Whole(The(S))
  <2>3. subject \in Subjects /\ subject.contract \in {None} \cup S
        /\ (subject.contract = None => subject = NoSubject)
    BY <1>0, <2>2, TheIs, WholeIs, NoneIs
  <2>4. r = [status |-> "SUCCESS", about |-> S, subject |-> subject]
    BY <2>1 DEF ContractLists
  <2> HIDE DEF subject
  <2> QED
    BY <1>1, <2>2, <2>3, <2>4, FoundIs
<1>2. ASSUME NEW subjects, r \in OneContract(c, subjects),
             intent \notin {"FINANCE_SUMMARY", "EXPENSE_SIMULATION"},
             c \in Contracts => \A s \in subjects : s \in Subjects /\ s.contract = c
      PROVE  Sane(r, intent, c)
  <2>1. CASE r \in {Failure("INVALID_ARGUMENT"), Failure("NOT_FOUND")}
    BY <2>1, FailureIs
  <2>2. CASE c \in Confirmed /\ \E s \in subjects :
                r = [status |-> "SUCCESS", about |-> {c}, subject |-> s]
    <3>1. PICK s \in subjects : r = [status |-> "SUCCESS", about |-> {c}, subject |-> s]
      BY <2>2
    <3>2. s \in Subjects /\ s.contract = c /\ c # None
      BY <1>0, <1>2, <2>2, NoneIs
    <3> QED
      BY <1>2, <2>2, <3>1, <3>2, FoundIs
  <2> QED
    BY <1>2, <2>1, <2>2 DEF OneContract
<1>3. CASE intent = "CONTRACT"
  <2>1. r \in OneContract(c, {Whole(c)})
    BY <1>3 DEF ToolResults
  <2> QED
    BY <1>2, <1>3, <2>1, WholeIs
<1>4. CASE intent = "CONTRACT_DEPOSIT"
  <2>1. r \in OneContract(c, {[Whole(c) EXCEPT !.document = None]})
          \/ r = Failure("INSUFFICIENT_DATA")
    BY <1>4 DEF ToolResults
  <2> DEFINE subject == [Whole(c) EXCEPT !.document = None]
  <2>2. c \in Contracts => subject \in Subjects /\ subject.contract = c
    BY WholeIs
  <2>3. r = Failure("INSUFFICIENT_DATA") => Sane(r, intent, c)
    BY FailureIs
  <2> HIDE DEF subject
  <2>4. r \in OneContract(c, {subject}) \/ r = Failure("INSUFFICIENT_DATA")
    BY <2>1 DEF subject
  <2> QED
    BY <1>2, <1>4, <2>2, <2>3, <2>4
<1>5. CASE intent \in {"CONTRACT_PAYMENT", "SCHEDULE"}
  <2>1. r \in PaymentLists(Scope(c))
    BY <1>5 DEF ToolResults
  <2>2. CASE r = Failure("NOT_FOUND")
    BY <2>2, FailureIs
  <2>3. ASSUME NEW S \in SUBSET Scope(c) \ {{}}, NEW d \in {None, The(S)},
               r = [status |-> "SUCCESS", about |-> S,
                    subject |-> [NoSubject EXCEPT !.contract = d]]
        PROVE  Sane(r, intent, c)
    <3> DEFINE subject == [NoSubject EXCEPT !.contract = d]
    <3>1. S \subseteq Confirmed /\ (c # None => S \subseteq {c})
      BY <1>0, <2>3
    <3>2. subject \in Subjects /\ subject.contract \in {None} \cup S
          /\ (subject.contract = None => subject = NoSubject)
      <4>1. CASE d = None
        BY <1>0, <4>1 DEF NoSubject
      <4>2. CASE d # None
        BY <1>0, <2>3, <3>1, <4>2, TheIs, WholeIs
      <4> QED
        BY <4>1, <4>2
    <3> HIDE DEF subject
    <3> QED
      BY <1>5, <2>3, <3>1, <3>2, FoundIs DEF subject
  <2>4. ASSUME r \notin {Failure("NOT_FOUND")}
        PROVE  \E S \in SUBSET Scope(c) \ {{}} : \E d \in {None, The(S)} :
                 r = [status |-> "SUCCESS", about |-> S,
                      subject |-> [NoSubject EXCEPT !.contract = d]]
    <3>1. PICK S \in SUBSET Scope(c) \ {{}} :
                 r \in {[status |-> "SUCCESS", about |-> S,
                        subject |-> [NoSubject EXCEPT !.contract = d]] : d \in {None, The(S)}}
      BY <2>1, <2>4 DEF PaymentLists
    <3> QED
      BY <3>1
  <2> QED
    BY <2>2, <2>3, <2>4
<1>6. CASE intent \in {"FINANCE_SUMMARY", "EXPENSE_SIMULATION"}
  BY <1>6, FailureIs DEF ToolResults, Failure
<1>7. CASE intent \notin {"USER_CONTRACT_LOOKUP", "CONTRACT", "CONTRACT_DEPOSIT", "CONTRACT_PAYMENT",
                          "SCHEDULE", "FINANCE_SUMMARY", "EXPENSE_SIMULATION"}
  <2>1. r = NoResult
    BY <1>7 DEF ToolResults
  <2>2. NoResult = Failure(None)
    BY DEF NoResult, Failure
  <2> QED
    BY <2>1, <2>2, FailureIs
<1> QED
  BY <1>1, <1>3, <1>4, <1>5, <1>6, <1>7

----------------------------------------------------------------------------
(* Steps *)

\* A step from one node to another, by what it leaves in the turn.
LEMMA NodeKeeps ==
  ASSUME ContextInv, InTurn, UNCHANGED <<row, before, context, last, answer>>, turn' \in Turns,
         pc' \in {"arguments", "fallback", "tool", "target", "search", "generate"},
         turn'.question = turn.question, turn'.rewritten = turn.rewritten,
         turn'.context.contract = None => turn'.context.document = None /\ turn'.context.vendor = None,
         pc' \in {"arguments", "fallback", "tool"} => turn'.result = NoResult,
         pc' # "generate" => turn'.route # "GENERAL" /\ turn'.chunks = {},
         pc' = "arguments" /\ ~turn'.provided => turn'.argument = None,
         turn'.result.about \cup turn'.chunks \subseteq Known,
         turn'.result.about # {} =>
           /\ turn'.result.status = "SUCCESS" /\ turn'.route # "GENERAL"
           /\ turn'.intent \notin {"FINANCE_SUMMARY", "EXPENSE_SIMULATION"},
         turn'.chunks # {} => turn'.route # "GENERAL",
         turn'.context.contract \in
           {context.contract} \cup turn'.result.about \cup turn'.chunks
             \cup Named(turn.rewritten, Contracts),
         \A c \in Contracts : Meant(c)' =>
           /\ turn'.result.about \cup turn'.chunks \subseteq {c}
           /\ pc' # "fallback"
           /\ pc' = "tool" /\ turn'.intent \in ContractIntents \cup {"USER_CONTRACT_LOOKUP"} =>
                turn'.argument = c
           /\ pc' = "search" => turn'.target = c
  PROVE  ContextInv'
<1>1. TypeOK'
  BY DEF ContextInv, TypeOK
<1>2. Known' = Known /\ Advance' /\ Named(turn.rewritten, Contracts)' = Named(turn.rewritten, Contracts)
  BY DEF ContextInv, Advance, Known, Named
<1>3. Gathered'
  BY <1>2 DEF ContextInv, Gathered, Answered
<1>4. MeantKept'
  BY DEF MeantKept
<1> QED
  BY <1>1, <1>2, <1>3, <1>4 DEF ContextInv

\* Where the intent is settled the same contract is meant before and after.
LEMMA StillMeant ==
  ASSUME InTurn, UNCHANGED <<row, before, context>>, turn'.question = turn.question,
         turn'.rewritten = turn.rewritten, turn'.intent = turn.intent,
         turn'.provided = turn.provided, NEW c \in Contracts, Meant(c)'
  PROVE  Meant(c)
BY DEF Meant, Throughout, Confirmed, Known, Named

\* A contract that is meant is the one the resolvers find.
LEMMA MeantNamed ==
  ASSUME ContextInv, NEW c \in Contracts, Meant(c)
  PROVE  The(Named(turn.rewritten, Confirmed)) = c /\ c # None
<1>1. Named(turn.rewritten, Confirmed) = {c}
  BY KnownIs DEF ContextInv, Meant, Named
<1> QED
  BY <1>1, TheOne, NoneIs

\* The turn ends without an answer.
LEMMA EndKeeps ==
  ASSUME ContextInv, InTurn, NEW how \in {"lost", "refused"}, End(how)
  PROVE  ContextInv'
<1> DEFINE t == TurnAbout(None, None)
<1>1. turn' = [t EXCEPT !.result = turn.result] /\ turn.result \in Results /\ t \in Turns
      /\ t.context = NoContext
  <2>1. TypeOK /\ turn \in Turns
    BY DEF ContextInv, TypeOK
  <2>2. turn.result \in Results
    BY <2>1, TurnIs
  <2>3. t \in Turns /\ t.context = NoContext
    BY <2>1, TurnAboutIs
  <2> QED
    BY <2>2, <2>3 DEF End
<1> HIDE DEF t
<1>2. turn' \in Turns /\ turn'.context = NoContext
  BY <1>1 DEF Turns
<1>3. NoRows \in [Contracts -> {"none", "confirmed", "deleted"}] /\ NoAnswer \in Answers
  BY DEF NoRows, NoAnswer, Answers, Calculations
<1>4. TypeOK'
  BY <1>2, <1>3 DEF End, ContextInv, TypeOK
<1>5. Advance' /\ ~InTurn'
  BY DEF End, Advance, NoRows, InTurn
<1>6. Gathered' /\ MeantKept'
  BY <1>5 DEF Gathered, MeantKept, Meant
<1> QED
  BY <1>2, <1>4, <1>5, <1>6 DEF End, ContextInv, NoContext

LEMMA AskKeeps == ASSUME ContextInv, NEW q \in Questions, Ask(q) PROVE ContextInv'
<1> DEFINE rewritten == RewriteQuestion(q, last, context.vendor, context.calculation)
           t == TurnAbout(q, rewritten)
<1>1. /\ pc' = "classify" /\ turn' = t /\ before' = row /\ answer' = NoAnswer
      /\ UNCHANGED <<row, context, last>>
  BY DEF Ask
<1>2. q \in Texts /\ q # None /\ TypeOK /\ context \in Contexts /\ last \in Texts \cup {None}
  BY OrchestrationAssumption DEF ContextInv, TypeOK
<1>3. rewritten \in Texts
  BY <1>2, RewriteType, ContextIs
<1> HIDE DEF rewritten
<1>4. /\ t \in Turns /\ t.question = q /\ t.rewritten = rewritten
      /\ t.result = NoResult /\ t.chunks = {} /\ t.argument = None /\ t.context = context
  BY <1>2, <1>3, TurnAboutIs DEF TurnAbout
<1>5. NoResult.about = {} /\ NoAnswer \in Answers
  BY DEF NoResult, NoAnswer, Answers, Calculations
<1> HIDE DEF t
<1>6. TypeOK'
  BY <1>1, <1>2, <1>4, <1>5 DEF TypeOK
<1>7. Advance'
  BY <1>1 DEF Advance
<1>8. Gathered'
  BY <1>1, <1>2, <1>4, <1>5 DEF Gathered, Answered, rewritten
<1>9. MeantKept'
  BY <1>1, <1>4, <1>5 DEF MeantKept
<1> QED
  BY <1>1, <1>4, <1>6, <1>7, <1>8, <1>9 DEF ContextInv

\* A contract comes or goes: a turn can only know more, and what is meant was
\* there before.
LEMMA RowKeeps ==
  ASSUME ContextInv, NEW x \in Contracts, Confirm(x) \/ Delete(x)
  PROVE  ContextInv'
<1>1. /\ row' \in [Contracts -> {"none", "confirmed", "deleted"}]
      /\ \A c \in Contracts : \/ row'[c] = row[c]
                              \/ row[c] = "none" /\ row'[c] = "confirmed"
                              \/ row[c] = "confirmed" /\ row'[c] = "deleted"
      /\ UNCHANGED <<before, context, last, pc, turn, answer>>
  BY DEF Confirm, Delete, ContextInv, TypeOK
<1>2. TypeOK'
  BY <1>1 DEF ContextInv, TypeOK
<1>3. Advance'
  BY <1>1 DEF ContextInv, Advance
<1>4. Known \subseteq Known'
  BY <1>1 DEF Known
<1>5. Gathered'
  <2>1. Named(turn.rewritten, Contracts)' = Named(turn.rewritten, Contracts)
    BY <1>1 DEF Named
  <2> QED
    BY <1>1, <1>4, <2>1 DEF ContextInv, Gathered, InTurn, Answered
<1>6. MeantKept'
  <2>1. ASSUME NEW c \in Contracts, Meant(c)' PROVE Meant(c)
    <3>1. c \in Throughout /\ c \in Known
      BY <1>1, <2>1 DEF Meant, Throughout, Confirmed, Known, ContextInv, Advance
    <3>2. Named(turn.rewritten, Known) = {c}
      <4>1. Named(turn.rewritten, Known') = {c}
        BY <1>1, <2>1 DEF Meant, Named
      <4> QED
        BY <1>4, <3>1, <4>1 DEF Named
    <3> QED
      BY <1>1, <2>1, <3>1, <3>2 DEF Meant, InTurn
  <2> QED
    BY <1>1, <2>1 DEF ContextInv, MeantKept
<1> QED
  BY <1>1, <1>2, <1>3, <1>5, <1>6 DEF ContextInv

\* What is known of a turn on its way.
LEMMA OnTheWay ==
  ASSUME ContextInv, InTurn
  PROVE  /\ TypeOK /\ Advance /\ turn \in Turns /\ DOMAIN turn = Fields
         /\ turn.question \in Texts /\ turn.result \in Results /\ turn.context \in Contexts
         /\ turn.argument \in Ref /\ turn.target \in Ref /\ turn.chunks \subseteq Contracts
         /\ NoResult.about = {} /\ NoResult.status = None
         /\ turn.context.contract = None => turn.context.document = None /\ turn.context.vendor = None
         /\ turn.result.about \cup turn.chunks \subseteq Known
         /\ turn.context.contract \in
              {context.contract} \cup turn.result.about \cup turn.chunks
                \cup Named(turn.rewritten, Contracts)
<1>1. turn \in Turns
  BY DEF ContextInv, TypeOK
<1> QED
  BY <1>1, TurnIs DEF ContextInv, Gathered, NoResult

LEMMA MessageType ==
  ASSUME NEW text
  PROVE  ClassifyMessage(text) \in ToolIntents \cup DOMAIN DecidedRoute \cup {"UNKNOWN"}
BY DEF ClassifyMessage, ToolIntents, DecidedRoute

LEMMA RouteType ==
  ASSUME NEW text
  PROVE  /\ ClassifyRagRoute(text)[1] \in {"GENERAL", "TOOL", "RAG", "MIXED"}
         /\ ClassifyRagRoute(text)[2] \in {None, "CONTRACT_CLAUSE", "SERVICE_FAQ", "DOMAIN_KNOWLEDGE"}
BY DEF ClassifyRagRoute

LEMMA DecidedType ==
  ASSUME NEW i \in DOMAIN DecidedRoute
  PROVE  /\ DecidedRoute[i][1] \in {"GENERAL", "TOOL", "RAG", "MIXED"}
         /\ DecidedRoute[i][2] \in {None, "CONTRACT_CLAUSE", "SERVICE_FAQ", "DOMAIN_KNOWLEDGE"}
BY DEF DecidedRoute

LEMMA DecideKeeps ==
  ASSUME ContextInv, pc = "classify", NEW route \in {"GENERAL", "TOOL", "RAG", "MIXED"},
         NEW kind \in {None, "CONTRACT_CLAUSE", "SERVICE_FAQ", "DOMAIN_KNOWLEDGE"},
         NEW decision, NEW provider \in BOOLEAN,
         decision[1] \in ToolIntents \cup DOMAIN DecidedRoute \cup {"UNKNOWN"},
         decision[2] \in Ref, Decide(route, kind, decision, provider)
  PROVE  ContextInv'
<1> DEFINE final == IF decision[1] = "UNKNOWN" /\ route = "TOOL" THEN "GENERAL" ELSE route
           intent == decision[1]
           argument == decision[2]
           provided == decision[2] # None
<1>1. /\ pc' = Node(final) /\ UNCHANGED <<row, before, context, last, answer>>
      /\ turn' = Set([route |-> final, kind |-> kind, intent |-> intent,
                      argument |-> argument, provided |-> provided, provider |-> provider])
  BY DEF Decide, Goto
<1>2. InTurn /\ turn.result = NoResult /\ turn.chunks = {} /\ turn \in Turns
  BY DEF InTurn, ContextInv, Gathered, TypeOK
<1>3. final \in {"GENERAL", "TOOL", "RAG", "MIXED"} /\ provided \in BOOLEAN
      /\ (~provided => argument = None)
  OBVIOUS
<1> HIDE DEF final, intent, argument, provided
<1>4. /\ turn' = [f \in Fields |-> turn'[f]]
      /\ turn'.question = turn.question /\ turn'.rewritten = turn.rewritten
      /\ turn'.result = turn.result /\ turn'.chunks = turn.chunks /\ turn'.context = turn.context
      /\ turn'.target = turn.target /\ turn'.found = turn.found /\ turn'.aborted = turn.aborted
      /\ turn'.route = final /\ turn'.kind = kind /\ turn'.intent = intent
      /\ turn'.argument = argument /\ turn'.provided = provided /\ turn'.provider = provider
  BY <1>1, <1>2, SetIs DEF Fields
<1>5. intent \in ToolIntents \cup DOMAIN DecidedRoute \cup {"UNKNOWN"} /\ argument \in Ref
  BY DEF intent, argument
<1>6. turn' \in Turns
  BY <1>2, <1>3, <1>4, <1>5, TurnIs, IsTurn
<1>7. /\ pc' \in {"generate", "target", "arguments"}
      /\ pc' # "generate" => final # "GENERAL"
  BY <1>1, <1>3 DEF Node
<1> QED
  BY <1>1, <1>2, <1>3, <1>4, <1>6, <1>7, OnTheWay, NodeKeeps

LEMMA ClassifyKeeps == ASSUME ContextInv, Classify PROVE ContextInv'
<1> DEFINE own == ClassifyMessage(turn.question)
           route == ClassifyRagRoute(turn.rewritten)
<1>1. pc = "classify" /\ InTurn
  BY DEF Classify, InTurn
<1>2. /\ own \in ToolIntents \cup DOMAIN DecidedRoute \cup {"UNKNOWN"}
      /\ route[1] \in {"GENERAL", "TOOL", "RAG", "MIXED"}
      /\ route[2] \in {None, "CONTRACT_CLAUSE", "SERVICE_FAQ", "DOMAIN_KNOWLEDGE"}
  BY MessageType, RouteType
<1>3. CASE /\ own \in DOMAIN DecidedRoute
           /\ Decide(DecidedRoute[own][1], DecidedRoute[own][2], <<own, None>>,
                     DecidedRoute[own][1] = "RAG")
  <2> DEFINE r == DecidedRoute[own]
             d == <<own, None>>
  <2>1. d[1] = own /\ d[2] = None /\ (r[1] = "RAG") \in BOOLEAN /\ None \in Ref
    BY DEF Ref
  <2>2. /\ r[1] \in {"GENERAL", "TOOL", "RAG", "MIXED"}
        /\ r[2] \in {None, "CONTRACT_CLAUSE", "SERVICE_FAQ", "DOMAIN_KNOWLEDGE"}
    BY <1>3, DecidedType
  <2>3. Decide(r[1], r[2], d, r[1] = "RAG")
    BY <1>3
  <2> HIDE DEF r, d, own
  <2> QED
    BY <1>1, <1>2, <2>1, <2>2, <2>3, DecideKeeps
<1>4. ASSUME NEW d, NEW provider \in BOOLEAN, Decide(route[1], route[2], d, provider),
             d[1] \in ToolIntents \cup DOMAIN DecidedRoute \cup {"UNKNOWN"}, d[2] \in Ref
      PROVE  ContextInv'
  <2> HIDE DEF own, route
  <2> QED
    BY <1>1, <1>2, <1>4, DecideKeeps
<1>5. CASE Decide(route[1], route[2], <<"UNKNOWN", None>>, route[1] = "RAG")
  <2> DEFINE d == <<"UNKNOWN", None>>
             b == route[1] = "RAG"
  <2>1. d[1] = "UNKNOWN" /\ d[2] \in Ref /\ b \in BOOLEAN /\ Decide(route[1], route[2], d, b)
    BY <1>5 DEF Ref
  <2> HIDE DEF own, route, d, b
  <2> QED
    BY <1>4, <2>1
<1>6. CASE Decide(route[1], route[2], RuleDecision(turn.rewritten), FALSE)
  <2> DEFINE d == RuleDecision(turn.rewritten)
  <2>1. /\ d[1] \in ToolIntents \cup DOMAIN DecidedRoute \cup {"UNKNOWN"} /\ d[2] \in Ref
        /\ Decide(route[1], route[2], d, FALSE)
    BY <1>6, MessageType DEF RuleDecision, Ref
  <2> HIDE DEF own, route, d
  <2> QED
    BY <1>4, <2>1
<1>7. CASE \E d \in ProviderDecisions : Decide(route[1], route[2], d, TRUE)
  <2>1. PICK d \in ProviderDecisions : Decide(route[1], route[2], d, TRUE)
    BY <1>7
  <2>2. d[1] \in ToolIntents \cup DOMAIN DecidedRoute \cup {"UNKNOWN"} /\ d[2] \in Ref
    <3>1. /\ ContractIntents \subseteq ToolIntents /\ "GENERAL_CHAT" \in DOMAIN DecidedRoute
          /\ Contracts \subseteq Ref /\ None \in Ref
      BY DEF ContractIntents, ToolIntents, DecidedRoute, Ref
    <3> QED
      BY <3>1 DEF ProviderDecisions
  <2> HIDE DEF own, route
  <2> QED
    BY <1>4, <2>1, <2>2
<1>8. CASE End("refused")
  BY <1>1, <1>8, EndKeeps
<1> QED
  BY <1>3, <1>5, <1>6, <1>7, <1>8 DEF Classify

\* A resolver sets the argument of the tool.
LEMMA ArgumentKeeps ==
  ASSUME ContextInv, pc \in {"arguments", "fallback"}, NEW node \in {"fallback", "tool"},
         NEW c \in Ref, Goto(node, [argument |-> c]),
         \A d \in Contracts : Meant(d) =>
           /\ node # "fallback"
           /\ turn.intent \in ContractIntents \cup {"USER_CONTRACT_LOOKUP"} => c = d
  PROVE  ContextInv'
<1>1. /\ pc' = node /\ UNCHANGED <<row, before, context, last, answer>>
      /\ turn' = Set([argument |-> c])
  BY DEF Goto
<1>2. /\ InTurn /\ turn \in Turns /\ turn.result = NoResult /\ turn.chunks = {}
      /\ turn.route # "GENERAL"
  BY DEF InTurn, ContextInv, Gathered, TypeOK
<1>3. /\ turn' = [f \in Fields |-> turn'[f]] /\ turn'.argument = c
      /\ turn'.question = turn.question /\ turn'.rewritten = turn.rewritten
      /\ turn'.result = turn.result /\ turn'.chunks = turn.chunks /\ turn'.context = turn.context
      /\ turn'.target = turn.target /\ turn'.found = turn.found /\ turn'.aborted = turn.aborted
      /\ turn'.route = turn.route /\ turn'.kind = turn.kind /\ turn'.intent = turn.intent
      /\ turn'.provided = turn.provided /\ turn'.provider = turn.provider
  BY <1>1, <1>2, SetIs DEF Fields
<1>4. turn' \in Turns
  BY <1>2, <1>3, TurnIs, IsTurn
<1>5. \A d \in Contracts : Meant(d)' => Meant(d)
  BY <1>1, <1>2, <1>3, StillMeant
<1> QED
  BY <1>1, <1>2, <1>3, <1>4, <1>5, OnTheWay, NodeKeeps

LEMMA ExplicitKeeps == ASSUME ContextInv, ResolveExplicit PROVE ContextInv'
<1> DEFINE refers == HasContractReference(turn.question) /\ context.contract # None
           named == The(Named(turn.rewritten, Confirmed))
<1>1. pc = "arguments" /\ InTurn /\ (~turn.provided => turn.argument = None)
  BY DEF ResolveExplicit, InTurn, ContextInv, Gathered
<1>2. context.contract \in Ref /\ turn.argument \in Ref /\ None \in Ref /\ named \in Ref
  <2>1. named = None \/ named \in Named(turn.rewritten, Confirmed)
    BY TheIs
  <2> QED
    BY <1>1, <2>1, OnTheWay, ContextIs DEF ContextInv, TypeOK, Ref, Named, Confirmed
<1>3. ASSUME NEW c \in Contracts, Meant(c)
      PROVE  /\ named = c /\ c # None /\ turn.argument = None
             /\ turn.intent = "USER_CONTRACT_LOOKUP" => refers /\ context.contract = c
  BY <1>1, <1>3, MeantNamed DEF Meant
<1> HIDE DEF named, refers
<1>4. CASE /\ turn.intent = "USER_CONTRACT_LOOKUP"
           /\ Goto("tool", [argument |-> IF refers THEN context.contract ELSE None])
  <2> DEFINE c == IF refers THEN context.contract ELSE None
  <2>1. c \in Ref /\ \A d \in Contracts : Meant(d) => c = d
    BY <1>2, <1>3, <1>4
  <2> HIDE DEF c
  <2> QED
    BY <1>1, <1>4, <2>1, ArgumentKeeps DEF c
<1>5. CASE /\ turn.intent # "USER_CONTRACT_LOOKUP"
           /\ turn.intent \notin ContractIntents \/ turn.argument # None
           /\ Goto("tool", [argument |-> turn.argument])
  BY <1>1, <1>2, <1>3, <1>5, ArgumentKeeps
<1>6. CASE named # None /\ Goto("tool", [argument |-> named])
  BY <1>1, <1>2, <1>3, <1>6, ArgumentKeeps
<1>7. CASE named = None /\ \/ Goto("tool", [argument |-> context.contract])
                           \/ Goto("fallback", [argument |-> None])
  BY <1>1, <1>2, <1>3, <1>7, ArgumentKeeps
<1> QED
  BY <1>4, <1>5, <1>6, <1>7 DEF ResolveExplicit, named, refers

LEMMA FallbackKeeps == ASSUME ContextInv, ResolveFallback PROVE ContextInv'
<1> DEFINE matching == Named(turn.rewritten, Confirmed)
           set == IF matching # {} THEN matching ELSE Confirmed
           c == The(set)
<1>1. pc = "fallback" /\ InTurn /\ Goto("tool", [argument |-> c])
  BY DEF ResolveFallback, InTurn
<1>2. c \in Ref
  <2>1. set \subseteq Contracts
    BY DEF Named, Confirmed
  <2> HIDE DEF set
  <2> QED
    BY <2>1, TheIs DEF Ref
<1>3. \A d \in Contracts : ~Meant(d)
  BY <1>1 DEF ContextInv, MeantKept
<1> HIDE DEF c
<1> QED
  BY <1>1, <1>2, <1>3, ArgumentKeeps

LEMMA ToolKeeps == ASSUME ContextInv, CallTool PROVE ContextInv'
<1>1. /\ pc = "tool" /\ InTurn /\ turn.result = NoResult /\ turn.chunks = {}
      /\ turn.route # "GENERAL" /\ AfterTool \in {"target", "generate"}
  BY DEF CallTool, InTurn, ContextInv, Gathered, AfterTool
<1>2. /\ TypeOK /\ Advance /\ turn \in Turns /\ turn.argument \in Ref /\ turn.context \in Contexts
      /\ turn.context.contract = None => turn.context.document = None /\ turn.context.vendor = None
      /\ turn.context.contract \in {context.contract} \cup Named(turn.rewritten, Contracts)
      /\ Confirmed \subseteq Known /\ None \in Ref
  BY <1>1, OnTheWay, KnownIs DEF Ref
<1>3. CASE \E r \in ToolResults(turn.intent, turn.argument) :
             Goto(AfterTool, [result |-> r, argument |-> None,
                              context |-> Carry(turn.context, r.subject)])
  <2>1. PICK r \in ToolResults(turn.intent, turn.argument) :
               Goto(AfterTool, [result |-> r, argument |-> None,
                                context |-> Carry(turn.context, r.subject)])
    BY <1>3
  <2> DEFINE new == Carry(turn.context, r.subject)
  <2>2. Sane(r, turn.intent, turn.argument)
    BY <1>2, ToolResultsIs
  <2>3. /\ new \in Contexts
        /\ new.contract \in {turn.context.contract, r.subject.contract}
        /\ r.subject.contract # None => new.contract = r.subject.contract
        /\ r.subject.contract = None => new.contract = turn.context.contract
        /\ new.contract = None => new.document = None /\ new.vendor = None
    <3>1. r.subject \in Subjects /\ (r.subject.contract = None => r.subject = NoSubject)
      BY <2>2 DEF Sane, Results
    <3>2. r.subject.contract = None => new.contract = turn.context.contract
      BY <1>2, <3>1 DEF Carry, NoSubject, Contexts
    <3> QED
      BY <1>2, <3>1, <3>2, CarryIs
  <2> HIDE DEF new
  <2>4. /\ pc' = AfterTool /\ UNCHANGED <<row, before, context, last, answer>>
        /\ turn' = Set([result |-> r, argument |-> None, context |-> new])
    BY <2>1 DEF Goto, new
  <2>5. /\ turn' = [f \in Fields |-> turn'[f]]
        /\ turn'.result = r /\ turn'.argument = None /\ turn'.context = new
        /\ turn'.question = turn.question /\ turn'.rewritten = turn.rewritten
        /\ turn'.chunks = turn.chunks
        /\ turn'.target = turn.target /\ turn'.found = turn.found /\ turn'.aborted = turn.aborted
        /\ turn'.route = turn.route /\ turn'.kind = turn.kind /\ turn'.intent = turn.intent
        /\ turn'.provided = turn.provided /\ turn'.provider = turn.provider
    BY <1>2, <2>4, SetIs DEF Fields
  <2>6. turn' \in Turns
    <3>1. r \in Results
      BY <2>2 DEF Sane
    <3> QED
      BY <1>2, <2>3, <2>5, <3>1, TurnIs, IsTurn
  <2>7. r.about \subseteq Known
        /\ new.contract \in {context.contract} \cup r.about \cup Named(turn.rewritten, Contracts)
    BY <1>2, <2>2, <2>3 DEF Sane
  <2>8. ASSUME NEW c \in Contracts, Meant(c)' PROVE r.about \subseteq {c}
    <3>1. Meant(c)
      BY <1>1, <2>4, <2>5, <2>8, StillMeant
    <3>2. CASE turn.intent \in ContractIntents \cup {"USER_CONTRACT_LOOKUP"}
      <4>1. turn.argument = c /\ c # None
        BY <1>1, <3>1, <3>2, NoneIs DEF ContextInv, MeantKept
      <4> QED
        BY <2>2, <4>1 DEF Sane
    <3>3. CASE turn.intent \notin ContractIntents \cup {"USER_CONTRACT_LOOKUP"}
      <4>1. r.about = {}
        BY <3>3 DEF ContractIntents, ToolResults, NoResult
      <4> QED
        BY <4>1
    <3> QED
      BY <3>2, <3>3
  <2>9. r.about # {} =>
          r.status = "SUCCESS" /\ turn.intent \notin {"FINANCE_SUMMARY", "EXPENSE_SIMULATION"}
    BY <2>2 DEF Sane
  <2> QED
    BY <1>1, <2>3, <2>4, <2>5, <2>6, <2>7, <2>8, <2>9, NodeKeeps
<1>4. CASE Goto(AfterTool, [result |-> Failure("TOOL_ERROR"), argument |-> None, aborted |-> TRUE])
  <2> DEFINE r == Failure("TOOL_ERROR")
  <2>1. r \in Results /\ r.about = {}
    BY <1>2, FailureIs DEF Sane
  <2> HIDE DEF r
  <2>2. /\ pc' = AfterTool /\ UNCHANGED <<row, before, context, last, answer>>
        /\ turn' = Set([result |-> r, argument |-> None, aborted |-> TRUE])
    BY <1>4 DEF Goto, r
  <2>3. /\ turn' = [f \in Fields |-> turn'[f]]
        /\ turn'.result = r /\ turn'.argument = None /\ turn'.context = turn.context
        /\ turn'.question = turn.question /\ turn'.rewritten = turn.rewritten
        /\ turn'.chunks = turn.chunks
        /\ turn'.target = turn.target /\ turn'.found = turn.found /\ turn'.aborted = TRUE
        /\ turn'.route = turn.route /\ turn'.kind = turn.kind /\ turn'.intent = turn.intent
        /\ turn'.provided = turn.provided /\ turn'.provider = turn.provider
    BY <1>2, <2>2, SetIs DEF Fields
  <2>4. turn' \in Turns
    BY <1>2, <2>1, <2>3, TurnIs, IsTurn
  <2> QED
    BY <1>1, <1>2, <2>1, <2>2, <2>3, <2>4, NodeKeeps
<1> QED
  BY <1>3, <1>4 DEF CallTool

LEMMA TargetKeeps == ASSUME ContextInv, ResolveTarget PROVE ContextInv'
<1> DEFINE named == The(Named(turn.rewritten, Confirmed))
           known == IF HasContractReference(turn.question) THEN turn.context.contract ELSE None
<1>1. /\ pc = "target" /\ InTurn /\ turn.chunks = {} /\ turn.route # "GENERAL"
      /\ turn.result.about # {} =>
           /\ turn.result.status = "SUCCESS"
           /\ turn.intent \notin {"FINANCE_SUMMARY", "EXPENSE_SIMULATION"}
      /\ \A c \in Contracts : Meant(c) => turn.result.about \subseteq {c}
  BY DEF ResolveTarget, InTurn, ContextInv, Gathered, MeantKept
<1>2. /\ TypeOK /\ turn \in Turns /\ turn.context \in Contexts
      /\ turn.context.contract = None => turn.context.document = None /\ turn.context.vendor = None
      /\ turn.context.contract \in
           {context.contract} \cup turn.result.about \cup Named(turn.rewritten, Contracts)
      /\ turn.result.about \subseteq Known
  BY <1>1, OnTheWay
<1>3. named = None \/ named \in Named(turn.rewritten, Contracts)
  <2>1. named = None \/ named \in Named(turn.rewritten, Confirmed)
    BY TheIs
  <2> QED
    BY <2>1 DEF Named, Confirmed
<1>4. \A c \in Contracts : Meant(c) => named = c /\ c # None
  BY MeantNamed
<1>5. known \in Ref /\ Contracts \subseteq Ref
  BY <1>2, ContextIs DEF Ref
<1> HIDE DEF named, known
<1>6. CASE named # None /\ Goto("search", [target |-> named,
                                          context |-> Carry(turn.context, Whole(named))])
  <2> DEFINE new == Carry(turn.context, Whole(named))
  <2>1. named \in Contracts
    BY <1>3, <1>6 DEF Named
  <2>2. /\ new \in Contexts /\ new.contract = named
        /\ new.contract = None => new.document = None /\ new.vendor = None
    BY <1>2, <1>6, <2>1, WholeIs, CarryIs
  <2> HIDE DEF new
  <2>3. /\ pc' = "search" /\ UNCHANGED <<row, before, context, last, answer>>
        /\ turn' = Set([target |-> named, context |-> new])
    BY <1>6 DEF Goto, new
  <2>4. /\ turn' = [f \in Fields |-> turn'[f]]
        /\ turn'.target = named /\ turn'.context = new
        /\ turn'.question = turn.question /\ turn'.rewritten = turn.rewritten
        /\ turn'.result = turn.result /\ turn'.chunks = turn.chunks /\ turn'.argument = turn.argument
        /\ turn'.found = turn.found /\ turn'.aborted = turn.aborted
        /\ turn'.route = turn.route /\ turn'.kind = turn.kind /\ turn'.intent = turn.intent
        /\ turn'.provided = turn.provided /\ turn'.provider = turn.provider
    BY <1>2, <2>3, SetIs DEF Fields
  <2>5. turn' \in Turns
    BY <1>2, <1>5, <2>1, <2>2, <2>4, TurnIs, IsTurn
  <2>6. \A c \in Contracts : Meant(c)' => Meant(c)
    BY <1>1, <2>3, <2>4, StillMeant
  <2> QED
    BY <1>1, <1>2, <1>3, <1>4, <1>6, <2>2, <2>3, <2>4, <2>5, <2>6, NodeKeeps
<1>7. CASE named = None /\ Goto("search", [target |-> known])
  <2>3. /\ pc' = "search" /\ UNCHANGED <<row, before, context, last, answer>>
        /\ turn' = Set([target |-> known])
    BY <1>7 DEF Goto
  <2>4. /\ turn' = [f \in Fields |-> turn'[f]]
        /\ turn'.target = known /\ turn'.context = turn.context
        /\ turn'.question = turn.question /\ turn'.rewritten = turn.rewritten
        /\ turn'.result = turn.result /\ turn'.chunks = turn.chunks /\ turn'.argument = turn.argument
        /\ turn'.found = turn.found /\ turn'.aborted = turn.aborted
        /\ turn'.route = turn.route /\ turn'.kind = turn.kind /\ turn'.intent = turn.intent
        /\ turn'.provided = turn.provided /\ turn'.provider = turn.provider
    BY <1>2, <2>3, SetIs DEF Fields
  <2>5. turn' \in Turns
    BY <1>2, <1>5, <2>4, TurnIs, IsTurn
  <2>6. \A c \in Contracts : ~Meant(c)'
    BY <1>1, <1>4, <1>7, <2>3, <2>4, StillMeant
  <2> QED
    BY <1>1, <1>2, <2>3, <2>4, <2>5, <2>6, NodeKeeps
<1>8. CASE Goto("generate", [aborted |-> TRUE])
  <2>3. /\ pc' = "generate" /\ UNCHANGED <<row, before, context, last, answer>>
        /\ turn' = Set([aborted |-> TRUE])
    BY <1>8 DEF Goto
  <2>4. /\ turn' = [f \in Fields |-> turn'[f]]
        /\ turn'.target = turn.target /\ turn'.context = turn.context
        /\ turn'.question = turn.question /\ turn'.rewritten = turn.rewritten
        /\ turn'.result = turn.result /\ turn'.chunks = turn.chunks /\ turn'.argument = turn.argument
        /\ turn'.found = turn.found /\ turn'.aborted = TRUE
        /\ turn'.route = turn.route /\ turn'.kind = turn.kind /\ turn'.intent = turn.intent
        /\ turn'.provided = turn.provided /\ turn'.provider = turn.provider
    BY <1>2, <2>3, SetIs DEF Fields
  <2>5. turn' \in Turns
    BY <1>2, <2>4, TurnIs, IsTurn
  <2>6. \A c \in Contracts : Meant(c)' => Meant(c)
    BY <1>1, <2>3, <2>4, StillMeant
  <2> QED
    BY <1>1, <1>2, <2>3, <2>4, <2>5, <2>6, NodeKeeps
<1> QED
  BY <1>6, <1>7, <1>8 DEF ResolveTarget, named, known

LEMMA SearchKeeps == ASSUME ContextInv, Search PROVE ContextInv'
<1>1. /\ pc = "search" /\ InTurn /\ turn.chunks = {} /\ turn.route # "GENERAL"
      /\ turn.result.about # {} =>
           /\ turn.result.status = "SUCCESS"
           /\ turn.intent \notin {"FINANCE_SUMMARY", "EXPENSE_SIMULATION"}
      /\ \A c \in Contracts : Meant(c) => turn.result.about \subseteq {c} /\ turn.target = c
  BY DEF Search, InTurn, ContextInv, Gathered, MeantKept
<1>2. /\ TypeOK /\ Advance /\ turn \in Turns /\ turn.context \in Contexts
      /\ turn.context.contract = None => turn.context.document = None /\ turn.context.vendor = None
      /\ turn.context.contract \in
           {context.contract} \cup turn.result.about \cup Named(turn.rewritten, Contracts)
      /\ turn.result.about \subseteq Known /\ Confirmed \subseteq Known /\ Known \subseteq Contracts
  BY <1>1, OnTheWay, KnownIs
<1>3. ASSUME NEW target \in Ref, NEW S \in SUBSET Scope(turn.target), NEW found \in BOOLEAN,
             NEW new \in Contexts, new.contract \in {turn.context.contract} \cup S,
             new.contract = None => new.document = None /\ new.vendor = None,
             pc' = "generate", UNCHANGED <<row, before, context, last, answer>>,
             turn' = [f \in Fields |-> turn'[f]],
             turn'.target = target, turn'.chunks = S, turn'.found = found, turn'.context = new,
             turn'.question = turn.question, turn'.rewritten = turn.rewritten,
             turn'.result = turn.result, turn'.argument = turn.argument,
             turn'.aborted = turn.aborted, turn'.route = turn.route, turn'.kind = turn.kind,
             turn'.intent = turn.intent, turn'.provided = turn.provided,
             turn'.provider = turn.provider
      PROVE  ContextInv'
  <2>1. S \subseteq Known /\ S \subseteq Contracts
    BY <1>2 DEF Scope
  <2>2. turn' \in Turns
    BY <1>2, <1>3, <2>1, TurnIs, IsTurn
  <2>3. \A c \in Contracts : Meant(c)' => Meant(c)
    BY <1>1, <1>3, StillMeant
  <2>4. \A c \in Contracts : Meant(c) => S \subseteq {c}
    BY <1>1, NoneIs DEF Scope
  <2> QED
    BY <1>1, <1>2, <1>3, <2>1, <2>2, <2>3, <2>4, NodeKeeps
<1>4. None \in Ref /\ turn.found \in BOOLEAN /\ turn.target \in Ref
  BY <1>2, TurnIs DEF Ref
<1>5. CASE Goto("generate", [target |-> None])
  <2>1. /\ pc' = "generate" /\ UNCHANGED <<row, before, context, last, answer>>
        /\ turn' = Set([target |-> None])
    BY <1>5 DEF Goto
  <2>2. /\ turn' = [f \in Fields |-> turn'[f]]
        /\ turn'.target = None /\ turn'.context = turn.context
        /\ turn'.question = turn.question /\ turn'.rewritten = turn.rewritten
        /\ turn'.result = turn.result /\ turn'.chunks = {} /\ turn'.argument = turn.argument
        /\ turn'.found = turn.found /\ turn'.aborted = turn.aborted
        /\ turn'.route = turn.route /\ turn'.kind = turn.kind /\ turn'.intent = turn.intent
        /\ turn'.provided = turn.provided /\ turn'.provider = turn.provider
    BY <1>1, <1>2, <2>1, SetIs DEF Fields
  <2> QED
    BY <1>2, <1>3, <1>4, <2>1, <2>2
<1>6. CASE \E S \in SUBSET Scope(turn.target) \ {{}} : \E first \in S :
             /\ Cardinality(S) <= 3
             /\ Goto("generate", [chunks |-> S, found |-> TRUE, target |-> None,
                                  context |-> Carry(turn.context, Whole(first))])
  <2>1. PICK S \in SUBSET Scope(turn.target) \ {{}} : \E first \in S :
             Goto("generate", [chunks |-> S, found |-> TRUE, target |-> None,
                               context |-> Carry(turn.context, Whole(first))])
    BY <1>6
  <2>2. PICK first \in S :
             Goto("generate", [chunks |-> S, found |-> TRUE, target |-> None,
                               context |-> Carry(turn.context, Whole(first))])
    BY <2>1
  <2> DEFINE new == Carry(turn.context, Whole(first))
  <2>3. first \in Contracts
    BY <1>2 DEF Scope
  <2>4. /\ new \in Contexts /\ new.contract = first
        /\ new.contract = None => new.document = None /\ new.vendor = None
    <3> DEFINE subject == Whole(first)
    <3>1. subject \in Subjects /\ subject.contract = first /\ first # None
      BY <2>3, WholeIs, NoneIs
    <3> HIDE DEF subject
    <3>2. LET x == Carry(turn.context, subject) IN
          /\ x \in Contexts /\ x.contract = first
          /\ x.contract = None => x.document = None /\ x.vendor = None
      BY <1>2, <3>1, CarryIs
    <3> QED
      BY <3>2 DEF subject
  <2> HIDE DEF new
  <2>5. /\ pc' = "generate" /\ UNCHANGED <<row, before, context, last, answer>>
        /\ turn' = Set([chunks |-> S, found |-> TRUE, target |-> None, context |-> new])
    BY <2>2 DEF Goto, new
  <2>6. /\ turn' = [f \in Fields |-> turn'[f]]
        /\ turn'.target = None /\ turn'.context = new
        /\ turn'.question = turn.question /\ turn'.rewritten = turn.rewritten
        /\ turn'.result = turn.result /\ turn'.chunks = S /\ turn'.argument = turn.argument
        /\ turn'.found = TRUE /\ turn'.aborted = turn.aborted
        /\ turn'.route = turn.route /\ turn'.kind = turn.kind /\ turn'.intent = turn.intent
        /\ turn'.provided = turn.provided /\ turn'.provider = turn.provider
    BY <1>2, <2>5, SetIs DEF Fields
  <2> QED
    BY <1>3, <1>4, <2>4, <2>5, <2>6
<1>7. CASE Goto("generate", [found |-> TRUE])
  <2>1. /\ pc' = "generate" /\ UNCHANGED <<row, before, context, last, answer>>
        /\ turn' = Set([found |-> TRUE])
    BY <1>7 DEF Goto
  <2>2. /\ turn' = [f \in Fields |-> turn'[f]]
        /\ turn'.target = turn.target /\ turn'.context = turn.context
        /\ turn'.question = turn.question /\ turn'.rewritten = turn.rewritten
        /\ turn'.result = turn.result /\ turn'.chunks = {} /\ turn'.argument = turn.argument
        /\ turn'.found = TRUE /\ turn'.aborted = turn.aborted
        /\ turn'.route = turn.route /\ turn'.kind = turn.kind /\ turn'.intent = turn.intent
        /\ turn'.provided = turn.provided /\ turn'.provider = turn.provider
    BY <1>1, <1>2, <2>1, SetIs DEF Fields
  <2> QED
    BY <1>2, <1>3, <1>4, <2>1, <2>2
<1> QED
  BY <1>5, <1>6, <1>7 DEF Search

LEMMA FailsKeeps == ASSUME ContextInv, ResolutionFails PROVE ContextInv'
<1>1. InTurn /\ End("lost")
  BY DEF ResolutionFails, InTurn
<1> QED
  BY <1>1, EndKeeps

LEMMA AnswerFields ==
  ASSUME NEW d \in Answers
  PROVE  /\ d = [f \in {"type", "about", "cited", "calculation"} |-> d[f]]
         /\ d.type \in {None, "GENERAL", "NOT_FOUND", "CALCULATION", "CONTRACT", "RAG", "MIXED"}
         /\ d.about \subseteq Contracts /\ d.cited \subseteq Contracts
         /\ d.calculation \in Calculations
BY DEF Answers

\* An answer that neither tells nor cites anything.
LEMMA SilentIs ==
  ASSUME NEW type \in {"GENERAL", "NOT_FOUND", "CALCULATION"}, NEW calculation \in Calculations
  PROVE  LET a == [[NoAnswer EXCEPT !.type = type] EXCEPT !.calculation = calculation] IN
         a \in Answers /\ a.about = {} /\ a.cited = {}
BY DEF NoAnswer, Answers

LEMMA NoAnswerIs ==
  /\ NoAnswer \in Answers /\ NoAnswer.about = {} /\ NoAnswer.cited = {}
  /\ NoAnswer.calculation = None
BY DEF NoAnswer, Answers, Calculations

LEMMA FollowUpIs == FollowUp \in Answers /\ FollowUp.about = {} /\ FollowUp.cited = {}
BY DEF FollowUp, NoAnswer, Answers, Calculations

\* The words a tool's result is told in tell of what it is about.
LEMMA DraftIs ==
  ASSUME TypeOK, turn.result.about # {} =>
           /\ turn.result.status = "SUCCESS"
           /\ turn.intent \notin {"FINANCE_SUMMARY", "EXPENSE_SIMULATION"},
         NEW d \in Drafts
  PROVE  d \in Answers /\ d.about = turn.result.about
<1> DEFINE r == turn.result
           none == [NoAnswer EXCEPT !.type = "NOT_FOUND"]
<1>1. r.about \subseteq Contracts
  BY TurnIs DEF TypeOK, Results
<1>2. none \in Answers /\ none.about = {}
  BY DEF NoAnswer, Answers, Calculations
<1>3. CASE r.status # "SUCCESS" \/ (turn.intent = "USER_CONTRACT_LOOKUP" /\ r.about = {})
  BY <1>2, <1>3 DEF Drafts
<1>4. CASE /\ r.status = "SUCCESS" /\ ~(turn.intent = "USER_CONTRACT_LOOKUP" /\ r.about = {})
           /\ turn.intent = "FINANCE_SUMMARY"
  BY <1>4 DEF Drafts, NoAnswer, Answers, Calculations
<1>5. CASE /\ r.status = "SUCCESS" /\ ~(turn.intent = "USER_CONTRACT_LOOKUP" /\ r.about = {})
           /\ turn.intent = "EXPENSE_SIMULATION"
  BY <1>5 DEF Drafts, NoAnswer, Answers, Calculations
<1>6. CASE /\ r.status = "SUCCESS" /\ ~(turn.intent = "USER_CONTRACT_LOOKUP" /\ r.about = {})
           /\ turn.intent \notin {"FINANCE_SUMMARY", "EXPENSE_SIMULATION"}
  <2>1. \E t \in {"CONTRACT", "NOT_FOUND"} : d = [none EXCEPT !.type = t, !.about = r.about]
    BY <1>6 DEF Drafts
  <2> QED
    BY <1>1, <2>1 DEF NoAnswer, Answers, Calculations
<1> QED
  BY <1>3, <1>4, <1>5, <1>6

\* An answer tells of what the tool found and cites what the search found.
LEMMA ResponsesIs ==
  ASSUME ContextInv, pc = "generate", NEW a \in Responses
  PROVE  a \in Answers /\ a.about = turn.result.about /\ a.cited = turn.chunks
<1>1. /\ turn.chunks \subseteq Contracts /\ TypeOK
      /\ turn.result.about # {} =>
           /\ turn.result.status = "SUCCESS" /\ turn.route # "GENERAL"
           /\ turn.intent \notin {"FINANCE_SUMMARY", "EXPENSE_SIMULATION"}
      /\ turn.chunks # {} => turn.route # "GENERAL"
  <2>1. InTurn
    BY DEF InTurn
  <2> QED
    BY <2>1, OnTheWay DEF ContextInv, Gathered
<1>2. CASE turn.route = "GENERAL"
  <2>1. turn.result.about = {} /\ turn.chunks = {}
    BY <1>1, <1>2
  <2>2. a \in {[NoAnswer EXCEPT !.type = "GENERAL"], [NoAnswer EXCEPT !.type = "NOT_FOUND"],
               FollowUp}
    BY <1>2 DEF Responses
  <2>3. \A b \in {[NoAnswer EXCEPT !.type = "GENERAL"], [NoAnswer EXCEPT !.type = "NOT_FOUND"]} :
          b \in Answers /\ b.about = {} /\ b.cited = {}
    BY DEF NoAnswer, Answers, Calculations
  <2> QED
    BY <2>1, <2>2, <2>3, FollowUpIs
<1>3. CASE turn.route # "GENERAL" /\ turn.result.status = None
  <2>1. turn.result.about = {}
    BY <1>1, <1>3, NoneIs
  <2>2. PICK type \in {"RAG", "NOT_FOUND"} :
             a = [NoAnswer EXCEPT !.type = type, !.cited = turn.chunks]
    BY <1>3 DEF Responses
  <2> QED
    BY <1>1, <2>1, <2>2 DEF NoAnswer, Answers, Calculations
<1>4. CASE turn.route # "GENERAL" /\ turn.result.status # None
  <2>1. PICK d \in Drafts :
             a = [d EXCEPT !.type = IF turn.found THEN "MIXED" ELSE @, !.cited = turn.chunks]
    BY <1>4 DEF Responses
  <2>2. d \in Answers /\ d.about = turn.result.about
    BY <1>1, DraftIs
  <2> HIDE DEF Drafts
  <2>3. /\ a = [f \in {"type", "about", "cited", "calculation"} |-> a[f]]
        /\ a.type \in {d.type, "MIXED"} /\ a.about = d.about /\ a.cited = turn.chunks
        /\ a.calculation = d.calculation
    BY <2>1, <2>2, AnswerFields
  <2> QED
    BY <1>1, <2>2, <2>3, AnswerFields DEF Answers
<1> QED
  BY <1>2, <1>3, <1>4

LEMMA GenerateKeeps == ASSUME ContextInv, Generate PROVE ContextInv'
<1>1. pc = "generate" /\ InTurn
  BY DEF Generate, InTurn
<1>2. CASE /\ answer' \in Responses /\ pc' = "complete"
           /\ UNCHANGED <<row, before, context, last, turn>>
  <2>1. answer' \in Answers /\ answer'.about = turn.result.about /\ answer'.cited = turn.chunks
    BY <1>1, <1>2, ResponsesIs
  <2>2. TypeOK' /\ Advance'
    BY <1>2, <2>1 DEF ContextInv, TypeOK, Advance
  <2>3. Gathered'
    BY <1>1, <1>2, <2>1 DEF ContextInv, Gathered, InTurn, Answered, Known, Named
  <2>4. \A c \in Contracts : Meant(c)' => Meant(c)
    BY <1>1, <1>2, StillMeant
  <2>5. MeantKept'
    BY <1>2, <2>4 DEF ContextInv, MeantKept
  <2> QED
    BY <1>2, <2>2, <2>3, <2>5 DEF ContextInv
<1>3. CASE End("refused")
  BY <1>1, <1>3, EndKeeps
<1> QED
  BY <1>2, <1>3 DEF Generate

LEMMA WordingIs ==
  ASSUME TypeOK
  PROVE  Wording \in Texts /\ [Wording EXCEPT !.names = {}] \in Texts
<1>1. answer.about \cup answer.cited \subseteq Contracts
  BY AnswerFields DEF TypeOK
<1> DEFINE words == (IF answer.calculation # None THEN {"left"} ELSE {"contract"})
                      \cup (IF answer.cited # {} THEN {"clause"} ELSE {})
                      \cup (IF turn.intent = "CONTRACT_DEPOSIT" THEN {"deposit"} ELSE {})
           names == {Company[c] : c \in answer.about \cup answer.cited}
           amounts == IF answer.calculation # None \/ answer.about # {} THEN 2 ELSE 0
<1>2. words \subseteq Words /\ names \subseteq Companies /\ amounts \in Nat
  BY <1>1 DEF Words, Companies
<1>3. Wording = [words |-> words, names |-> names, amounts |-> amounts]
  BY DEF Wording
<1> HIDE DEF words, names, amounts
<1> QED
  BY <1>2, <1>3 DEF Texts

LEMMA CompleteKeeps == ASSUME ContextInv, Complete PROVE ContextInv'
<1>1. InTurn /\ TypeOK /\ turn \in Turns /\ answer \in Answers
  BY DEF Complete, InTurn, ContextInv, TypeOK
<1>2. CASE /\ pc' = "idle" /\ before' = NoRows /\ answer' = NoAnswer /\ UNCHANGED row
           /\ turn' = TurnAbout(None, None)
           /\ context' = (IF ContextData = NoContext THEN context ELSE ContextData)
           /\ last' \in {turn.question, Wording, [Wording EXCEPT !.names = {}]}
  <2>1. /\ ContextData \in Contexts
        /\ ContextData.contract = turn.context.contract
        /\ ContextData.contract = None => ContextData.document = None /\ ContextData.vendor = None
    BY <1>1, OnTheWay, AnswerFields DEF ContextData, Contexts
  <2>2. /\ context' \in Contexts
        /\ context'.contract = None => context'.document = None /\ context'.vendor = None
    BY <1>2, <2>1 DEF ContextInv, TypeOK
  <2>3. last' \in Texts
    BY <1>1, <1>2, OnTheWay, WordingIs
  <2>4. turn' \in Turns /\ turn'.context = NoContext
    BY <1>1, <1>2, TurnAboutIs
  <2>5. before' \in [Contracts -> {"none", "confirmed", "deleted"}]
    BY <1>2 DEF NoRows
  <2>6. TypeOK'
    BY <1>1, <1>2, <2>2, <2>3, <2>4, <2>5, NoAnswerIs DEF TypeOK
  <2>7. Advance' /\ ~InTurn'
    BY <1>2 DEF Advance, NoRows, InTurn
  <2>8. Gathered' /\ MeantKept'
    BY <2>7 DEF Gathered, MeantKept, Meant
  <2> QED
    BY <2>2, <2>4, <2>6, <2>7, <2>8 DEF ContextInv, NoContext
<1>3. CASE End("lost")
  BY <1>1, <1>3, EndKeeps
<1> QED
  BY <1>2, <1>3 DEF Complete

LEMMA StutterKeeps == ASSUME ContextInv, UNCHANGED vars PROVE ContextInv'
<1>1. UNCHANGED <<row, before, context, last, pc, turn, answer>>
  BY DEF vars
<1>2. TypeOK' /\ Advance'
  BY <1>1 DEF ContextInv, TypeOK, Advance
<1>3. Gathered'
  BY <1>1 DEF ContextInv, Gathered, InTurn, Answered, Known, Named
<1>4. MeantKept'
  BY <1>1 DEF ContextInv, MeantKept, Meant, InTurn, Throughout, Confirmed, Known, Named
<1> QED
  BY <1>1, <1>2, <1>3, <1>4 DEF ContextInv

LEMMA NextKeeps == ASSUME ContextInv, [Next]_vars PROVE ContextInv'
BY RowKeeps, AskKeeps, ClassifyKeeps, ExplicitKeeps, FallbackKeeps, FailsKeeps, ToolKeeps,
   TargetKeeps, SearchKeeps, GenerateKeeps, CompleteKeeps, StutterKeeps DEF Next, Step

LEMMA InitKeeps == ASSUME Init PROVE ContextInv
<1>1. /\ row \in [Contracts -> {"none", "confirmed", "deleted"}] /\ context \in Contexts
      /\ NoResult \in Results /\ None \in Ref
  BY DEF Init, NoRows, NoContext, Contexts, Calculations, NoResult, Results, NoSubject,
         Subjects, Ref
<1>2. turn \in Turns /\ turn.context = NoContext
  BY <1>1 DEF Init, TurnAbout, Turns
<1>3. TypeOK
  BY <1>1, <1>2, NoAnswerIs DEF Init, TypeOK
<1>4. Advance /\ ~InTurn
  BY DEF Init, Advance, NoRows, InTurn
<1>5. Gathered /\ MeantKept
  BY <1>4 DEF Gathered, MeantKept, Meant
<1> QED
  BY <1>2, <1>3, <1>4, <1>5 DEF Init, ContextInv, NoContext

----------------------------------------------------------------------------
(* Theorems *)

\* What a turn gathers, from its question through the tool and the search to
\* its answer, is of contracts that were there while it ran, and of the one
\* that the question names; contexts are of one piece.
THEOREM ContextInvariant == Spec => []ContextInv
<1>1. Init => ContextInv
  BY InitKeeps
<1>2. ContextInv /\ [Next]_vars => ContextInv'
  BY NextKeeps
<1> QED
  BY <1>1, <1>2, PTL DEF Spec

\* Nothing brings a contract back that was deleted before the question: the
\* context may name it, and so may a model's arguments, but the tools and the
\* search read what is committed, and of what they do not find nothing is told.
THEOREM NoGhostHolds == Spec => []NoGhost
<1>1. ContextInv => NoGhost
  BY DEF ContextInv, Gathered, NoGhost, Answered, InTurn, Told
<1> QED
  BY <1>1, ContextInvariant, PTL

\* The contract a question names by its company is preferred, by the tool's
\* resolvers and by the search alike, to the one the conversation was about,
\* whatever the question's other words are, as long as rewriting leaves it
\* the one name.
THEOREM NamedContractOnlyHolds == Spec => []NamedContractOnly
<1>1. ASSUME ContextInv, NEW c \in Throughout, Answered, Named(turn.question, Known) = {c},
             turn.rewritten.names = turn.question.names,
             turn.intent # "USER_CONTRACT_LOOKUP", ~turn.provided
      PROVE  Told \subseteq {c}
  <2>1. Named(turn.rewritten, Known) = {c}
    BY <1>1 DEF Named
  <2>2. c \in Contracts /\ Meant(c)
    BY <1>1, <2>1 DEF Meant, Answered, InTurn, Throughout, Confirmed
  <2> QED
    BY <1>1, <2>2 DEF ContextInv, MeantKept, Gathered, Answered, InTurn, Told
<1>2. ContextInv => NamedContractOnly
  BY <1>1 DEF NamedContractOnly, Names
<1> QED
  BY <1>2, ContextInvariant, PTL

\* A question that refers to the contract of the conversation is rewritten to
\* name its company, and is then answered as one that names it; but for the
\* lookup, which takes the reference itself.
THEOREM ReferenceKeptHolds == Spec => []ReferenceKept
<1>1. ASSUME ContextInv, NEW c \in Throughout, RefersTo(c), context.vendor = Company[c],
             \A d \in Known : Company[d] = Company[c] => d = c
      PROVE  Told \subseteq {c}
  <2>1. /\ c \in Contracts /\ c \in Known /\ Company[c] # None /\ Answered /\ InTurn
        /\ ~(context.calculation # None /\ Has(turn.question, FollowUpMarkers))
        /\ HasContractReference(turn.question)
        /\ turn.question.names = {}
    BY <1>1, KnownIs, CompanyIs
       DEF ContextInv, RefersTo, Answered, InTurn, Throughout, Confirmed, HasContractReference
  <2>2. turn.rewritten.names = {Company[c]}
    BY <1>1, <2>1 DEF ContextInv, Gathered, RewriteQuestion
  <2>3. Named(turn.rewritten, Known) = {c}
    BY <1>1, <2>1, <2>2 DEF Named
  <2>4. Meant(c)
    BY <1>1, <2>1, <2>3 DEF Meant, RefersTo
  <2> QED
    BY <1>1, <2>1, <2>4 DEF ContextInv, MeantKept, Gathered, Told
<1>2. ContextInv => ReferenceKept
  BY <1>1 DEF ReferenceKept
<1> QED
  BY <1>2, ContextInvariant, PTL

\* The context of a conversation changes only with a stored answer, to a
\* contract that answer told of or that the question, as rewritten, names.
THEOREM ContextMovesHolds == Spec => ContextMoves
<1> DEFINE Moved == context'.contract # context.contract =>
                      context'.contract \in Told \cup Named(turn.rewritten, Contracts)
<1>1. ASSUME ContextInv, [Next]_vars PROVE Moved
  <2>1. CASE UNCHANGED context
    BY <2>1
  <2>2. CASE Complete /\ ~UNCHANGED context
    <3>1. context' = ContextData /\ Answered /\ InTurn
      BY <2>2 DEF Complete, End, Answered, InTurn
    <3>2. turn.context \in Contexts /\ turn.context.contract \in
            {context.contract} \cup turn.result.about \cup turn.chunks
              \cup Named(turn.rewritten, Contracts)
      BY <1>1, <3>1, OnTheWay
    <3>3. ContextData.contract = turn.context.contract
      BY <3>2 DEF ContextData, Contexts
    <3>4. Told = turn.result.about \cup turn.chunks
      BY <1>1, <3>1 DEF ContextInv, Gathered, Told
    <3> QED
      BY <3>1, <3>2, <3>3, <3>4
  <2>3. UNCHANGED context \/ Complete
    BY <1>1 DEF Next, Step, vars, Confirm, Delete, Ask, Classify, ResolveExplicit,
       ResolveFallback, ResolutionFails, CallTool, ResolveTarget, Search, Generate, Goto, End,
       Decide
  <2> QED
    BY <2>1, <2>2, <2>3
<1>2. ContextInv /\ [Next]_vars => [Moved]_vars
  BY <1>1
<1> QED
  BY <1>2, ContextInvariant, PTL DEF Spec, ContextMoves

=============================================================================
