------------------------- MODULE ChatOrchestration -------------------------
(***************************************************************************)
(* How a turn of the chat finds its answer: application/chat_orchestration *)
(* with the tools of domains/chat/tools.py.  The turns of one conversation *)
(* follow each other; ChatTurn has what overlapping turns do.  Meanwhile   *)
(* other requests confirm and delete contracts: the turn runs at READ      *)
(* COMMITTED and every statement sees what is committed when it begins.    *)
(*                                                                         *)
(* A contract stands for its document too, its company is Company of it.   *)
(* Left out: dates, amounts and texts of what is found (a search or a tool *)
(* may find any part of its scope), arguments a tool refuses, the several  *)
(* statements of one search, other plans, and the window of the history,   *)
(* which ChatTurn has.  GENERAL_CHAT stands for every intent without tool. *)
(***************************************************************************)
EXTENDS QuestionRouting, FiniteSets

CONSTANTS
  Contracts,     \* contract identifiers, fresh uuids
  Company,       \* contract -> the company's name
  Questions      \* the texts a user may send

Companies == {Company[c] : c \in Contracts}
Texts == [words: SUBSET Words, names: SUBSET Companies, amounts: Nat]

ASSUME OrchestrationAssumption ==
  /\ Questions \subseteq Texts
  /\ None \notin Questions
  /\ None \notin Contracts \cup Companies \cup {"SUCCESS"}

VARIABLES
  row,      \* contract -> whether it is confirmed
  before,   \* row when the turn began
  context,  \* what the conversation's last answers left in context_data
  last,     \* the newest message of the history
  pc,       \* the node of the graph the turn is in
  turn,     \* ChatState: what the nodes have found so far
  answer    \* the response

vars == <<row, before, context, last, pc, turn, answer>>

Ref == Contracts \cup {None}
Calculations == {None, "expense", "followed", "summary"}
Contexts == [contract: Ref, document: Ref, vendor: Companies \cup {None},
             calculation: Calculations]
NoContext == [contract |-> None, document |-> None, vendor |-> None,
              calculation |-> None]

NoRows == [c \in Contracts |-> "none"]
Confirmed == {c \in Contracts : row[c] = "confirmed"}
Named(text, S) == {c \in S : Company[c] \in text.names}
The(S) == IF Cardinality(S) = 1 THEN CHOOSE c \in S : TRUE ELSE None

\* about: contracts the data of a result or an answer tells of; subject: the
\* id, document and company _context_from_tool_result finds in the data.
NoSubject == [contract |-> None, document |-> None, vendor |-> None]
Whole(c)  == [contract |-> c, document |-> c, vendor |-> Company[c]]
NoResult  == [status |-> None, about |-> {}, subject |-> NoSubject]
Failure(status) == [NoResult EXCEPT !.status = status]

\* provided: the contract argument is the provider's; found: knowledge that
\* belongs to no contract was found; aborted: the transaction is.
TurnAbout(question, rewritten) ==
  [question |-> question, rewritten |-> rewritten,
   route |-> None, kind |-> None, intent |-> "UNKNOWN", argument |-> None,
   provided |-> FALSE, provider |-> FALSE, result |-> NoResult,
   target |-> None, chunks |-> {}, found |-> FALSE,
   context |-> IF question = None THEN NoContext ELSE context,
   aborted |-> FALSE]

NoAnswer == [type |-> None, about |-> {}, cited |-> {}, calculation |-> None]

Init ==
  /\ row = NoRows
  /\ before = row
  /\ context = NoContext
  /\ last = None
  /\ pc = "idle"
  /\ turn = TurnAbout(None, None)
  /\ answer = NoAnswer

----------------------------------------------------------------------------
(* Other requests *)

Confirm(c) ==
  /\ row[c] = "none"
  /\ row' = [row EXCEPT ![c] = "confirmed"]
  /\ UNCHANGED <<before, context, last, pc, turn, answer>>

Delete(c) ==
  /\ row[c] = "confirmed"
  /\ row' = [row EXCEPT ![c] = "deleted"]
  /\ UNCHANGED <<before, context, last, pc, turn, answer>>

----------------------------------------------------------------------------
(* The turn *)

Set(fields) == [f \in DOMAIN turn |-> IF f \in DOMAIN fields THEN fields[f] ELSE turn[f]]

Goto(node, fields) ==
  /\ pc' = node
  /\ turn' = Set(fields)
  /\ UNCHANGED <<row, before, context, last, answer>>

\* The turn ends without an answer and is rolled back.
End(how) ==
  /\ pc' = how
  /\ before' = NoRows
  /\ turn' = [TurnAbout(None, None) EXCEPT !.result = turn.result]
  /\ answer' = NoAnswer
  /\ UNCHANGED <<row, context, last>>

\* begin_turn and the node prepare.
Ask(q) ==
  /\ pc \in {"idle", "lost", "refused"}
  /\ pc' = "classify"
  /\ turn' = TurnAbout(q, RewriteQuestion(q, last, context.vendor,
                                          context.calculation))
  /\ before' = row
  /\ answer' = NoAnswer
  /\ UNCHANGED <<row, context, last>>

Node(route) == CASE route = "GENERAL" -> "generate"
                 [] route = "RAG"     -> "target"
                 [] OTHER             -> "arguments"

\* What the classification of the question itself decides.
DecidedRoute ==
  [GENERAL_CHAT         |-> <<"GENERAL", None>>,
   FOLLOW_UP            |-> <<"GENERAL", None>>,
   NEEDS_CLARIFICATION  |-> <<"GENERAL", None>>,
   USER_CONTRACT_LOOKUP |-> <<"TOOL", None>>,
   CONTRACT_CLAUSE_QA   |-> <<"RAG", "CONTRACT_CLAUSE">>,
   SERVICE_FAQ          |-> <<"RAG", "SERVICE_FAQ">>,
   DOMAIN_KNOWLEDGE     |-> <<"RAG", "DOMAIN_KNOWLEDGE">>]

ToolIntents == {"USER_CONTRACT_LOOKUP", "CONTRACT", "CONTRACT_DEPOSIT",
                "CONTRACT_PAYMENT", "SCHEDULE", "FINANCE_SUMMARY",
                "EXPENSE_SIMULATION"}
ContractIntents == {"CONTRACT", "CONTRACT_DEPOSIT", "CONTRACT_PAYMENT", "SCHEDULE"}

\* Whether there is a language model and whether rules may stand in for it
\* are settings (ai_model, enable_demo_fallback): a turn may be of any
\* installation.  provider is that its words may be asked for; whatever is
\* possible without them stays possible.

\* classify_intent of the provider: any decision its schema admits, the id
\* of a contract among its arguments where the intent takes one.
ProviderDecisions ==
  {<<i, None>> : i \in ToolIntents \cup {"UNKNOWN", "GENERAL_CHAT"}}
    \cup (ContractIntents \X Contracts)

\* _classify_intent without an answer of the provider.
RuleDecision(text) == <<ClassifyMessage(text), None>>

Decide(route, kind, decision, provider) ==
  LET final == IF decision[1] = "UNKNOWN" /\ route = "TOOL" THEN "GENERAL" ELSE route
  IN  Goto(Node(final), [route |-> final, kind |-> kind, intent |-> decision[1],
                         argument |-> decision[2], provided |-> decision[2] # None,
                         provider |-> provider])

Classify ==
  LET own   == ClassifyMessage(turn.question)
      route == ClassifyRagRoute(turn.rewritten)
  IN  /\ pc = "classify"
      /\ IF own \in DOMAIN DecidedRoute
         THEN LET r == DecidedRoute[own] IN
              Decide(r[1], r[2], <<own, None>>, r[1] = "RAG")
         ELSE IF route[1] \notin {"TOOL", "MIXED"}
         THEN Decide(route[1], route[2], <<"UNKNOWN", None>>, route[1] = "RAG")
         ELSE IF LooksLikeExpenseSimulation(turn.rewritten)
         THEN Decide(route[1], route[2], RuleDecision(turn.rewritten), FALSE)
         ELSE \/ \E d \in ProviderDecisions : Decide(route[1], route[2], d, TRUE)
              \/ Decide(route[1], route[2], RuleDecision(turn.rewritten), FALSE)
              \/ End("refused")

\* Mutant definitions are slips this code could have had; no behaviour uses
\* them, each stands for the definition below it to show a property notices.
Mutant_ReferenceFirst ==
  LET refers == context.contract # None
      named  == The(Named(turn.rewritten, Confirmed))
  IN  /\ pc = "arguments"
      /\ IF turn.intent = "USER_CONTRACT_LOOKUP"
         THEN Goto("tool", [argument |-> IF refers THEN context.contract ELSE None])
         ELSE IF turn.intent \notin ContractIntents \/ turn.argument # None
         THEN Goto("tool", [argument |-> turn.argument])
         ELSE IF refers THEN Goto("tool", [argument |-> context.contract])
         ELSE IF named # None THEN Goto("tool", [argument |-> named])
         ELSE Goto("fallback", [argument |-> None])

\* _execute_tool: the contract a question is about, first the one its text
\* names, then the one it refers to, each only where one is to be resolved.
ResolveExplicit ==
  LET refers == HasContractReference(turn.question) /\ context.contract # None
      named  == The(Named(turn.rewritten, Confirmed))
  IN  /\ pc = "arguments"
      /\ IF turn.intent = "USER_CONTRACT_LOOKUP"
         THEN Goto("tool", [argument |-> IF refers THEN context.contract ELSE None])
         ELSE IF turn.intent \notin ContractIntents \/ turn.argument # None
         THEN Goto("tool", [argument |-> turn.argument])
         ELSE IF named # None THEN Goto("tool", [argument |-> named])
         ELSE IF refers THEN Goto("tool", [argument |-> context.contract])
         ELSE Goto("fallback", [argument |-> None])

\* resolve_contract_id reads again; without a name the only contract is meant.
ResolveFallback ==
  LET matching == Named(turn.rewritten, Confirmed)
  IN  /\ pc = "fallback"
      /\ Goto("tool", [argument |-> The(IF matching # {} THEN matching ELSE Confirmed)])

\* Either resolver's read may fail; nothing catches it here.
ResolutionFails ==
  /\ pc \in {"arguments", "fallback"}
  /\ turn.intent \in ContractIntents
  /\ End("lost")

\* ChatToolRegistry.execute: the results a tool may have for a contract or,
\* with None, for all of them, as far as the data are determined.
ContractLists(S) ==
  {[status |-> "SUCCESS", about |-> S,
    subject |-> IF The(S) = None THEN NoSubject ELSE Whole(The(S))]}

Mutant_AnyContract(c, subjects) ==
  IF c = None THEN {Failure("INVALID_ARGUMENT")}
  ELSE {[status |-> "SUCCESS", about |-> {c}, subject |-> s] : s \in subjects}

OneContract(c, subjects) ==
  IF c = None THEN {Failure("INVALID_ARGUMENT")}
  ELSE IF c \notin Confirmed THEN {Failure("NOT_FOUND")}
  ELSE {[status |-> "SUCCESS", about |-> {c}, subject |-> s] : s \in subjects}

Mutant_CompanyOfPayment(scope) ==
  {[status |-> "SUCCESS", about |-> S,
    subject |-> IF The(S) = None THEN NoSubject
                ELSE [NoSubject EXCEPT !.vendor = Company[The(S)]]] :
       S \in SUBSET scope \ {{}}}

\* A list of payments names a contract only when it has a single payment.
PaymentLists(scope) ==
  {Failure("NOT_FOUND")} \cup
  UNION {{[status |-> "SUCCESS", about |-> S,
           subject |-> [NoSubject EXCEPT !.contract = c]] : c \in {None, The(S)}} :
             S \in SUBSET scope \ {{}}}

Scope(c) == IF c = None THEN Confirmed ELSE Confirmed \cap {c}

ToolResults(intent, c) ==
  CASE intent = "USER_CONTRACT_LOOKUP" ->
         UNION {ContractLists(S) : S \in IF c # None THEN {Scope(c)} ELSE SUBSET Confirmed}
    [] intent = "CONTRACT" -> OneContract(c, {Whole(c)})
    [] intent = "CONTRACT_DEPOSIT" ->
         OneContract(c, {[Whole(c) EXCEPT !.document = None]})
           \cup (IF c \in Confirmed THEN {Failure("INSUFFICIENT_DATA")} ELSE {})
    [] intent \in {"CONTRACT_PAYMENT", "SCHEDULE"} -> PaymentLists(Scope(c))
    [] intent \in {"FINANCE_SUMMARY", "EXPENSE_SIMULATION"} ->
         {[NoResult EXCEPT !.status = "SUCCESS"]}
    [] OTHER -> {NoResult}

\* _context_from_tool_result: what the data name replaces what was there.
Carry(old, subject) ==
  [f \in DOMAIN old |->
     IF f \in DOMAIN subject /\ subject[f] # None THEN subject[f] ELSE old[f]]

AfterTool == IF turn.route = "MIXED" THEN "target" ELSE "generate"

Mutant_ContextFromArgument ==
  /\ pc = "tool"
  /\ \E r \in ToolResults(turn.intent, turn.argument) :
        Goto(AfterTool, [result |-> r,
          context |-> Carry(turn.context, IF turn.argument = None THEN NoSubject
                                          ELSE Whole(turn.argument))])

CallTool ==
  /\ pc = "tool"
  /\ \/ \E r \in ToolResults(turn.intent, turn.argument) :
          Goto(AfterTool, [result |-> r, argument |-> None,
                            context |-> Carry(turn.context, r.subject)])
     \/ \* a database error: told as TOOL_ERROR, in an aborted transaction
        /\ turn.intent \in ToolIntents
        /\ Goto(AfterTool, [result |-> Failure("TOOL_ERROR"), argument |-> None,
                           aborted |-> TRUE])

\* _retrieve finds the contract to search in ...
ResolveTarget ==
  LET named == The(Named(turn.rewritten, Confirmed))
  IN  /\ pc = "target"
      /\ \/ /\ ~turn.aborted
            /\ IF named # None
               THEN Goto("search", [target |-> named,
                                    context |-> Carry(turn.context, Whole(named))])
               ELSE Goto("search", [target |->
                      IF HasContractReference(turn.question)
                      THEN turn.context.contract ELSE None])
         \/ Goto("generate", [aborted |-> TRUE])

\* ... and searches under a savepoint.  Chunks of contracts are found by
\* their plan; common knowledge, and a seed's clause that belongs to no
\* contract, only where no contract is asked for, alone or among the others.
Search ==
  /\ pc = "search"
  /\ \/ Goto("generate", [target |-> None])  \* nothing is found, or the search fails
     \/ /\ turn.kind = "CONTRACT_CLAUSE"
        /\ \E S \in SUBSET Scope(turn.target) \ {{}} : \E first \in S :
             /\ Cardinality(S) <= 3
             /\ Goto("generate",
                  [chunks |-> S, found |-> TRUE, target |-> None,
                   context |-> Carry(turn.context, Whole(first))])
     \/ /\ turn.target = None
        /\ Goto("generate", [found |-> TRUE])

\* explain_tool_result
Drafts ==
  LET r == turn.result
      none == [NoAnswer EXCEPT !.type = "NOT_FOUND"]
  IN  IF r.status # "SUCCESS" \/ (turn.intent = "USER_CONTRACT_LOOKUP" /\ r.about = {})
      THEN {none}
      ELSE IF turn.intent = "FINANCE_SUMMARY"
      THEN {[none EXCEPT !.type = "CALCULATION", !.calculation = "summary"]}
      ELSE IF turn.intent = "EXPENSE_SIMULATION"
      THEN {[none EXCEPT !.type = "CALCULATION", !.calculation = "expense"]}
      ELSE {[none EXCEPT !.type = t, !.about = r.about] :
              t \in {"CONTRACT"} \cup
                    (IF turn.intent = "CONTRACT" /\ Has(turn.question, {"clause"})
                     THEN {"NOT_FOUND"} ELSE {})}

\* A follow-up answers from the stored calculation if that was a simulation;
\* what it stores again has lost the expense.
FollowUp ==
  IF context.calculation \in {"expense", "followed"}
  THEN [NoAnswer EXCEPT !.type = "CALCULATION", !.calculation = "followed"]
  ELSE [NoAnswer EXCEPT !.type = "GENERAL"]

Responses ==
  IF turn.route = "GENERAL"
  THEN {IF turn.intent \in {"GENERAL_CHAT", "NEEDS_CLARIFICATION"}
        THEN [NoAnswer EXCEPT !.type = "GENERAL"]
        ELSE IF turn.intent = "FOLLOW_UP" THEN FollowUp
        ELSE [NoAnswer EXCEPT !.type = "NOT_FOUND"]}
  ELSE IF turn.result.status = None
  THEN {[NoAnswer EXCEPT !.type = IF turn.found THEN "RAG" ELSE "NOT_FOUND",
                         !.cited = turn.chunks]}
  ELSE {[d EXCEPT !.type = IF turn.found THEN "MIXED" ELSE @,
                  !.cited = turn.chunks] : d \in Drafts}

Generate ==
  /\ pc = "generate"
  /\ \/ /\ \E a \in Responses : answer' = a
        /\ pc' = "complete"
        /\ UNCHANGED <<row, before, context, last, turn>>
     \/ \* the provider fails and the tool's own words may not replace its
        /\ turn.provider
        /\ turn.result.status = "SUCCESS" /\ ~turn.found
        /\ End("refused")

\* The words of an answer that a later question could be joined with.
Wording ==
  [words   |-> (IF answer.calculation # None THEN {"left"} ELSE {"contract"})
                 \cup (IF answer.cited # {} THEN {"clause"} ELSE {})
                 \cup (IF turn.intent = "CONTRACT_DEPOSIT" THEN {"deposit"} ELSE {}),
   names   |-> {Company[c] : c \in answer.about \cup answer.cited},
   amounts |-> IF answer.calculation # None \/ answer.about # {} THEN 2 ELSE 0]

\* complete_turn: the context an answer leaves, if any, hides the older one.
\* Which of the two messages comes last is up to their uuids (ChatTurn).
ContextData == [turn.context EXCEPT !.calculation = answer.calculation]

Complete ==
  /\ pc = "complete"
  /\ \/ /\ ~turn.aborted
        /\ pc' = "idle"
        /\ context' = IF ContextData = NoContext THEN context ELSE ContextData
        /\ last' \in {turn.question, Wording}
                       \cup (IF turn.provider THEN {[Wording EXCEPT !.names = {}]} ELSE {})
        /\ before' = NoRows
        /\ turn' = TurnAbout(None, None)
        /\ answer' = NoAnswer
        /\ UNCHANGED <<row>>
     \/ turn.aborted /\ End("lost")

----------------------------------------------------------------------------
Step == \/ Classify \/ ResolveExplicit \/ ResolveFallback \/ ResolutionFails
        \/ CallTool \/ ResolveTarget \/ Search \/ Generate \/ Complete

Next == \/ \E c \in Contracts : Confirm(c) \/ Delete(c)
        \/ \E q \in Questions : Ask(q)
        \/ Step

Spec == Init /\ [][Next]_vars

----------------------------------------------------------------------------
(* Properties, of the answer when it is about to be stored *)

Answered == pc = "complete"
Told == answer.about \cup answer.cited

\* Contracts confirmed at some time of the turn, and all the time.
Known == {c \in Contracts : \/ before[c] = "confirmed"
                            \/ before[c] = "none" /\ row[c] # "none"}
Throughout == {c \in Confirmed : before[c] = "confirmed"}

Subjects == [contract: Ref, document: Ref, vendor: Companies \cup {None}]
Results ==
  [status: {None, "SUCCESS", "NOT_FOUND", "INVALID_ARGUMENT", "INSUFFICIENT_DATA", "TOOL_ERROR"},
   about: SUBSET Contracts, subject: Subjects]
Turns ==
  [question: Texts \cup {None}, rewritten: Texts \cup {None},
   route: {None, "GENERAL", "TOOL", "RAG", "MIXED"},
   kind: {None, "CONTRACT_CLAUSE", "SERVICE_FAQ", "DOMAIN_KNOWLEDGE"},
   intent: ToolIntents \cup DOMAIN DecidedRoute \cup {"UNKNOWN"},
   argument: Ref, provided: BOOLEAN, provider: BOOLEAN, result: Results, target: Ref,
   chunks: SUBSET Contracts, found: BOOLEAN, context: Contexts, aborted: BOOLEAN]
Answers ==
  [type: {None, "GENERAL", "NOT_FOUND", "CALCULATION", "CONTRACT", "RAG", "MIXED"},
   about: SUBSET Contracts, cited: SUBSET Contracts, calculation: Calculations]

TypeOK ==
  /\ row \in [Contracts -> {"none", "confirmed", "deleted"}]
  /\ before \in [Contracts -> {"none", "confirmed", "deleted"}]
  /\ context \in Contexts
  /\ last \in Texts \cup {None}
  /\ pc \in {"idle", "lost", "refused", "classify", "arguments", "fallback", "tool", "target",
             "search", "generate", "complete"}
  /\ turn \in Turns
  /\ answer \in Answers

InTurn == pc \notin {"idle", "lost", "refused"}

\* Contracts come once and go once, also in the course of a turn.
Advance ==
  \A c \in Contracts :
    before[c] # "none" => row[c] # "none" /\ (before[c] = "deleted" => row[c] = "deleted")

\* What a turn has found, and is to tell, is of contracts it could know, and
\* its context stays at the old contract or is of one it has found or named.
Gathered ==
  InTurn =>
    /\ turn.question \in Texts
    /\ turn.rewritten = RewriteQuestion(turn.question, last, context.vendor, context.calculation)
    /\ pc \in {"classify", "arguments", "fallback", "tool"} => turn.result = NoResult
    /\ pc \in {"arguments", "fallback", "tool", "target", "search"} => turn.route # "GENERAL"
    /\ pc \notin {"generate", "complete"} => turn.chunks = {}
    /\ pc \in {"classify", "arguments"} /\ ~turn.provided => turn.argument = None
    /\ turn.result.about \cup turn.chunks \subseteq Known
    /\ turn.result.about # {} =>
         /\ turn.result.status = "SUCCESS" /\ turn.route # "GENERAL"
         /\ turn.intent \notin {"FINANCE_SUMMARY", "EXPENSE_SIMULATION"}
    /\ turn.chunks # {} => turn.route # "GENERAL"
    /\ Answered => answer.about = turn.result.about /\ answer.cited = turn.chunks
    /\ turn.context.contract \in
         {context.contract} \cup turn.result.about \cup turn.chunks
           \cup Named(turn.rewritten, Contracts)

\* The one contract that a question names, as it is rewritten.
Meant(c) ==
  /\ InTurn /\ c \in Throughout /\ ~turn.provided
  /\ Named(turn.rewritten, Known) = {c}
  /\ turn.intent = "USER_CONTRACT_LOOKUP" =>
       HasContractReference(turn.question) /\ context.contract = c

\* Each resolver and each search that the turn comes to keeps to that one.
MeantKept ==
  \A c \in Contracts : Meant(c) =>
    /\ turn.result.about \cup turn.chunks \subseteq {c}
    /\ pc # "fallback"
    /\ pc = "tool" /\ turn.intent \in ContractIntents \cup {"USER_CONTRACT_LOOKUP"} =>
         turn.argument = c
    /\ pc = "search" => turn.target = c

\* Type invariant, and: a context has no document and no company without a
\* contract, so the name that stands in a rewritten question is one a contract
\* had; with what the properties below rest on.
ContextInv ==
  /\ TypeOK
  /\ \A x \in {context, turn.context} :
       x.contract = None => x.document = None /\ x.vendor = None
  /\ Advance
  /\ Gathered
  /\ MeantKept

\* No answer tells of a contract that was deleted before its question was
\* asked, though the conversation, or a model, may still refer to it.
NoGhost == Answered => Told \subseteq Known

\* A question that names one company, of a contract confirmed throughout,
\* where neither the rules nor the provider decide on a lookup or a contract
\* of their own.
Names(c) ==
  /\ Answered
  /\ Named(turn.question, Known) = {c} /\ Cardinality(turn.question.names) = 1
  /\ turn.intent # "USER_CONTRACT_LOOKUP" /\ ~turn.provided

\* docs/09_TEST_SCENARIO.md:165: a company named in a question is preferred
\* to the contract the conversation was about; where rewriting adds no other
\* company and does not replace the question by one on a calculation.
NamedContractOnly ==
  \A c \in Throughout :
    Names(c) /\ turn.rewritten.names = turn.question.names => Told \subseteq {c}

\* The same of every question.  It fails: joined to a message on another
\* company, a question that names one has two names, and none is chosen.
NamedWins == \A c \in Throughout : Names(c) => Told \subseteq {c}

\* A question that refers to the contract of the conversation and names none,
\* and does not go on from a calculation.
RefersTo(c) ==
  /\ Answered
  /\ Has(turn.question, {"refer"}) /\ turn.question.names = {}
  /\ context.contract = c /\ ~turn.provided
  /\ ~(context.calculation # None /\ Has(turn.question, FollowUpMarkers))

\* docs/09_TEST_SCENARIO.md:161-164, 169-170: its answer, the tool's part and
\* the clauses, is about that contract, where the context is of one piece.
ReferenceKept ==
  \A c \in Throughout :
    /\ RefersTo(c)
    /\ context.vendor = Company[c]
    /\ \A d \in Known : Company[d] = Company[c] => d = c
    => Told \subseteq {c}

\* The same of every context an answer left.
ReferenceFollowsAnswer ==
  \A c \in Throughout :
    /\ RefersTo(c)
    /\ \A d \in Known : Company[d] = Company[c] => d = c
    => Told \subseteq {c}

\* The conversation moves only to a contract its answer told of, or that the
\* question as it was understood names.
ContextMoves ==
  [][context'.contract # context.contract =>
       context'.contract \in Told \cup Named(turn.rewritten, Contracts)]_vars
=============================================================================
