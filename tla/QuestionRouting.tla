-------------------------- MODULE QuestionRouting --------------------------
(***************************************************************************)
(* How a question of the chat is understood: ai/chat_agent/fallback.py and *)
(* ai/rag/routing.py.  Both only ask which words a text contains, so here  *)
(* a text is the words it has, the companies it names, and how many        *)
(* amounts it gives.  A word stands for the tokens that the tests treat    *)
(* alike; an example of each:                                              *)
(*                                                                         *)
(*   then  그럼         still  그래도       later  다음 달, 그때              *)
(*   refer 거기         contract  계약      deposit 예약금                   *)
(*   balance 잔금       date   지급일       left  예상 잔액                  *)
(*   spend 써도         extra  추가 지출     would 더 쓰면     enough 부족    *)
(*   mine  현재         clause 취소         howto 업로드      meaning 뜻이   *)
(*   greet 안녕                                                             *)
(*                                                                         *)
(* Left out: the extraction of a contract's uuid and of an amount out of   *)
(* a text (an amount counted here is a positive one), names of companies   *)
(* that contain one another, and single tokens that one of two lists has   *)
(* and the other, otherwise alike, has not (such as 추가 비용 among the      *)
(* clauses): they choose another of the routes that other words choose.    *)
(***************************************************************************)
EXTENDS Integers

CONSTANT None

Words == {"then", "still", "later", "refer", "contract", "deposit", "balance", "date", "left",
          "spend", "extra", "would", "enough", "mine", "clause", "howto",
          "meaning", "greet"}

Has(text, list) == text.words \cap list # {}

\* What a question on a calculation continues with (_FOLLOW_UP_MARKERS), and
\* what one begins with that is joined to the message before.
FollowUpMarkers == {"then", "still"}
HistoryMarkers  == {"then", "later"}

LooksLikeExpenseSimulation(text) ==
  Has(text, {"spend", "extra", "would"}) /\ (text.amounts > 0 \/ Has(text, {"would"}))

LooksLikeUserContractLookup(text) ==
  ~Has(text, {"clause"}) /\ Has(text, {"contract"}) /\ Has(text, {"mine"})

\* classify_message: the first test that holds.
ClassifyMessage(text) ==
  IF Has(text, {"greet"}) THEN "GENERAL_CHAT"
  ELSE IF Has(text, FollowUpMarkers) /\ Has(text, {"spend", "enough", "left"})
  THEN "FOLLOW_UP"
  ELSE IF Has(text, {"balance"}) /\ ~Has(text, {"contract"}) THEN "NEEDS_CLARIFICATION"
  ELSE IF Has(text, {"deposit"}) THEN "CONTRACT_DEPOSIT"
  ELSE IF LooksLikeExpenseSimulation(text) /\ text.amounts = 1 THEN "EXPENSE_SIMULATION"
  ELSE IF Has(text, {"left"}) THEN "FINANCE_SUMMARY"
  ELSE IF LooksLikeUserContractLookup(text) THEN "USER_CONTRACT_LOOKUP"
  ELSE IF Has(text, {"date"}) THEN "SCHEDULE"
  ELSE IF Has(text, {"balance"}) THEN "CONTRACT_PAYMENT"
  ELSE IF Has(text, {"clause"}) THEN "CONTRACT_CLAUSE_QA"
  ELSE IF Has(text, {"howto"}) THEN "SERVICE_FAQ"
  ELSE IF Has(text, {"meaning"}) THEN "DOMAIN_KNOWLEDGE"
  ELSE IF Has(text, {"contract"}) THEN "CONTRACT"
  ELSE "UNKNOWN"

\* classify_rag_route: a route and the kind of knowledge to search.
ClassifyRagRoute(text) ==
  LET finance == Has(text, {"date", "left", "extra", "deposit", "balance"})
  IN  IF LooksLikeExpenseSimulation(text) THEN <<"TOOL", None>>
      ELSE IF Has(text, {"clause"})
           THEN <<IF finance THEN "MIXED" ELSE "RAG", "CONTRACT_CLAUSE">>
      ELSE IF Has(text, {"howto"}) THEN <<"RAG", "SERVICE_FAQ">>
      ELSE IF Has(text, {"meaning"}) THEN <<"RAG", "DOMAIN_KNOWLEDGE">>
      ELSE IF finance \/ Has(text, {"contract"}) THEN <<"TOOL", None>>
      ELSE <<"GENERAL", None>>

\* A mutant is a slip this code could have had; no behaviour uses it.
Mutant_NoReference(text) == Has(text, HistoryMarkers)

HasContractReference(text) == Has(text, {"refer"})

\* rewrite_question, for the company of the last contract, the calculation
\* of the last answer and the last message of the history, each or None.
RewriteQuestion(text, history, vendor, calculation) ==
  IF calculation # None /\ Has(text, FollowUpMarkers)
  THEN [words   |-> {"mine", "contract", "extra", "enough"},
        names   |-> {},
        amounts |-> IF calculation = "expense" THEN 1 ELSE 0]
  ELSE IF vendor # None /\ HasContractReference(text)
  THEN [words   |-> (text.words \ {"refer"}) \cup {"contract"},
        names   |-> text.names \cup {vendor},
        amounts |-> text.amounts]
  ELSE IF history # None /\ Has(text, HistoryMarkers)
  THEN [words   |-> text.words \cup history.words,
        names   |-> text.names \cup history.names,
        amounts |-> text.amounts + history.amounts]
  ELSE text
=============================================================================
