------------------------ MODULE MCChatOrchestration ------------------------
(* Small instances of ChatOrchestration for TLC. *)
EXTENDS ChatOrchestration, TLC

CONSTANTS hall, studio

MCContracts == {hall, studio}
MCCompany == [c \in {hall, studio} |-> IF c = studio THEN "S" ELSE "H"]

Text(words, names, amounts) == [words |-> words, names |-> names, amounts |-> amounts]

\* One question for each way through the graph, and what follows them.
MCQuestions ==
  {Text({"contract", "clause"}, {"H"}, 0),           \* a clause of a named contract
   Text({"refer", "deposit", "clause"}, {}, 0),      \* the deposit of that one, if cancelled
   Text({"mine", "contract"}, {}, 0),                \* which contracts there are
   Text({"spend", "extra"}, {}, 1),                  \* an expense
   Text({"then", "enough"}, {}, 0),                  \* a follow-up on it
   Text({"later", "date"}, {"S"}, 0),                \* another contract is named
   Text({"howto"}, {}, 0)}
=============================================================================
