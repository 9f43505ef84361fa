---------------------------- MODULE MCKnowledgeBase ----------------------------
(* A small instance of KnowledgeBase for TLC. *)
EXTENDS KnowledgeBase, TLC

Symmetry == Permutations(Runs)

Rec(record, type, version, text, enabled) ==
  [record |-> record, type |-> type, version |-> version, text |-> text, enabled |-> enabled]

Seed(op, records, sync, model) ==
  [op |-> op, records |-> records, pieces |-> {}, sync |-> sync, model |-> model]

File(pieces) ==
  [op |-> "file", records |-> {}, pieces |-> pieces, sync |-> FALSE, model |-> Configured]

\* A first deployment; one that has a new version of a record, has lost
\* another and disables a third; and one that corrects a text in place.
Clause    == Rec("c1", "clauses", 1, "same", TRUE)
Disabled  == Rec("c1", "clauses", 1, "same", FALSE)
First     == {Rec("q1", "faq", 1, "old", TRUE), Rec("q2", "faq", 1, "same", TRUE)}
Second    == {Rec("q1", "faq", 2, "new", TRUE)}
Corrected == {Rec("q1", "faq", 1, "new", TRUE), Rec("q2", "faq", 1, "same", TRUE)}

MCPrograms == <<
  Seed("startup", First \cup {Clause}, FALSE, Configured),
  Seed("startup", Second \cup {Disabled}, FALSE, Configured),
  Seed("startup", Corrected, FALSE, Configured),
  Seed("manual", Second \cup {Disabled}, TRUE, Configured),
  Seed("manual", Second, TRUE, Configured),
  Seed("manual", Corrected, TRUE, Configured),
  Seed("manual", First, FALSE, "other"),
  Seed("manual", First, FALSE, Configured),
  File({"x"}),
  File({"x", "y"}) >>
=============================================================================
