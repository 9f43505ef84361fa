------------------------------ MODULE ChatTurn ------------------------------
(***************************************************************************)
(* The conversations of app/domains/chat.  A turn is a question and its    *)
(* answer: one request, one session, one transaction that commits when the *)
(* answer is stored.  It begins by reading the newest messages of its      *)
(* conversation, among them the context of earlier answers.                *)
(*                                                                         *)
(* Messages are ordered by created_at, which is now() and in PostgreSQL    *)
(* the start of the transaction: equal for the two messages of a turn,     *)
(* whose random uuids then decide.  No two transactions are taken to start *)
(* in the same microsecond.                                                *)
(*                                                                         *)
(* Left out: what a question says and how it is answered, requests without *)
(* a plan, which store nothing, and greetings that open no conversation.   *)
(***************************************************************************)
EXTENDS Integers, FiniteSets

CONSTANTS
  Turns,          \* requests, a repeated one included: nothing joins the two
  Conversations,  \* conversation identifiers, fresh uuids
  HistoryLimit,   \* settings.rag_history_limit
  Serial,         \* those whose client waits for each answer, as a page kept open does
  None            \* no turn, no conversation

ASSUME ChatAssumption ==
  /\ IsFiniteSet(Turns)
  /\ HistoryLimit \in Nat
  /\ Serial \subseteq Conversations
  /\ None \notin Turns \cup Conversations

VARIABLES
  clock,    \* the database's clock: transactions started so far
  step,     \* turn -> how far its request has come
  conv,     \* turn -> its conversation
  at,       \* turn -> when its transaction started, created_at of its messages
  first,    \* turn -> the role whose message has the smaller uuid
  rows,     \* committed rows of chat_messages
  context,  \* turn -> context column of its answer
  seen,     \* turn -> messages that begin_turn read
  given     \* turn -> context it was given

vars == <<clock, step, conv, at, first, rows, context, seen, given>>

Roles    == {"user", "assistant"}
Messages == Turns \X Roles

\* A context names turns: ref the one whose answer was about the contract
\* that is referred to, calc the one that made the last calculation.
Contexts == [ref: Turns \cup {None}, calc: Turns \cup {None}]
Empty    == [ref |-> None, calc |-> None]

TypeOK ==
  /\ clock \in Nat
  /\ step \in [Turns -> {"new", "opened", "begun", "stored", "failed"}]
  /\ conv \in [Turns -> Conversations \cup {None}]
  /\ at \in [Turns -> Nat]
  /\ first \in [Turns -> Roles]
  /\ rows \subseteq Messages
  /\ context \in [Turns -> Contexts]
  /\ seen \in [Turns -> SUBSET Messages]
  /\ given \in [Turns -> Contexts]

Init ==
  /\ clock = 0
  /\ step = [t \in Turns |-> "new"]
  /\ conv = [t \in Turns |-> None]
  /\ at = [t \in Turns |-> 0]
  /\ first = [t \in Turns |-> "user"]
  /\ rows = {}
  /\ context = [t \in Turns |-> Empty]
  /\ seen = [t \in Turns |-> {}]
  /\ given = [t \in Turns |-> Empty]

----------------------------------------------------------------------------
Pending(t)  == step[t] \in {"opened", "begun"}
MessagesOf(c) == {r \in rows : conv[r[1]] = c}

\* ORDER BY created_at, id
Rank(r) == 2 * at[r[1]] + (IF r[2] = first[r[1]] THEN 0 ELSE 1)

\* ... DESC LIMIT n
Newest(S, n) == {r \in S : Cardinality({x \in S : Rank(x) > Rank(r)}) < n}

RecentMessages(c) == Newest(MessagesOf(c), 2 * HistoryLimit)

\* Mutant definitions are slips this code could have had; no behaviour uses
\* them, each stands for the definition below it to show a property notices.
Mutant_OldestContext(S) ==
  LET answers == {t \in Turns : <<t, "assistant">> \in S /\ context[t] # Empty}
  IN  IF answers = {} THEN Empty
      ELSE context[CHOOSE t \in answers : \A u \in answers : at[t] <= at[u]]

\* The context of the newest answer that has one.
Restored(S) ==
  LET answers == {t \in Turns : <<t, "assistant">> \in S /\ context[t] # Empty}
  IN  IF answers = {} THEN Empty
      ELSE context[CHOOSE t \in answers : \A u \in answers : at[u] <= at[t]]

\* Of the messages read, those that reach the rewriting of the question.
Prompt(t) == Newest(seen[t], HistoryLimit)

----------------------------------------------------------------------------
\* The lookup of the plan starts the transaction.  A client knows the id of
\* a conversation only from an answer; the request of a new one makes it.
Open(t, c) ==
  /\ step[t] = "new"
  /\ MessagesOf(c) # {} \/ \A u \in Turns : conv[u] # c
  /\ c \in Serial => \A u \in Turns : conv[u] = c => ~Pending(u)
  /\ clock' = clock + 1
  /\ step' = [step EXCEPT ![t] = "opened"]
  /\ conv' = [conv EXCEPT ![t] = c]
  /\ at' = [at EXCEPT ![t] = clock']
  /\ UNCHANGED <<first, rows, context, seen, given>>

Mutant_CommitQuestion(t) ==
  /\ step[t] = "opened"
  /\ step' = [step EXCEPT ![t] = "begun"]
  /\ seen' = [seen EXCEPT ![t] = RecentMessages(conv[t])]
  /\ given' = [given EXCEPT ![t] = Restored(RecentMessages(conv[t]))]
  /\ rows' = rows \cup {<<t, "user">>}
  /\ UNCHANGED <<clock, conv, at, first, context>>

\* begin_turn: a statement sees what was committed when it began, later
\* than the transaction's own start.  The question is not committed yet.
Begin(t) ==
  /\ step[t] = "opened"
  /\ step' = [step EXCEPT ![t] = "begun"]
  /\ seen' = [seen EXCEPT ![t] = RecentMessages(conv[t])]
  /\ given' = [given EXCEPT ![t] = Restored(RecentMessages(conv[t]))]
  /\ UNCHANGED <<clock, conv, at, first, rows, context>>

Mutant_OwnReference(t) ==
  {[ref |-> r, calc |-> k] : r \in {None, t}, k \in {None, t, given[t].calc}}

\* An answer is about a contract of its own or leaves the reference as it
\* was given; a calculation is stored only by the answer that shows it.
Answers(t) ==
  {[ref |-> r, calc |-> k] : r \in {t, given[t].ref}, k \in {None, t, given[t].calc}}

\* complete_turn commits both messages; whether the client gets the answer
\* changes nothing here.
Complete(t) ==
  /\ step[t] = "begun"
  /\ step' = [step EXCEPT ![t] = "stored"]
  /\ rows' = rows \cup ({t} \X Roles)
  /\ \E r \in Roles : first' = [first EXCEPT ![t] = r]
  /\ \E x \in Answers(t) : context' = [context EXCEPT ![t] = x]
  /\ UNCHANGED <<clock, conv, at, seen, given>>

\* Any exception, a conversation of another plan and the end of the process
\* roll the turn back.
Fail(t) ==
  /\ Pending(t)
  /\ step' = [step EXCEPT ![t] = "failed"]
  /\ UNCHANGED <<clock, conv, at, first, rows, context, seen, given>>

Next == \E t \in Turns :
  (\E c \in Conversations : Open(t, c)) \/ Begin(t) \/ Complete(t) \/ Fail(t)

Spec == Init /\ [][Next]_vars

----------------------------------------------------------------------------
(* Properties *)

Whole(S) == \A t \in Turns : <<t, "user">> \in S <=> <<t, "assistant">> \in S

\* Whatever turns of a conversation run at once, fail or are cut off by the
\* limit, the history has no question without its answer and no answer
\* without its question.
WholeTurns ==
  \A t \in Turns : /\ Whole(seen[t])
                   /\ HistoryLimit % 2 = 0 => Whole(Prompt(t))

\* Turns of a conversation whose answer found a contract of its own.
Stored(c) == {t \in Turns : step[t] = "stored" /\ conv[t] = c}
Found(c)  == {t \in Stored(c) : context[t].ref = t}
Computed(c) == {t \in Stored(c) : context[t].calc = t}

NewestOf(t, S) == t \in S /\ \A u \in S : at[u] <= at[t]

LatestIn(C) ==
  HistoryLimit > 0 =>
    \A t \in Turns : step[t] = "begun" /\ conv[t] \in C =>
      /\ \/ Found(conv[t]) = {} /\ given[t].ref = None
         \/ NewestOf(given[t].ref, Found(conv[t]))
      /\ given[t].calc = None \/ NewestOf(given[t].calc, Computed(conv[t]))

\* A client that waits continues from the last contract its conversation was
\* about, however long ago, and from no calculation but the last one.
SerialLatest == LatestIn(Serial)

\* docs/07_API_SPEC.md:441-443, 499: whoever sends the id of a conversation
\* continues from its last contract.
RestoresLatest == LatestIn(Conversations)

\* docs/06_ERD.md:603-604: messages are read in the order of time, so an
\* answer comes after its question.
QuestionFirst ==
  \A t, u \in Turns :
    <<u, "user">> \in seen[t] /\ <<u, "assistant">> \in seen[t]
    => Rank(<<u, "user">>) < Rank(<<u, "assistant">>)

\* What the properties rest on.
StoredWhole ==
  \A t \in Turns : /\ <<t, "user">> \in rows <=> step[t] = "stored"
                   /\ <<t, "assistant">> \in rows <=> step[t] = "stored"

StartsApart ==
  /\ \A t \in Turns : at[t] <= clock /\ (step[t] = "new" <=> at[t] = 0)
  /\ \A t \in Turns : step[t] # "new" => conv[t] \in Conversations
  /\ \A t, u \in Turns : at[t] = at[u] /\ at[t] # 0 => t = u

SeenStored == \A t \in Turns : seen[t] \subseteq rows

IInv ==
  /\ TypeOK
  /\ StoredWhole
  /\ StartsApart
  /\ SeenStored
  /\ \A t \in Turns : Whole(seen[t])

\* With a serial client a pending turn is the only one of its conversation
\* and newer than all its stored ones, and every answer carries the newest
\* reference up to its own.
OnePending ==
  \A t, u \in Turns :
    Pending(t) /\ conv[t] \in Serial /\ conv[u] = conv[t] /\ u # t =>
      ~Pending(u) /\ (step[u] = "stored" => at[u] < at[t])

UpTo(t, S) == {u \in S : at[u] <= at[t]}
CarriesLatest ==
  HistoryLimit > 0 =>
    \A t \in Turns : step[t] = "stored" /\ conv[t] \in Serial =>
      /\ \/ UpTo(t, Found(conv[t])) = {} /\ context[t].ref = None
         \/ NewestOf(context[t].ref, UpTo(t, Found(conv[t])))
      /\ \/ context[t].calc = None
         \/ NewestOf(context[t].calc, UpTo(t, Computed(conv[t])))

SerialInv == IInv /\ OnePending /\ CarriesLatest /\ SerialLatest
=============================================================================
