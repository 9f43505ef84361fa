--------------------------- MODULE ChatTurnProofs ---------------------------
(* Safety of ChatTurn for every number of turns and conversations and every *)
(* history limit.                                                           *)
EXTENDS ChatTurn, TLAPS, FiniteSetTheorems, WellFoundedInduction

\* Reading the newest 2k messages of whole turns that started at different
\* times cuts no turn: above the message of t that ranks lower are the turns
\* that started later, two messages each, and the other message of t.
Apart(S) == \A t, u \in Turns :
  <<t, "user">> \in S /\ <<u, "user">> \in S /\ at[t] = at[u] => t = u

LEMMA NewestWhole ==
  ASSUME TypeOK, NEW S \in SUBSET Messages, Whole(S), Apart(S), NEW k \in Nat
  PROVE  Whole(Newest(S, 2 * k))
<1> SUFFICES ASSUME NEW t \in Turns, <<t, "user">> \in S, <<t, "assistant">> \in S
             PROVE  <<t, "user">> \in Newest(S, 2 * k) <=> <<t, "assistant">> \in Newest(S, 2 * k)
  BY DEF Whole, Newest
<1> DEFINE other == IF first[t] = "user" THEN "assistant" ELSE "user"
           low   == <<t, first[t]>>
           high  == <<t, other>>
           Later == {u \in Turns : <<u, "user">> \in S /\ at[u] > at[t]}
           Above(r) == {x \in S : Rank(x) > Rank(r)}
<1>1. first[t] \in Roles /\ other \in Roles /\ first[t] # other /\ at[t] \in Nat
  BY DEF TypeOK, Roles
<1>2. {low, high} = {<<t, "user">>, <<t, "assistant">>}
  BY <1>1 DEF Roles
<1>3. Rank(low) = 2 * at[t] /\ Rank(high) = 2 * at[t] + 1
  BY <1>1 DEF Rank
<1>4. ASSUME NEW u \in Turns, NEW q \in Roles, <<u, q>> \in S, u # t
      PROVE  /\ at[u] \in Nat /\ at[u] # at[t] /\ <<u, "user">> \in S
             /\ Rank(<<u, q>>) \in {2 * at[u], 2 * at[u] + 1}
  <2>1. <<u, "user">> \in S
    BY <1>4 DEF Whole, Roles
  <2>2. at[u] # at[t]
    BY <1>4, <2>1 DEF Apart
  <2> QED
    BY <2>1, <2>2 DEF Rank, TypeOK
<1>5. ASSUME NEW u \in Turns, NEW q \in Roles, <<u, q>> \in S, u # t
      PROVE  /\ Rank(<<u, q>>) > Rank(high) <=> at[u] > at[t]
             /\ Rank(<<u, q>>) > Rank(low) <=> at[u] > at[t]
  <2>0. PICK m \in Nat : m = at[u]
    BY <1>4, <1>5
  <2>1. PICK i \in {2 * m, 2 * m + 1} : i = Rank(<<u, q>>)
    BY <2>0, <1>4, <1>5
  <2>2. PICK n \in Nat : n = at[t]
    BY <1>1
  <2>3. i \in {2 * m, 2 * m + 1} /\ m # n
    BY <2>0, <2>1, <2>2, <1>4, <1>5
  <2>4. i > 2 * n + 1 <=> m > n
    BY <2>3
  <2>5. i > 2 * n <=> m > n
    BY <2>3
  <2> QED
    BY <2>0, <2>1, <2>2, <2>4, <2>5, <1>3
<1>6. Above(high) = Later \X Roles
  <2>1. ASSUME NEW u \in Turns, NEW q \in Roles
        PROVE  <<u, q>> \in Above(high) <=> <<u, q>> \in Later \X Roles
    <3>1. CASE u = t
      <4>1. Rank(<<u, q>>) \in {2 * at[t], 2 * at[t] + 1}
        BY <3>1, <1>1 DEF Rank
      <4> QED
        BY <3>1, <4>1, <1>1, <1>3
    <3>2. CASE u # t
      <4>1. <<u, q>> \in S <=> <<u, "user">> \in S
        BY DEF Whole, Roles
      <4> QED
        BY <3>2, <4>1, <1>5
    <3> QED
      BY <3>1, <3>2
  <2> QED
    BY <2>1 DEF Messages
<1>7. Above(low) = (Later \X Roles) \cup {high}
  <2>1. ASSUME NEW u \in Turns, NEW q \in Roles
        PROVE  <<u, q>> \in Above(low) <=> <<u, q>> \in (Later \X Roles) \cup {high}
    <3>1. CASE u = t
      <4>1. q = first[t] \/ q = other
        BY <1>1 DEF Roles
      <4>2. high \in S
        BY <1>2
      <4> QED
        BY <3>1, <4>1, <4>2, <1>1, <1>3
    <3>2. CASE u # t
      <4>1. <<u, q>> \in S <=> <<u, "user">> \in S
        BY DEF Whole, Roles
      <4> QED
        BY <3>2, <4>1, <1>5
    <3> QED
      BY <3>1, <3>2
  <2>2. high \in Messages
    BY <1>1 DEF Messages
  <2> QED
    BY <2>1, <2>2, <1>1 DEF Messages
<1>8. IsFiniteSet(Later)
  BY FS_Subset, ChatAssumption
<1>9. IsFiniteSet(Roles) /\ Cardinality(Roles) = 2
  <2>1. IsFiniteSet({"user"}) /\ Cardinality({"user"}) = 1
    BY FS_Singleton
  <2>2. Roles = {"user"} \cup {"assistant"} /\ "assistant" \notin {"user"}
    BY DEF Roles
  <2>3. /\ IsFiniteSet({"user"} \cup {"assistant"})
        /\ Cardinality({"user"} \cup {"assistant"}) = Cardinality({"user"}) + 1
    BY <2>1, <2>2, FS_AddElement
  <2> QED
    BY <2>1, <2>2, <2>3
<1>10. PICK n \in Nat : n = Cardinality(Later)
  BY <1>8, FS_CardinalityType
<1>11. Cardinality(Above(high)) = 2 * n /\ IsFiniteSet(Above(high))
  <2>1. /\ IsFiniteSet(Later \X Roles)
        /\ Cardinality(Later \X Roles) = Cardinality(Later) * Cardinality(Roles)
    BY <1>8, <1>9, FS_Product
  <2> HIDE DEF Later
  <2>2. Cardinality(Later \X Roles) = 2 * n
    BY <2>1, <1>9, <1>10
  <2> QED
    BY <2>1, <2>2, <1>6
<1>12. Cardinality(Above(low)) = 2 * n + 1
  <2>1. high \notin Later \X Roles
    BY <1>1
  <2>2. /\ IsFiniteSet(Later \X Roles)
        /\ Cardinality(Later \X Roles) = 2 * n
    BY <1>6, <1>11
  <2>3. Cardinality((Later \X Roles) \cup {high}) = Cardinality(Later \X Roles) + 1
    BY <2>1, <2>2, FS_AddElement
  <2> HIDE DEF Later, high
  <2> QED
    BY <2>2, <2>3, <1>7
<1>13. low \in Newest(S, 2 * k) <=> high \in Newest(S, 2 * k)
  <2>1. low \in S /\ high \in S
    BY <1>2
  <2>2. low \in Newest(S, 2 * k) <=> 2 * n + 1 < 2 * k
    BY <2>1, <1>12 DEF Newest
  <2>3. high \in Newest(S, 2 * k) <=> 2 * n < 2 * k
    BY <2>1, <1>11 DEF Newest
  <2> QED
    BY <2>2, <2>3
<1> QED
  BY <1>2, <1>13

----------------------------------------------------------------------------
\* A set of turns that started by now has one that started last.
LEMMA SomeNewest ==
  ASSUME TypeOK, StartsApart, NEW S \in SUBSET Turns, S # {}
  PROVE  \E t \in S : NewestOf(t, S)
<1> DEFINE R == OpToRel(<, Nat)
           Ages == {clock - at[u] : u \in S}
<1>1. \A u \in S : at[u] \in Nat /\ clock \in Nat /\ at[u] <= clock
  BY DEF TypeOK, StartsApart
<1>2. Ages \subseteq Nat /\ Ages # {}
  BY <1>1
<1>3. PICK x \in Ages : \A y \in Ages : <<y, x>> \notin R
  BY <1>2, NatLessThanWellFounded, WFMin
<1>4. \A y \in Ages : ~(y < x)
  BY <1>2, <1>3 DEF OpToRel
<1>5. PICK t \in S : x = clock - at[t]
  OBVIOUS
<1>6. \A u \in S : at[u] <= at[t]
  BY <1>1, <1>4, <1>5
<1> QED
  BY <1>6 DEF NewestOf

\* Where the newest answer with a context carries the context from.
LEMMA RestoredIs ==
  ASSUME TypeOK, StartsApart, NEW S \in SUBSET Messages
  PROVE  LET answers == {t \in Turns : <<t, "assistant">> \in S /\ context[t] # Empty}
         IN  \/ answers = {} /\ Restored(S) = Empty
             \/ \E t \in Turns : NewestOf(t, answers) /\ Restored(S) = context[t]
<1> DEFINE answers == {t \in Turns : <<t, "assistant">> \in S /\ context[t] # Empty}
<1>1. CASE answers = {}
  BY <1>1 DEF Restored
<1>2. CASE answers # {}
  <2>1. \E t \in answers : \A u \in answers : at[u] <= at[t]
    BY <1>2, SomeNewest DEF NewestOf
  <2> DEFINE t == CHOOSE t \in answers : \A u \in answers : at[u] <= at[t]
  <2>2. t \in answers /\ \A u \in answers : at[u] <= at[t]
    BY <2>1
  <2>3. Restored(S) = context[t]
    BY <1>2 DEF Restored
  <2> QED
    BY <2>2, <2>3 DEF NewestOf
<1> QED
  BY <1>1, <1>2

LEMMA RestoredType ==
  ASSUME TypeOK, StartsApart, NEW S \in SUBSET Messages
  PROVE  Restored(S) \in Contexts
<1>1. Empty \in Contexts
  BY DEF Empty, Contexts
<1> QED
  BY <1>1, RestoredIs DEF TypeOK

\* What the invariant says of the messages a turn can read.
LEMMA RowsWhole ==
  ASSUME TypeOK, StoredWhole, StartsApart, NEW S \in SUBSET rows
  PROVE  Apart(S)
<1>1. \A t \in Turns : <<t, "user">> \in S => at[t] # 0
  BY DEF StoredWhole, StartsApart
<1> QED
  BY <1>1 DEF Apart, StartsApart

LEMMA RecentWhole ==
  ASSUME TypeOK, StoredWhole, StartsApart, NEW c \in Conversations
  PROVE  RecentMessages(c) \subseteq rows /\ Whole(RecentMessages(c))
<1>1. MessagesOf(c) \subseteq rows /\ MessagesOf(c) \in SUBSET Messages
  BY DEF MessagesOf, TypeOK
<1>2. Whole(MessagesOf(c))
  BY DEF Whole, MessagesOf, StoredWhole
<1>3. Apart(MessagesOf(c))
  BY <1>1, RowsWhole
<1>4. Whole(Newest(MessagesOf(c), 2 * HistoryLimit))
  BY <1>1, <1>2, <1>3, NewestWhole, ChatAssumption
<1> QED
  BY <1>1, <1>4 DEF RecentMessages, Newest

----------------------------------------------------------------------------
LEMMA InitInv == Init => IInv
BY DEF Init, IInv, TypeOK, StoredWhole, StartsApart, SeenStored, Whole,
   Messages, Contexts, Empty, Roles

LEMMA OpenInv ==
  ASSUME IInv, NEW t \in Turns, NEW c \in Conversations, Open(t, c)
  PROVE  IInv'
<1>1. TypeOK'
  BY DEF Open, IInv, TypeOK
<1>2. StoredWhole'
  BY DEF Open, IInv, TypeOK, StoredWhole
<1>3. StartsApart'
  <2>1. clock' = clock + 1 /\ clock \in Nat
    BY DEF Open, IInv, TypeOK
  <2>2. \A u \in Turns : at'[u] = IF u = t THEN clock + 1 ELSE at[u]
    BY DEF Open, IInv, TypeOK
  <2>3. \A u \in Turns : at[u] \in Nat /\ at[u] <= clock
    BY DEF IInv, TypeOK, StartsApart
  <2>4. \A u \in Turns : at'[u] <= clock' /\ (step'[u] = "new" <=> at'[u] = 0)
    BY <2>1, <2>2, <2>3 DEF Open, IInv, TypeOK, StartsApart
  <2>5. \A u \in Turns : step'[u] # "new" => conv'[u] \in Conversations
    BY DEF Open, IInv, TypeOK, StartsApart
  <2>6. \A u, v \in Turns : at'[u] = at'[v] /\ at'[u] # 0 => u = v
    BY <2>1, <2>2, <2>3 DEF IInv, StartsApart
  <2> QED
    BY <2>4, <2>5, <2>6 DEF StartsApart
<1>4. SeenStored' /\ \A u \in Turns : Whole(seen[u])'
  BY DEF Open, IInv, SeenStored, Whole
<1> QED
  BY <1>1, <1>2, <1>3, <1>4 DEF IInv

LEMMA BeginInv ==
  ASSUME IInv, NEW t \in Turns, Begin(t)
  PROVE  IInv'
<1> DEFINE S == RecentMessages(conv[t])
<1>1. S \subseteq rows /\ Whole(S) /\ S \in SUBSET Messages
  <2>1. conv[t] \in Conversations
    BY DEF IInv, StartsApart, Begin
  <2> QED
    BY <2>1, RecentWhole DEF IInv, TypeOK
<1>2. Restored(S) \in Contexts
  BY <1>1, RestoredType DEF IInv
<1> HIDE DEF S
<1>3. TypeOK'
  BY <1>1, <1>2 DEF Begin, IInv, TypeOK, S
<1>4. StoredWhole' /\ StartsApart'
  BY DEF Begin, IInv, TypeOK, StoredWhole, StartsApart
<1>5. \A u \in Turns : seen'[u] = IF u = t THEN S ELSE seen[u]
  BY DEF Begin, IInv, TypeOK, S
<1>6. SeenStored' /\ \A u \in Turns : Whole(seen[u])'
  BY <1>1, <1>5 DEF Begin, IInv, SeenStored, Whole
<1> QED
  BY <1>3, <1>4, <1>6 DEF IInv

LEMMA CompleteInv ==
  ASSUME IInv, NEW t \in Turns, Complete(t)
  PROVE  IInv'
<1>1. Answers(t) \subseteq Contexts
  BY DEF Answers, Contexts, IInv, TypeOK
<1>2. {t} \X Roles \subseteq Messages
  BY DEF Messages
<1>3. TypeOK'
  BY <1>1, <1>2 DEF Complete, IInv, TypeOK
<1>4. \A u \in Turns, q \in Roles : <<u, q>> \in rows' <=> u = t \/ <<u, q>> \in rows
  BY DEF Complete
<1>5. StoredWhole'
  BY <1>4 DEF Complete, IInv, TypeOK, StoredWhole, Roles
<1>6. StartsApart'
  BY DEF Complete, IInv, TypeOK, StartsApart
<1>7. SeenStored' /\ \A u \in Turns : Whole(seen[u])'
  BY DEF Complete, IInv, SeenStored, Whole
<1> QED
  BY <1>3, <1>5, <1>6, <1>7 DEF IInv

LEMMA FailInv ==
  ASSUME IInv, NEW t \in Turns, Fail(t)
  PROVE  IInv'
<1>1. TypeOK' /\ StoredWhole' /\ StartsApart'
  BY DEF Fail, Pending, IInv, TypeOK, StoredWhole, StartsApart
<1>2. SeenStored' /\ \A u \in Turns : Whole(seen[u])'
  BY DEF Fail, IInv, SeenStored, Whole
<1> QED
  BY <1>1, <1>2 DEF IInv

LEMMA NextInv == IInv /\ [Next]_vars => IInv'
<1>1. IInv /\ UNCHANGED vars => IInv'
  BY DEF vars, IInv, TypeOK, StoredWhole, StartsApart, SeenStored, Whole
<1> QED
  BY <1>1, OpenInv, BeginInv, CompleteInv, FailInv DEF Next

\* What the properties of concurrent turns rest on: a turn is stored as a
\* whole, at its own time, and reads only what is stored.
THEOREM ConversationInvariant == Spec => []IInv
BY InitInv, NextInv, PTL DEF Spec

\* However many turns of a conversation run at once, and whatever the limit,
\* the history a turn reads has no question without its answer; if the limit
\* is even, neither has what reaches the rewriting of the question.
THEOREM WholeTurnsHold == Spec => []WholeTurns
<1>1. ASSUME IInv PROVE WholeTurns
  <2> SUFFICES ASSUME NEW t \in Turns, HistoryLimit % 2 = 0
               PROVE  Whole(Prompt(t))
    BY <1>1 DEF WholeTurns, IInv
  <2>1. PICK k \in Nat : HistoryLimit = 2 * k
    BY ChatAssumption
  <2>2. seen[t] \subseteq rows /\ seen[t] \in SUBSET Messages /\ Whole(seen[t])
    BY <1>1 DEF IInv, SeenStored, TypeOK
  <2>3. Apart(seen[t])
    BY <1>1, <2>2, RowsWhole DEF IInv
  <2>4. Whole(Newest(seen[t], 2 * k))
    BY <1>1, <2>2, <2>3, NewestWhole DEF IInv
  <2> QED
    BY <2>1, <2>4 DEF Prompt
<1> QED
  BY <1>1, ConversationInvariant, PTL

----------------------------------------------------------------------------
(* Conversations whose client waits. *)

\* A later message outranks an earlier one.
LEMMA LaterOutranks ==
  ASSUME TypeOK, NEW t \in Turns, NEW u \in Turns, NEW q, NEW p, at[u] < at[t]
  PROVE  Rank(<<u, q>>) < Rank(<<t, p>>)
<1>1. PICK m \in Nat, n \in Nat : m = at[u] /\ n = at[t]
  BY DEF TypeOK
<1>2. Rank(<<u, q>>) \in {2 * m, 2 * m + 1} /\ Rank(<<t, p>>) \in {2 * n, 2 * n + 1}
  BY <1>1 DEF Rank
<1>3. m < n
  BY <1>1
<1> QED
  BY <1>2, <1>3

LEMMA RankType ==
  ASSUME TypeOK, NEW r \in Messages
  PROVE  Rank(r) \in Nat
BY DEF TypeOK, Rank, Messages, Roles

LEMMA MessagesFinite == IsFiniteSet(Messages)
<1>1. IsFiniteSet({"user"}) /\ Roles = {"user"} \cup {"assistant"}
  BY FS_Singleton DEF Roles
<1>2. IsFiniteSet(Roles)
  BY <1>1, FS_AddElement
<1> QED
  BY <1>2, FS_Product, ChatAssumption DEF Messages

\* The messages read are the newest: none that is newer is left out.
LEMMA NewestClosed ==
  ASSUME TypeOK, NEW S \in SUBSET Messages, NEW n \in Nat,
         NEW r \in Newest(S, n), NEW x \in S, Rank(r) < Rank(x)
  PROVE  x \in Newest(S, n)
<1> DEFINE Above(y) == {z \in S : Rank(z) > Rank(y)}
<1>1. \A z \in S : Rank(z) \in Nat
  BY RankType
<1>2. Above(x) \subseteq Above(r)
  BY <1>1 DEF Newest
<1>3. IsFiniteSet(Above(r))
  BY MessagesFinite, FS_Subset
<1>4. Cardinality(Above(x)) <= Cardinality(Above(r)) /\ IsFiniteSet(Above(x))
  BY <1>2, <1>3, FS_Subset
<1>5. Cardinality(Above(r)) < n
  BY DEF Newest
<1>6. Cardinality(Above(x)) \in Nat /\ Cardinality(Above(r)) \in Nat
  BY <1>3, <1>4, FS_CardinalityType
<1> HIDE DEF Above
<1>7. Cardinality(Above(x)) < n
  BY <1>4, <1>5, <1>6
<1> QED
  BY <1>7 DEF Newest, Above

\* The newest stored turn of a conversation is always read.
LEMMA LatestRead ==
  ASSUME IInv, HistoryLimit > 0, NEW c \in Conversations,
         NEW t \in Turns, NewestOf(t, Stored(c))
  PROVE  <<t, "assistant">> \in RecentMessages(c)
<1> DEFINE S == MessagesOf(c)
           other == IF first[t] = "user" THEN "assistant" ELSE "user"
           high  == <<t, other>>
<1>1. S \subseteq Messages
  BY DEF MessagesOf, IInv, TypeOK
<1>2. other \in Roles /\ first[t] # other /\ first[t] \in Roles
  BY DEF IInv, TypeOK, Roles
<1>3. <<t, "user">> \in S /\ <<t, "assistant">> \in S
  BY DEF MessagesOf, IInv, StoredWhole, NewestOf, Stored
<1>4. high \in S
  BY <1>2, <1>3 DEF Roles
<1>5. ASSUME NEW u \in Turns, NEW q \in Roles, <<u, q>> \in S
      PROVE  ~(Rank(<<u, q>>) > Rank(high))
  <2>1. u \in Stored(c)
    BY <1>5 DEF Stored, MessagesOf, IInv, StoredWhole, Roles
  <2>2. at[u] <= at[t] /\ at[u] \in Nat /\ at[t] \in Nat
    BY <2>1 DEF NewestOf, IInv, TypeOK
  <2>3. Rank(<<u, q>>) \in Nat /\ Rank(high) \in Nat
    BY <1>1, <1>4, <1>5, RankType DEF IInv
  <2>4. CASE u = t
    BY <2>2, <2>4, <1>2 DEF Rank
  <2>5. CASE u # t
    <3>1. at[u] # at[t]
      BY <2>1, <2>5 DEF Stored, IInv, StartsApart
    <3> HIDE DEF high
    <3>2. Rank(<<u, q>>) < Rank(high)
      BY <2>2, <3>1, LaterOutranks DEF high, IInv
    <3> QED
      BY <2>3, <3>2
  <2> QED
    BY <2>4, <2>5
<1>6. {x \in S : Rank(x) > Rank(high)} = {}
  BY <1>1, <1>5 DEF Messages
<1>7. high \in Newest(S, 2 * HistoryLimit)
  <2>1. Cardinality({x \in S : Rank(x) > Rank(high)}) = 0
    BY <1>6, FS_EmptySet
  <2>2. 0 < 2 * HistoryLimit
    BY ChatAssumption
  <2> HIDE DEF S, high
  <2> QED
    BY <2>1, <2>2, <1>4 DEF Newest
<1>8. high \in RecentMessages(c) /\ Whole(RecentMessages(c))
  BY <1>7, RecentWhole DEF RecentMessages, IInv
<1> QED
  BY <1>2, <1>8 DEF Whole, Roles

\* If every stored answer carries the newest reference up to its own, the
\* context restored from the newest messages is the latest of all.
LEMMA RestoredIsLatest ==
  ASSUME IInv, CarriesLatest, HistoryLimit > 0, NEW c \in Serial
  PROVE  LET x == Restored(RecentMessages(c))
         IN  /\ \/ Found(c) = {} /\ x.ref = None
                \/ NewestOf(x.ref, Found(c))
             /\ x.calc = None \/ NewestOf(x.calc, Computed(c))
<1> DEFINE S == RecentMessages(c)
           x == Restored(S)
           answers == {t \in Turns : <<t, "assistant">> \in S /\ context[t] # Empty}
<1>0. c \in Conversations
  BY ChatAssumption
<1>1. S \subseteq MessagesOf(c) /\ S \in SUBSET Messages
  BY DEF RecentMessages, Newest, MessagesOf, IInv, TypeOK
<1>2. \A t \in answers : t \in Stored(c)
  BY <1>1 DEF MessagesOf, Stored, IInv, StoredWhole
<1>3. ASSUME NEW u \in Stored(c), NEW v \in answers, context[u] # Empty, at[v] < at[u]
      PROVE  u \in answers
  <2>1. u \in Turns /\ v \in Turns /\ <<v, "assistant">> \in S
    BY DEF Stored
  <2>2. <<u, "assistant">> \in MessagesOf(c)
    BY DEF Stored, MessagesOf, IInv, StoredWhole
  <2>3. Rank(<<v, "assistant">>) < Rank(<<u, "assistant">>)
    BY <1>3, <2>1, LaterOutranks DEF IInv
  <2>4. MessagesOf(c) \in SUBSET Messages /\ 2 * HistoryLimit \in Nat
    BY ChatAssumption DEF MessagesOf, IInv, TypeOK
  <2>5. <<u, "assistant">> \in Newest(MessagesOf(c), 2 * HistoryLimit)
    BY <2>1, <2>2, <2>3, <2>4, NewestClosed DEF RecentMessages, IInv
  <2> QED
    BY <1>3, <2>1, <2>5 DEF RecentMessages
<1>4. /\ Found(c) \subseteq Stored(c) /\ Computed(c) \subseteq Stored(c)
      /\ \A u \in Found(c) \cup Computed(c) : context[u] # Empty
  BY ChatAssumption DEF Found, Computed, Stored, Empty
<1>5. \A t \in Turns : at[t] \in Nat
  BY DEF IInv, TypeOK
<1>6. CASE answers = {}
  <2>1. x = Empty
    BY <1>1, <1>6, RestoredIs DEF IInv, NewestOf
  <2>2. Found(c) = {}
    <3>1. CASE Stored(c) = {}
      BY <3>1, <1>4
    <3>2. CASE Stored(c) # {}
      <4>1. Stored(c) \subseteq Turns
        BY DEF Stored
      <4>2. PICK u \in Stored(c) : NewestOf(u, Stored(c))
        BY <3>2, <4>1, SomeNewest DEF IInv
      <4>3. context[u] = Empty
        BY <4>1, <4>2, <1>0, <1>6, LatestRead
      <4>4. UpTo(u, Found(c)) = {}
        <5>1. None \notin UpTo(u, Found(c))
          BY ChatAssumption DEF UpTo, Found, Stored
        <5> QED
          BY <4>2, <4>3, <5>1 DEF CarriesLatest, Stored, Empty, NewestOf
      <4> QED
        BY <4>2, <4>4, <1>4 DEF UpTo, NewestOf
    <3> QED
      BY <3>1, <3>2
  <2> QED
    BY <2>1, <2>2 DEF Empty
<1>7. CASE answers # {}
  <2>1. PICK v \in Turns : NewestOf(v, answers) /\ x = context[v]
    BY <1>1, <1>7, RestoredIs DEF IInv
  <2>2. v \in Stored(c)
    BY <1>2, <2>1 DEF NewestOf
  <2>3. \A u \in Found(c) \cup Computed(c) : at[u] <= at[v]
    <3> SUFFICES ASSUME NEW u \in Found(c) \cup Computed(c), at[v] < at[u]
                 PROVE  FALSE
      BY <1>4, <1>5, <2>1 DEF Stored
    <3>1. u \in answers
      BY <1>3, <1>4, <2>1 DEF NewestOf
    <3>2. u \in Turns /\ at[u] <= at[v]
      BY <2>1, <3>1 DEF NewestOf
    <3> QED
      BY <3>2, <1>5
  <2>4. UpTo(v, Found(c)) = Found(c) /\ UpTo(v, Computed(c)) = Computed(c)
    BY <2>3 DEF UpTo
  <2> QED
    BY <2>1, <2>2, <2>4 DEF CarriesLatest, Stored
<1> QED
  BY <1>6, <1>7

----------------------------------------------------------------------------
\* A step that stores no answer leaves what is carried as it was.
LEMMA StoredKept ==
  ASSUME CarriesLatest,
         \A u \in Turns : step[u] = "stored" <=> step'[u] = "stored",
         \A u \in Turns : step[u] = "stored" =>
           conv'[u] = conv[u] /\ at'[u] = at[u] /\ context'[u] = context[u]
  PROVE  /\ CarriesLatest'
         /\ \A c : Found(c)' = Found(c) /\ Computed(c)' = Computed(c)
         /\ \A c, x : /\ NewestOf(x, Found(c)) => NewestOf(x, Found(c))'
                      /\ NewestOf(x, Computed(c)) => NewestOf(x, Computed(c))'
<1>1. \A c : /\ Found(c)' = Found(c) /\ Found(c) \subseteq Turns
             /\ \A u \in Found(c) : at'[u] = at[u]
  BY DEF Found, Stored
<1>2. \A c : /\ Computed(c)' = Computed(c) /\ Computed(c) \subseteq Turns
             /\ \A u \in Computed(c) : at'[u] = at[u]
  BY DEF Computed, Stored
<1>3. \A c, x : /\ NewestOf(x, Found(c)) => NewestOf(x, Found(c))'
                /\ NewestOf(x, Computed(c)) => NewestOf(x, Computed(c))'
  BY <1>1, <1>2 DEF NewestOf
<1>4. ASSUME HistoryLimit > 0, NEW t \in Turns, step'[t] = "stored", conv'[t] \in Serial
      PROVE  /\ \/ UpTo(t, Found(conv[t]))' = {} /\ context'[t].ref = None
                \/ NewestOf(context[t].ref, UpTo(t, Found(conv[t])))'
             /\ \/ context'[t].calc = None
                \/ NewestOf(context[t].calc, UpTo(t, Computed(conv[t])))'
  <2>1. /\ step[t] = "stored" /\ conv'[t] = conv[t]
        /\ at'[t] = at[t] /\ context'[t] = context[t]
    BY <1>4
  <2> DEFINE F == Found(conv[t])
             C == Computed(conv[t])
  <2>2. /\ F' = F /\ \A u \in F : at'[u] = at[u]
        /\ C' = C /\ \A u \in C : at'[u] = at[u]
    BY <2>1 DEF Found, Computed, Stored
  <2>3. /\ UpTo(t, F)' = UpTo(t, F) /\ \A u \in UpTo(t, F) : at'[u] = at[u]
        /\ UpTo(t, C)' = UpTo(t, C) /\ \A u \in UpTo(t, C) : at'[u] = at[u]
    BY <2>1, <2>2 DEF UpTo
  <2>4. /\ \/ UpTo(t, F) = {} /\ context[t].ref = None
           \/ NewestOf(context[t].ref, UpTo(t, F))
        /\ context[t].calc = None \/ NewestOf(context[t].calc, UpTo(t, C))
    BY <1>4, <2>1 DEF CarriesLatest
  <2> QED
    BY <2>1, <2>3, <2>4 DEF NewestOf
<1> QED
  BY <1>1, <1>2, <1>3, <1>4 DEF CarriesLatest

LEMMA OpenSerial ==
  ASSUME SerialInv, NEW t \in Turns, NEW c \in Conversations, Open(t, c)
  PROVE  SerialInv'
<1>1. IInv'
  BY OpenInv DEF SerialInv
<1>2. /\ step[t] = "new" /\ clock \in Nat
      /\ c \in Serial => \A u \in Turns : conv[u] = c => ~Pending(u)
      /\ \A u \in Turns : at[u] \in Nat /\ at[u] <= clock
      /\ \A u \in Turns : step'[u] = IF u = t THEN "opened" ELSE step[u]
      /\ \A u \in Turns : conv'[u] = IF u = t THEN c ELSE conv[u]
      /\ \A u \in Turns : at'[u] = IF u = t THEN clock + 1 ELSE at[u]
      /\ context' = context /\ given' = given
  BY DEF Open, SerialInv, IInv, TypeOK, StartsApart
<1>3. OnePending'
  <2> SUFFICES ASSUME NEW a \in Turns, NEW b \in Turns,
                      Pending(a)', conv'[a] \in Serial, conv'[b] = conv'[a], b # a
               PROVE  ~Pending(b)' /\ (step'[b] = "stored" => at'[b] < at'[a])
    BY DEF OnePending
  <2>1. CASE a = t
    BY <2>1, <1>2 DEF Pending
  <2>2. CASE b = t
    BY <2>2, <1>2 DEF Pending
  <2>3. CASE a # t /\ b # t
    BY <2>3, <1>2 DEF Pending, SerialInv, OnePending
  <2> QED
    BY <2>1, <2>2, <2>3
<1>4. /\ CarriesLatest'
      /\ \A d : Found(d)' = Found(d) /\ Computed(d)' = Computed(d)
      /\ \A d, x : /\ NewestOf(x, Found(d)) => NewestOf(x, Found(d))'
                   /\ NewestOf(x, Computed(d)) => NewestOf(x, Computed(d))'
  BY <1>2, StoredKept DEF SerialInv
<1>5. SerialLatest'
  BY <1>2, <1>4 DEF SerialInv, SerialLatest, LatestIn
<1> QED
  BY <1>1, <1>3, <1>4, <1>5 DEF SerialInv

LEMMA BeginSerial ==
  ASSUME SerialInv, NEW t \in Turns, Begin(t)
  PROVE  SerialInv'
<1> DEFINE x == Restored(RecentMessages(conv[t]))
<1>1. IInv'
  BY BeginInv DEF SerialInv
<1>2. /\ step[t] = "opened"
      /\ \A u \in Turns : step'[u] = IF u = t THEN "begun" ELSE step[u]
      /\ \A u \in Turns : given'[u] = IF u = t THEN x ELSE given[u]
      /\ conv' = conv /\ at' = at /\ context' = context
  BY DEF Begin, SerialInv, IInv, TypeOK
<1>3. OnePending'
  BY <1>2 DEF SerialInv, OnePending, Pending
<1>4. /\ CarriesLatest'
      /\ \A d : Found(d)' = Found(d) /\ Computed(d)' = Computed(d)
      /\ \A d, y : /\ NewestOf(y, Found(d)) => NewestOf(y, Found(d))'
                   /\ NewestOf(y, Computed(d)) => NewestOf(y, Computed(d))'
  BY <1>2, StoredKept DEF SerialInv
<1>6. HistoryLimit > 0 /\ conv[t] \in Serial =>
        /\ \/ Found(conv[t]) = {} /\ x.ref = None
           \/ NewestOf(x.ref, Found(conv[t]))
        /\ x.calc = None \/ NewestOf(x.calc, Computed(conv[t]))
  BY RestoredIsLatest DEF SerialInv
<1> HIDE DEF x
<1>7. SerialLatest'
  <2> SUFFICES ASSUME HistoryLimit > 0, NEW u \in Turns, step'[u] = "begun", conv'[u] \in Serial
               PROVE  /\ \/ Found(conv[u])' = {} /\ given'[u].ref = None
                         \/ NewestOf(given[u].ref, Found(conv[u]))'
                      /\ given'[u].calc = None \/ NewestOf(given[u].calc, Computed(conv[u]))'
    BY DEF SerialLatest, LatestIn
  <2>1. CASE u = t
    BY <2>1, <1>2, <1>4, <1>6
  <2>2. CASE u # t
    BY <2>2, <1>2, <1>4 DEF SerialInv, SerialLatest, LatestIn
  <2> QED
    BY <2>1, <2>2
<1> QED
  BY <1>1, <1>3, <1>4, <1>7 DEF SerialInv

LEMMA FailSerial ==
  ASSUME SerialInv, NEW t \in Turns, Fail(t)
  PROVE  SerialInv'
<1>1. IInv'
  BY FailInv DEF SerialInv
<1>2. /\ Pending(t)
      /\ \A u \in Turns : step'[u] = IF u = t THEN "failed" ELSE step[u]
      /\ conv' = conv /\ at' = at /\ context' = context /\ given' = given
  BY DEF Fail, SerialInv, IInv, TypeOK
<1>3. OnePending'
  BY <1>2 DEF SerialInv, OnePending, Pending
<1>4. /\ CarriesLatest'
      /\ \A d : Found(d)' = Found(d) /\ Computed(d)' = Computed(d)
      /\ \A d, y : /\ NewestOf(y, Found(d)) => NewestOf(y, Found(d))'
                   /\ NewestOf(y, Computed(d)) => NewestOf(y, Computed(d))'
  BY <1>2, StoredKept DEF SerialInv, Pending
<1>5. SerialLatest'
  BY <1>2, <1>4 DEF SerialInv, SerialLatest, LatestIn
<1> QED
  BY <1>1, <1>3, <1>4, <1>5 DEF SerialInv

\* The answer of the only pending turn is the newest of its conversation: it
\* carries its own reference or the one it was given.
LEMMA CompleteSerial ==
  ASSUME SerialInv, NEW t \in Turns, Complete(t)
  PROVE  SerialInv'
<1>1. IInv'
  BY CompleteInv DEF SerialInv
<1>2. PICK x \in Answers(t) :
        /\ \A u \in Turns : context'[u] = IF u = t THEN x ELSE context[u]
        /\ step[t] = "begun"
        /\ \A u \in Turns : step'[u] = IF u = t THEN "stored" ELSE step[u]
        /\ conv' = conv /\ at' = at /\ given' = given
  BY DEF Complete, SerialInv, IInv, TypeOK
<1> DEFINE c == conv[t]
           F == Found(c)
           C == Computed(c)
<1>3. /\ x.ref = t \/ x.ref = given[t].ref
      /\ x.calc = t \/ x.calc = None \/ x.calc = given[t].calc
  BY DEF Answers
<1>4. OnePending'
  <2> SUFFICES ASSUME NEW a \in Turns, NEW b \in Turns,
                      Pending(a)', conv'[a] \in Serial, conv'[b] = conv'[a], b # a
               PROVE  ~Pending(b)' /\ (step'[b] = "stored" => at'[b] < at'[a])
    BY DEF OnePending
  <2>1. a # t /\ Pending(a) /\ conv[a] \in Serial /\ conv[b] = conv[a] /\ Pending(t)
    BY <1>2 DEF Pending
  <2>2. b # t
    BY <2>1 DEF SerialInv, OnePending
  <2> QED
    BY <2>1, <2>2, <1>2 DEF Pending, SerialInv, OnePending
<1>5. c \in Serial =>
        \A u \in Turns : step[u] = "stored" /\ conv[u] = c => at[u] < at[t] /\ u # t
  BY <1>2 DEF SerialInv, OnePending, Pending
<1>6. /\ \A d : d # c => Found(d)' = Found(d) /\ Computed(d)' = Computed(d)
      /\ F \subseteq Turns /\ C \subseteq Turns /\ t \notin F /\ t \notin C
      /\ c \in Serial => \A u \in F \cup C : at[u] < at[t]
      /\ F' = IF x.ref = t THEN F \cup {t} ELSE F
      /\ C' = IF x.calc = t THEN C \cup {t} ELSE C
  BY <1>2, <1>5 DEF Found, Computed, Stored
<1>7. \A u \in Turns : at[u] \in Nat
  BY DEF SerialInv, IInv, TypeOK
<1>8. CarriesLatest'
  <2> SUFFICES ASSUME HistoryLimit > 0, NEW u \in Turns, step'[u] = "stored", conv'[u] \in Serial
               PROVE  /\ \/ UpTo(u, Found(conv[u]))' = {} /\ context'[u].ref = None
                         \/ NewestOf(context[u].ref, UpTo(u, Found(conv[u])))'
                      /\ \/ context'[u].calc = None
                         \/ NewestOf(context[u].calc, UpTo(u, Computed(conv[u])))'
    BY DEF CarriesLatest
  <2>1. CASE u = t
    <3>0. c \in Serial
      BY <2>1, <1>2
    <3>1. /\ (F = {} /\ given[t].ref = None) \/ NewestOf(given[t].ref, F)
          /\ given[t].calc = None \/ NewestOf(given[t].calc, C)
      BY <3>0, <1>2 DEF SerialInv, SerialLatest, LatestIn
    <3>2. UpTo(t, F)' = F' /\ UpTo(t, C)' = C'
      BY <3>0, <1>2, <1>6, <1>7 DEF UpTo
    <3>3. (F' = {} /\ x.ref = None) \/ NewestOf(x.ref, F')
      BY <3>0, <1>3, <1>6, <1>7, <3>1 DEF NewestOf
    <3>4. x.calc = None \/ NewestOf(x.calc, C')
      BY <3>0, <1>3, <1>6, <1>7, <3>1 DEF NewestOf
    <3> QED
      BY <2>1, <3>2, <3>3, <3>4, <1>2 DEF NewestOf
  <2>2. CASE u # t
    <3> DEFINE G == Found(conv[u])
               D == Computed(conv[u])
    <3>1. /\ step[u] = "stored" /\ context'[u] = context[u]
          /\ conv'[u] = conv[u] /\ at' = at /\ at[u] \in Nat
      BY <2>2, <1>2, <1>7
    <3>2. UpTo(u, G)' = UpTo(u, G) /\ UpTo(u, D)' = UpTo(u, D)
      <4>1. CASE conv[u] = c
        <5>1. at[u] < at[t] /\ at[t] \in Nat
          BY <4>1, <3>1, <1>5, <1>7
        <5>2. G = F /\ D = C /\ G' = F' /\ D' = C'
          BY <4>1, <1>2
        <5> QED
          BY <5>1, <5>2, <3>1, <1>6 DEF UpTo
      <4>2. CASE conv[u] # c
        <5>1. G' = G /\ D' = D
          BY <4>2, <1>2, <1>6
        <5> QED
          BY <5>1, <3>1 DEF UpTo
      <4> QED
        BY <4>1, <4>2
    <3>3. /\ \/ UpTo(u, G) = {} /\ context[u].ref = None
             \/ NewestOf(context[u].ref, UpTo(u, G))
          /\ context[u].calc = None \/ NewestOf(context[u].calc, UpTo(u, D))
      BY <3>1 DEF SerialInv, CarriesLatest
    <3> QED
      BY <3>1, <3>2, <3>3 DEF NewestOf
  <2> QED
    BY <2>1, <2>2
<1>9. SerialLatest'
  <2> SUFFICES ASSUME HistoryLimit > 0, NEW u \in Turns, step'[u] = "begun", conv'[u] \in Serial
               PROVE  /\ \/ Found(conv[u])' = {} /\ given'[u].ref = None
                         \/ NewestOf(given[u].ref, Found(conv[u]))'
                      /\ given'[u].calc = None \/ NewestOf(given[u].calc, Computed(conv[u]))'
    BY DEF SerialLatest, LatestIn
  <2>1. u # t /\ step[u] = "begun" /\ conv[u] \in Serial /\ conv[u] # c
    BY <1>2 DEF SerialInv, OnePending, Pending
  <2>2. Found(conv[u])' = Found(conv[u]) /\ Computed(conv[u])' = Computed(conv[u])
    BY <2>1, <1>2, <1>6
  <2>3. /\ \/ Found(conv[u]) = {} /\ given[u].ref = None
           \/ NewestOf(given[u].ref, Found(conv[u]))
        /\ given[u].calc = None \/ NewestOf(given[u].calc, Computed(conv[u]))
    BY <2>1 DEF SerialInv, SerialLatest, LatestIn
  <2> QED
    BY <2>2, <2>3, <1>2 DEF NewestOf
<1> QED
  BY <1>1, <1>4, <1>8, <1>9 DEF SerialInv

LEMMA NextSerial == SerialInv /\ [Next]_vars => SerialInv'
<1>1. SerialInv /\ UNCHANGED vars => SerialInv'
  BY NextInv DEF vars, SerialInv, OnePending, Pending, CarriesLatest,
     SerialLatest, LatestIn, Found, Computed, Stored, UpTo, NewestOf
<1> QED
  BY <1>1, OpenSerial, BeginSerial, CompleteSerial, FailSerial DEF Next

\* What the restored context rests on where clients wait for their answers:
\* one pending turn per conversation, and answers that carry on the latest,
\* whatever goes on in the other conversations.
THEOREM SerialInvariant == Spec => []SerialInv
<1>1. Init => SerialInv
  BY InitInv DEF Init, SerialInv, OnePending, CarriesLatest, SerialLatest,
     LatestIn, Pending
<1> QED
  BY <1>1, NextSerial, PTL DEF Spec

\* However long the conversation and whatever the limit, a turn whose client
\* waits continues from the last contract its conversation was about.
THEOREM SerialLatestHolds == Spec => []SerialLatest
<1>1. SerialInv => SerialLatest
  BY DEF SerialInv
<1> QED
  BY <1>1, SerialInvariant, PTL
=============================================================================
