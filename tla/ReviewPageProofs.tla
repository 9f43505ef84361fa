---------------------------- MODULE ReviewPageProofs ----------------------------
(***************************************************************************)
(* Proofs about ReviewPage, for any pages and any patience.                *)
(***************************************************************************)
EXTENDS ReviewPage, FiniteSetTheorems, TLAPS

\* Neither invariant is inductive without the other.
Inv == ReviewInv /\ OwnContract

Asked == IsFiniteSet(Pending) /\ runs + Cardinality(Pending) <= asked

----------------------------------------------------------------------------
(* Counting requests *)

LEMMA Counted ==
  ASSUME IsFiniteSet(Pending), runs \in Nat, asked \in Nat, runs + Cardinality(Pending) <= asked,
         runs' = runs, asked' \in Nat, asked <= asked', Pending' \subseteq Pending
  PROVE  Asked'
<1>1. IsFiniteSet(Pending') /\ Cardinality(Pending') <= Cardinality(Pending)
  BY FS_Subset
<1>2. Cardinality(Pending) \in Nat /\ Cardinality(Pending') \in Nat
  BY <1>1, FS_CardinalityType
<1> QED
  BY <1>1, <1>2 DEF Asked

LEMMA CountedSent ==
  ASSUME IsFiniteSet(Pending), runs \in Nat, asked \in Nat, runs + Cardinality(Pending) <= asked,
         runs' = runs, asked' = asked + 1, NEW c, Pending' \subseteq Pending \cup {c}
  PROVE  Asked'
<1> DEFINE more == Pending \cup {c}
<1>1. /\ IsFiniteSet(more)
      /\ Cardinality(more) = Cardinality(Pending) \/ Cardinality(more) = Cardinality(Pending) + 1
  BY FS_AddElement
<1>2. IsFiniteSet(Pending') /\ Cardinality(Pending') <= Cardinality(more)
  BY <1>1, FS_Subset
<1>3. Cardinality(Pending) \in Nat /\ Cardinality(Pending') \in Nat /\ Cardinality(more) \in Nat
  BY <1>1, <1>2, FS_CardinalityType
<1> QED
  BY <1>1, <1>2, <1>3 DEF Asked

LEMMA CountedServed ==
  ASSUME IsFiniteSet(Pending), runs \in Nat, asked \in Nat, runs + Cardinality(Pending) <= asked,
         runs' = runs + 1, asked' = asked, NEW c \in Pending, Pending' \subseteq Pending \ {c}
  PROVE  Asked'
<1> DEFINE less == Pending \ {c}
<1>1. IsFiniteSet(less) /\ Cardinality(less) = Cardinality(Pending) - 1
  BY FS_RemoveElement
<1>2. IsFiniteSet(Pending') /\ Cardinality(Pending') <= Cardinality(less)
  BY <1>1, FS_Subset
<1>3. Cardinality(Pending) \in Nat /\ Cardinality(Pending') \in Nat /\ Cardinality(less) \in Nat
  BY <1>1, <1>2, FS_CardinalityType
<1> QED
  BY <1>1, <1>2, <1>3 DEF Asked

----------------------------------------------------------------------------
(* Steps *)

LEMMA PageIs ==
  ASSUME Inv, NEW p \in Pages
  PROVE  /\ page[p] \in PageStates
         /\ page[p].doc \in Statuses \cup {None} /\ page[p].waited \in 0 .. Patience
         /\ <<p, "load">> \in Calls /\ <<p, "retry">> \in Calls /\ <<p, "confirm">> \in Calls
         /\ p # "flow"
BY ReviewAssumption DEF Inv, ReviewInv, TypeOK, PageStates, Calls, Slots

LEMMA CallIs ==
  ASSUME Inv, NEW c \in Calls
  PROVE  /\ call[c] \in CallStates
         /\ call[c].op \in {"idle", "get", "analyze", "confirm"}
         /\ call[c].reply \in Statuses \cup {None, "ok", "error"}
         /\ call[c] = Idle <=> call[c].op = "idle" /\ call[c].reply = None
BY DEF Inv, ReviewInv, TypeOK, CallStates, Idle

\* What a page or the flow may do to the requests.
Quiet(c) ==
  call'[c] \in {call[c], Idle, [op |-> "get", reply |-> None],
                [op |-> call[c].op, reply |-> "error"]}

LEMMA Quiets ==
  ASSUME Inv, NEW c \in Calls, Quiet(c)
  PROVE  /\ call'[c].op = "analyze" /\ call'[c].reply = None => c \in Pending
         /\ call'[c].op = "confirm" => c[1] \in Pages
         /\ call'[c].reply = "ok" =>
              call'[c].op = "confirm" /\ status = "CONFIRMED" /\ contract = c[1]
         /\ call'[c] \in CallStates
<1>1. /\ call[c].op = "confirm" => c[1] \in Pages
      /\ call[c].reply = "ok" => call[c].op = "confirm" /\ status = "CONFIRMED" /\ contract = c[1]
  BY DEF Inv, ReviewInv, Confirmations
<1>2. None \notin {"ok", "error"}
  BY ReviewAssumption
<1>3. CASE call'[c] = call[c]
  BY <1>1, <1>3, CallIs DEF Pending
<1>4. CASE call'[c] = Idle
  BY <1>2, <1>4 DEF Idle, CallStates
<1>5. CASE call'[c] = [op |-> "get", reply |-> None]
  BY <1>2, <1>5 DEF CallStates
<1>6. CASE call'[c] = [op |-> call[c].op, reply |-> "error"]
  BY <1>1, <1>2, <1>6, CallIs DEF CallStates
<1> QED
  BY <1>3, <1>4, <1>5, <1>6 DEF Quiet

\* A step of the browser: at most one request for an analysis is sent, and
\* that is counted; only an answer "ok" takes a page to the contract.
LEMMA BrowserKeeps ==
  ASSUME Inv, UNCHANGED server, flow' \in {"starting", "failed", "over"}, lost' \in 0 .. MaxLost,
         page' \in [Pages -> PageStates], DOMAIN call' = Calls, call' = [c \in Calls |-> call'[c]],
         asked' \in Nat, asked <= asked', NEW sent \in Calls, \A c \in Calls \ {sent} : Quiet(c),
         \/ Quiet(sent)
         \/ call'[sent] = [op |-> "analyze", reply |-> None] /\ asked' = asked + 1
         \/ call'[sent] = [op |-> "confirm", reply |-> None] /\ sent[1] \in Pages,
         \A p \in Pages : page'[p].at = "contract" =>
           page[p].at = "contract" \/ call[<<p, "confirm">>].reply = "ok",
         Waits'
  PROVE  Inv'
<1>1. /\ status \in Statuses /\ runs \in 0 .. MaxRuns /\ contract \in Pages \cup {None}
      /\ asked \in Nat /\ MaxRuns \in Nat /\ IsFiniteSet(Pending)
      /\ runs + Cardinality(Pending) <= asked
  BY ReviewAssumption DEF Inv, ReviewInv, TypeOK
<1>2. None \notin {"ok", "error"}
  BY ReviewAssumption
<1>3. ASSUME NEW c \in Calls
      PROVE  /\ call'[c] \in CallStates
             /\ call'[c].op = "confirm" => c[1] \in Pages
             /\ call'[c].reply = "ok" =>
                  call'[c].op = "confirm" /\ status = "CONFIRMED" /\ contract = c[1]
             /\ call'[c].op = "analyze" /\ call'[c].reply = None =>
                  c \in Pending \/ (c = sent /\ asked' = asked + 1)
  <2>1. CASE Quiet(c)
    BY <1>3, <2>1, Quiets
  <2>2. CASE ~Quiet(c) /\ call'[sent] = [op |-> "analyze", reply |-> None] /\ asked' = asked + 1
    BY <1>2, <2>2 DEF CallStates
  <2>3. CASE ~Quiet(c) /\ call'[sent] = [op |-> "confirm", reply |-> None] /\ sent[1] \in Pages
    BY <1>2, <2>3 DEF CallStates
  <2> QED
    BY <2>1, <2>2, <2>3
<1>4. TypeOK'
  BY <1>1, <1>3 DEF TypeOK, server
<1>5. Confirmations'
  BY <1>3 DEF Confirmations, server
<1>6. Asked'
  <2>1. runs' = runs /\ runs \in Nat
    BY <1>1 DEF server
  <2>2. CASE Pending' \subseteq Pending
    BY <1>1, <2>1, <2>2, Counted
  <2>3. CASE ~(Pending' \subseteq Pending)
    <3>1. Pending' \subseteq Pending \cup {sent} /\ asked' = asked + 1
      BY <1>3, <2>3 DEF Pending
    <3> QED
      BY <1>1, <2>1, <3>1, CountedSent
  <2> QED
    BY <2>2, <2>3
<1>7. OwnContract'
  <2>1. ASSUME NEW p \in Pages, page'[p].at = "contract"
        PROVE  status = "CONFIRMED" /\ contract = p
    BY <2>1, PageIs DEF Inv, OwnContract, ReviewInv, Confirmations
  <2> QED
    BY <2>1 DEF OwnContract, server
<1> QED
  BY <1>4, <1>5, <1>6, <1>7 DEF Inv, ReviewInv, Asked

\* A request is answered, with what the server says or because it was lost.
LEMMA ReplyIs ==
  ASSUME Inv, NEW c \in Calls, NEW reply, Reply(c, reply)
  PROVE  /\ DOMAIN call' = Calls /\ call' = [d \in Calls |-> call'[d]]
         /\ \A d \in Calls \ {c} : call'[d] = call[d]
         /\ call'[c] = [op |-> call[c].op, reply |-> reply]
              \/ (call'[c] = Idle /\ c[1] \in Pages /\ page[c[1]].at \in Gone)
<1>1. call \in [Calls -> CallStates]
  BY DEF Inv, ReviewInv, TypeOK
<1>2. [call[c] EXCEPT !.reply = reply] = [op |-> call[c].op, reply |-> reply]
  BY <1>1 DEF CallStates
<1> QED
  BY <1>1, <1>2 DEF Reply

\* It is then no request a page could be waiting to send.
LEMMA ReplyWaits ==
  ASSUME Inv, NEW c \in Calls, call[c].op # "idle", NEW reply, Reply(c, reply), page' = page
  PROVE  Waits'
<1> SUFFICES ASSUME NEW p \in Pages, page[p].at = "analyzing", call'[<<p, "load">>] = Idle
             PROVE  ~TimedOut(page[p].waited)
  BY DEF Waits, TimedOut
<1>1. call[<<p, "load">>] = Idle
  <2>1. ASSUME <<p, "load">> = c PROVE FALSE
    <3>1. [op |-> call[c].op, reply |-> reply] # Idle
      BY DEF Idle
    <3>2. c[1] = p
      BY <2>1
    <3>3. ~(page[c[1]].at \in Gone)
      BY <3>2 DEF Gone
    <3> QED
      BY <2>1, <3>1, <3>3, ReplyIs
  <2> QED
    BY <2>1, ReplyIs, PageIs
<1> QED
  BY <1>1 DEF Inv, ReviewInv, Waits

LEMMA LoseKeeps == ASSUME Inv, NEW c \in Calls, Lose(c) PROVE Inv'
<1>1. /\ call[c].op # "idle" /\ Reply(c, "error") /\ page' = page /\ flow' = flow
      /\ asked' = asked /\ UNCHANGED server /\ lost' = lost + 1 /\ lost < MaxLost
  BY DEF Lose
<1>2. /\ flow \in {"starting", "failed", "over"} /\ lost' \in 0 .. MaxLost
      /\ page \in [Pages -> PageStates] /\ asked \in Nat
  BY <1>1, ReviewAssumption DEF Inv, ReviewInv, TypeOK
<1>3. \A d \in Calls : Quiet(d)
  BY <1>1, ReplyIs DEF Quiet
<1>4. Waits'
  BY <1>1, ReplyWaits
<1>5. page' \in [Pages -> PageStates] /\ asked' \in Nat /\ asked <= asked'
      /\ flow' \in {"starting", "failed", "over"}
  BY <1>1, <1>2
<1>6. DOMAIN call' = Calls /\ call' = [d \in Calls |-> call'[d]]
  BY <1>1, ReplyIs
<1> QED
  BY <1>1, <1>2, <1>3, <1>4, <1>5, <1>6, BrowserKeeps

LEMMA ServeKeeps == ASSUME Inv, NEW c \in Calls, Serve(c) PROVE Inv'
<1>1. /\ call[c].reply = None /\ UNCHANGED <<flow, page, lost, asked>>
      /\ Get(c) \/ Analyze(c) \/ ConfirmDocument(c)
  BY DEF Serve
<1>2. /\ status \in Statuses /\ runs \in 0 .. MaxRuns /\ contract \in Pages \cup {None}
      /\ asked \in Nat /\ MaxRuns \in Nat /\ IsFiniteSet(Pending)
      /\ runs + Cardinality(Pending) <= asked
  BY ReviewAssumption DEF Inv, ReviewInv, TypeOK
<1>3. None \notin {"ok", "error"} \cup Statuses
  BY ReviewAssumption
<1>4. ASSUME NEW reply \in Statuses \cup {"ok", "error"}, Reply(c, reply), call[c].op # "idle",
             status' \in Statuses, runs' \in 0 .. MaxRuns, contract' \in Pages \cup {None},
             reply = "ok" => status' = "CONFIRMED" /\ contract' = c[1] /\ call[c].op = "confirm",
             status = "CONFIRMED" => status' = "CONFIRMED" /\ contract' = contract,
             \/ runs' = runs
             \/ runs' = runs + 1 /\ call[c].op = "analyze"
      PROVE  Inv'
  <2>1. \A d \in Calls \ {c} : call'[d] = call[d]
    BY <1>4, ReplyIs
  <2>2. \/ call'[c] = [op |-> call[c].op, reply |-> reply]
        \/ call'[c] = Idle
    BY <1>4, ReplyIs
  <2>3. /\ call'[c] \in CallStates
        /\ ~(call'[c].op = "analyze" /\ call'[c].reply = None)
        /\ call'[c].op = "confirm" => call[c].op = "confirm"
        /\ call'[c].reply = "ok" => reply = "ok" /\ call'[c].op = call[c].op
    BY <1>3, <1>4, <2>2, CallIs DEF CallStates, Idle
  <2>4. TypeOK'
    <3>1. call' \in [Calls -> CallStates]
      BY <1>4, <2>1, <2>3, ReplyIs, CallIs
    <3> QED
      BY <1>1, <1>4, <3>1 DEF Inv, ReviewInv, TypeOK
  <2>5. Confirmations'
    BY <1>4, <2>1, <2>3 DEF Inv, ReviewInv, Confirmations
  <2>6. Pending' \subseteq Pending \ {c}
    BY <2>1, <2>3 DEF Pending
  <2>7. Asked'
    <3>1. CASE runs' = runs
      BY <1>1, <1>2, <2>6, <3>1, Counted
    <3>2. CASE runs' = runs + 1 /\ call[c].op = "analyze"
      <4>1. c \in Pending
        BY <1>1, <3>2 DEF Pending
      <4> QED
        BY <1>1, <1>2, <2>6, <3>2, <4>1, CountedServed
    <3> QED
      BY <1>4, <3>1, <3>2
  <2>8. OwnContract'
    BY <1>1, <1>4 DEF Inv, OwnContract
  <2>9. Waits'
    BY <1>1, <1>4, ReplyWaits
  <2> QED
    BY <2>4, <2>5, <2>7, <2>8, <2>9 DEF Inv, ReviewInv, Asked
<1>5. CASE Get(c)
  BY <1>2, <1>4, <1>5 DEF Get, server, Statuses
<1>6. CASE Analyze(c)
  <2>1. CASE status \in {"UPLOADED", "FAILED"} /\ runs < MaxRuns
    <3>1. /\ call[c].op = "analyze" /\ status' = "PROCESSING" /\ runs' = runs + 1
          /\ contract' = contract /\ Reply(c, "PROCESSING")
      BY <1>6, <2>1 DEF Analyze
    <3>2. runs' \in 0 .. MaxRuns
      BY <1>2, <2>1, <3>1
    <3> QED
      BY <1>2, <1>4, <2>1, <3>1, <3>2 DEF Statuses
  <2>2. CASE ~(status \in {"UPLOADED", "FAILED"} /\ runs < MaxRuns)
    <3>1. /\ call[c].op = "analyze" /\ UNCHANGED <<status, runs, contract>>
          /\ Reply(c, "error")
      BY <1>6, <2>2 DEF Analyze
    <3> QED
      BY <1>2, <1>4, <3>1
  <2> QED
    BY <2>1, <2>2
<1>7. CASE ConfirmDocument(c)
  <2>1. call[c].op = "confirm" /\ runs' = runs /\ c[1] \in Pages
    BY <1>7 DEF ConfirmDocument, Inv, ReviewInv, Confirmations
  <2>2. CASE status \in Confirmable
    <3>1. status' = "CONFIRMED" /\ contract' = c[1] /\ Reply(c, "ok") /\ status # "CONFIRMED"
      BY <1>7, <2>2 DEF ConfirmDocument, Confirmable
    <3> QED
      BY <1>2, <1>4, <2>1, <3>1 DEF Statuses
  <2>3. CASE status \notin Confirmable
    <3>1. Reply(c, "error") /\ UNCHANGED <<status, contract>>
      BY <1>7, <2>3 DEF ConfirmDocument
    <3> QED
      BY <1>2, <1>4, <2>1, <3>1
  <2> QED
    BY <2>2, <2>3
<1> QED
  BY <1>1, <1>5, <1>6, <1>7

----------------------------------------------------------------------------
(* The browser *)

LEMMA OneCall ==
  ASSUME Inv, NEW c \in Calls, NEW x, call' = [call EXCEPT ![c] = x]
  PROVE  /\ DOMAIN call' = Calls /\ call' = [d \in Calls |-> call'[d]]
         /\ call'[c] = x /\ \A d \in Calls \ {c} : call'[d] = call[d] /\ Quiet(d)
<1>1. call \in [Calls -> CallStates]
  BY DEF Inv, ReviewInv, TypeOK
<1> QED
  BY <1>1 DEF Quiet

\* The states of a page.
LEMMA PageStateIs ==
  ASSUME NEW x \in PageStates, NEW waited \in 0 .. Patience
  PROVE  /\ [x EXCEPT !.waited = waited] \in PageStates
         /\ [x EXCEPT !.waited = waited].at = x.at
         /\ [x EXCEPT !.waited = waited].waited = waited
         /\ [x EXCEPT !.at = "loading", !.waited = waited] \in PageStates
         /\ [x EXCEPT !.at = "loading", !.waited = waited].at = "loading"
BY DEF PageStates

LEMMA OnePage ==
  ASSUME Inv, NEW p \in Pages, NEW x \in PageStates, page' = [page EXCEPT ![p] = x]
  PROVE  /\ page' \in [Pages -> PageStates] /\ page'[p] = x
         /\ \A q \in Pages \ {p} : page'[q] = page[q]
BY DEF Inv, ReviewInv, TypeOK

LEMMA WaitsKept ==
  ASSUME Inv, NEW p \in Pages,
         \A q \in Pages \ {p} :
           /\ page'[q] = page[q]
           /\ call'[<<q, "load">>] = Idle => call[<<q, "load">>] = Idle,
         page'[p].at = "analyzing" /\ call'[<<p, "load">>] = Idle => ~TimedOut(page'[p].waited)
  PROVE  Waits'
BY DEF Waits, TimedOut, Inv, ReviewInv

LEMMA FlowKeeps == ASSUME Inv, FlowAnswered \/ FlowRetry PROVE Inv'
<1> DEFINE c == <<"flow", "retry">>
<1>1. c \in Calls /\ \A p \in Pages : c # <<p, "load">>
  BY DEF Calls
<1>2. /\ page' = page /\ lost' = lost /\ UNCHANGED server
      /\ flow' \in {"starting", "failed", "over"}
  BY DEF FlowAnswered, FlowRetry
<1>3. page \in [Pages -> PageStates] /\ lost \in 0 .. MaxLost /\ asked \in Nat
  BY DEF Inv, ReviewInv, TypeOK
<1>4. \/ call' = [call EXCEPT ![c] = Idle] /\ asked' = asked
      \/ call' = [call EXCEPT ![c] = [op |-> "analyze", reply |-> None]] /\ asked' = asked + 1
  BY DEF FlowAnswered, FlowRetry, Send, Ask
<1> HIDE DEF c
<1>5. /\ DOMAIN call' = Calls /\ call' = [d \in Calls |-> call'[d]]
      /\ \A d \in Calls \ {c} : call'[d] = call[d] /\ Quiet(d)
      /\ \/ Quiet(c) /\ asked' = asked
         \/ call'[c] = [op |-> "analyze", reply |-> None] /\ asked' = asked + 1
  <2>1. CASE call' = [call EXCEPT ![c] = Idle] /\ asked' = asked
    BY <1>1, <2>1, OneCall DEF Quiet
  <2>2. CASE call' = [call EXCEPT ![c] = [op |-> "analyze", reply |-> None]] /\ asked' = asked + 1
    BY <1>1, <2>2, OneCall
  <2> QED
    BY <1>4, <2>1, <2>2
<1>6. Waits'
  <2>1. \A p \in Pages : call'[<<p, "load">>] = call[<<p, "load">>]
    BY <1>1, <1>5, PageIs
  <2> QED
    BY <1>2, <2>1 DEF Inv, ReviewInv, Waits, TimedOut
<1>7. /\ page' \in [Pages -> PageStates] /\ lost' \in 0 .. MaxLost
      /\ asked' \in Nat /\ asked <= asked'
  BY <1>2, <1>3, <1>5
<1> QED
  BY <1>1, <1>2, <1>5, <1>6, <1>7, BrowserKeeps

\* The effect asks for the document and forgets a repeated analysis.
LEMMA EffectKeeps ==
  ASSUME Inv, NEW p \in Pages, Effect(p), UNCHANGED <<server, flow, lost, asked>>
  PROVE  Inv'
<1> DEFINE load == <<p, "load">>
           retry == <<p, "retry">>
<1>1. load \in Calls /\ retry \in Calls /\ load # retry
  BY PageIs
<1>2. /\ call \in [Calls -> CallStates] /\ lost \in 0 .. MaxLost /\ asked \in Nat
      /\ flow \in {"starting", "failed", "over"}
  BY DEF Inv, ReviewInv, TypeOK
<1>3. /\ call' = [call EXCEPT ![load] = [op |-> "get", reply |-> None], ![retry] = Idle]
      /\ page' = [page EXCEPT ![p] = [page[p] EXCEPT !.at = "loading", !.waited = 0]]
  BY DEF Effect
<1>4. /\ page' \in [Pages -> PageStates] /\ page'[p].at = "loading"
      /\ \A q \in Pages \ {p} : page'[q] = page[q]
  <2> DEFINE x == [page[p] EXCEPT !.at = "loading", !.waited = 0]
  <2>1. x \in PageStates /\ x.at = "loading"
    <3>1. 0 \in 0 .. Patience
      BY ReviewAssumption
    <3> QED
      BY <3>1, PageIs, PageStateIs
  <2> QED
    BY <1>3, <2>1, OnePage
<1> HIDE DEF load, retry
<1>5. /\ DOMAIN call' = Calls /\ call' = [d \in Calls |-> call'[d]]
      /\ \A d \in Calls : Quiet(d)
      /\ \A d \in Calls \ {load, retry} : call'[d] = call[d]
  BY <1>1, <1>2, <1>3 DEF Quiet
<1>6. Waits'
  <2>1. \A q \in Pages \ {p} : call'[<<q, "load">>] = call[<<q, "load">>]
    <3>1. ASSUME NEW q \in Pages \ {p} PROVE <<q, "load">> \in Calls \ {load, retry}
      BY PageIs DEF load, retry
    <3> QED
      BY <1>5, <3>1
  <2> QED
    BY <1>4, <2>1, WaitsKept
<1>7. \A q \in Pages : page'[q].at = "contract" => page[q].at = "contract"
  BY <1>4
<1>8. lost' \in 0 .. MaxLost /\ asked' \in Nat /\ asked <= asked' /\ flow' \in {"starting", "failed", "over"}
  BY <1>2
<1> QED
  BY <1>1, <1>4, <1>5, <1>6, <1>7, <1>8, BrowserKeeps

\* A page that is left drops what it was answered, but for a confirmation.
LEMMA UnmountKeeps ==
  ASSUME Inv, NEW p \in Pages, NEW at \in Gone, NEW slots, Unmount(p, at, slots),
         at = "contract" => call[<<p, "confirm">>].reply = "ok",
         UNCHANGED <<server, flow, lost, asked>>
  PROVE  Inv'
<1>1. /\ call \in [Calls -> CallStates] /\ lost \in 0 .. MaxLost /\ asked \in Nat
      /\ flow \in {"starting", "failed", "over"}
  BY DEF Inv, ReviewInv, TypeOK
<1>2. /\ page' \in [Pages -> PageStates] /\ page'[p].at = at
      /\ \A q \in Pages \ {p} : page'[q] = page[q]
  <2> DEFINE x == [at |-> at, doc |-> None, waited |-> 0]
  <2>1. x \in PageStates /\ x.at = at
    BY ReviewAssumption DEF PageStates, Gone
  <2> QED
    BY <2>1, OnePage DEF Unmount
<1>3. call' = [c \in Calls |-> IF c[1] = p /\ c[2] \in slots /\ call[c].reply # None
                              THEN Idle ELSE call[c]]
  BY DEF Unmount
<1>4. /\ DOMAIN call' = Calls /\ call' = [d \in Calls |-> call'[d]] /\ \A d \in Calls : Quiet(d)
      /\ \A d \in Calls : d[1] # p => call'[d] = call[d]
  BY <1>1, <1>3 DEF Quiet
<1>5. Waits'
  <2>1. ASSUME NEW q \in Pages \ {p} PROVE call'[<<q, "load">>] = call[<<q, "load">>]
    <3>1. <<q, "load">>[1] = q /\ <<q, "load">> \in Calls
      BY PageIs
    <3> QED
      BY <1>4, <3>1
  <2> QED
    BY <1>2, <2>1, WaitsKept DEF Gone
<1>6. \A q \in Pages : page'[q].at = "contract" =>
        page[q].at = "contract" \/ call[<<q, "confirm">>].reply = "ok"
  BY <1>2
<1>7. lost' \in 0 .. MaxLost /\ asked' \in Nat /\ asked <= asked' /\ flow' \in {"starting", "failed", "over"}
  BY <1>1
<1>8. <<p, "load">> \in Calls
  BY PageIs
<1> QED
  BY <1>2, <1>4, <1>5, <1>6, <1>7, <1>8, BrowserKeeps

\* A page takes an answer, or sends one request of its own.
LEMMA SlotKeeps ==
  ASSUME Inv, NEW p \in Pages, NEW slot \in Slots, NEW x, NEW y \in PageStates,
         call' = [call EXCEPT ![<<p, slot>>] = x], page' = [page EXCEPT ![p] = y],
         y.at = "contract" => page[p].at = "contract",
         UNCHANGED <<server, flow, lost>>, asked' \in {asked, asked + 1},
         \/ x \in {Idle, [op |-> "get", reply |-> None]}
         \/ x = [op |-> "analyze", reply |-> None] /\ asked' = asked + 1
         \/ x = [op |-> "confirm", reply |-> None],
         y.at = "analyzing" /\ call'[<<p, "load">>] = Idle => ~TimedOut(y.waited)
  PROVE  Inv'
<1> DEFINE c == <<p, slot>>
<1>1. c \in Calls /\ c[1] = p /\ \A q \in Pages \ {p} : <<q, "load">> \in Calls \ {c}
  BY DEF Calls, Slots
<1>2. lost \in 0 .. MaxLost /\ asked \in Nat /\ flow \in {"starting", "failed", "over"}
  BY DEF Inv, ReviewInv, TypeOK
<1>3. /\ page' \in [Pages -> PageStates] /\ page'[p] = y
      /\ \A q \in Pages \ {p} : page'[q] = page[q]
  BY OnePage
<1> HIDE DEF c
<1>4. /\ DOMAIN call' = Calls /\ call' = [d \in Calls |-> call'[d]]
      /\ call'[c] = x /\ \A d \in Calls \ {c} : call'[d] = call[d] /\ Quiet(d)
  BY <1>1, OneCall DEF c
<1>5. \/ Quiet(c)
      \/ call'[c] = [op |-> "analyze", reply |-> None] /\ asked' = asked + 1
      \/ call'[c] = [op |-> "confirm", reply |-> None] /\ c[1] \in Pages
  BY <1>1, <1>4 DEF Quiet
<1>6. Waits'
  BY <1>1, <1>3, <1>4, WaitsKept
<1>7. \A q \in Pages : page'[q].at = "contract" => page[q].at = "contract"
  BY <1>3
<1>8. lost' \in 0 .. MaxLost /\ asked' \in Nat /\ asked <= asked' /\ flow' \in {"starting", "failed", "over"}
  BY <1>2
<1> QED
  BY <1>1, <1>3, <1>4, <1>5, <1>6, <1>7, <1>8, BrowserKeeps

\* The same, when the page stays as it is.
LEMMA PressKeeps ==
  ASSUME Inv, NEW p \in Pages, NEW slot \in Slots \ {"load"}, NEW x,
         call' = [call EXCEPT ![<<p, slot>>] = x], page' = page,
         UNCHANGED <<server, flow, lost>>, asked' \in {asked, asked + 1},
         \/ x = Idle
         \/ x = [op |-> "analyze", reply |-> None] /\ asked' = asked + 1
         \/ x = [op |-> "confirm", reply |-> None]
  PROVE  Inv'
<1>1. page' = [page EXCEPT ![p] = page[p]] /\ page[p] \in PageStates
  BY PageIs DEF Inv, ReviewInv, TypeOK
<1>2. call'[<<p, "load">>] = call[<<p, "load">>]
  BY OneCall, PageIs DEF Calls, Slots
<1>3. page[p].at = "analyzing" /\ call'[<<p, "load">>] = Idle => ~TimedOut(page[p].waited)
  BY <1>2 DEF Inv, ReviewInv, Waits
<1> QED
  BY <1>1, <1>3, SlotKeeps

LEMMA PollKeeps == ASSUME Inv, NEW p \in Pages, Poll(p) PROVE Inv'
<1> DEFINE x == [op |-> "get", reply |-> None]
           y == [page[p] EXCEPT !.waited = page[p].waited + 1]
<1>1. /\ page[p].at = "analyzing" /\ call[<<p, "load">>] = Idle
      /\ call' = [call EXCEPT ![<<p, "load">>] = x] /\ page' = [page EXCEPT ![p] = y]
      /\ UNCHANGED <<server, flow, lost, asked>>
  <2>1. page' = [page EXCEPT ![p] = y]
    <3>1. page \in [Pages -> PageStates]
      BY DEF Inv, ReviewInv, TypeOK
    <3>2. page' = [page EXCEPT ![p].waited = @ + 1]
      BY DEF Poll
    <3> QED
      BY <3>1, <3>2
  <2> QED
    BY <2>1 DEF Poll, Send
<1>2. page[p].waited + 1 \in 0 .. Patience
  <2>1. ~(page[p].waited >= Patience)
    BY <1>1 DEF Inv, ReviewInv, Waits, TimedOut
  <2>2. page[p].waited \in 0 .. Patience /\ Patience \in Nat
    BY PageIs, ReviewAssumption
  <2> HIDE DEF x, y
  <2> QED
    BY <2>1, <2>2
<1>3. y \in PageStates /\ y.at = page[p].at
  BY <1>2, PageIs, PageStateIs
<1>4. call'[<<p, "load">>] # Idle
  BY <1>1, PageIs, OneCall DEF Idle
<1> HIDE DEF y
<1> QED
  BY <1>1, <1>3, <1>4, SlotKeeps DEF Slots

LEMMA LoadedKeeps == ASSUME Inv, NEW p \in Pages, Loaded(p) PROVE Inv'
<1> DEFINE c == <<p, "load">>
           doc == call[c].reply
<1>1. /\ page[p].at \in {"loading", "analyzing"} /\ doc # None /\ UNCHANGED <<server, flow, lost>>
      /\ c \in Calls /\ "load" \in Slots
  BY PageIs DEF Loaded, Slots
<1>2. ASSUME NEW at \in {"error", "timeout", "analyzing", "ready", "confirmed"},
             NEW seen \in Statuses \cup {None}, NEW waited \in 0 .. Patience,
             Show(p, at, seen, waited), asked' = asked, at = "analyzing" => ~TimedOut(waited)
      PROVE  Inv'
  <2> DEFINE y == [at |-> at, doc |-> seen, waited |-> waited]
  <2>1. y \in PageStates /\ y.at = at /\ y.waited = waited
    BY DEF PageStates
  <2>2. call' = [call EXCEPT ![c] = Idle] /\ page' = [page EXCEPT ![p] = y]
    BY <1>2 DEF Show
  <2> HIDE DEF y
  <2> QED
    BY <1>1, <1>2, <2>1, <2>2, SlotKeeps
<1>3. 0 \in 0 .. Patience /\ page[p].doc \in Statuses \cup {None}
  <2>1. 0 \in 0 .. Patience
    BY ReviewAssumption
  <2> QED
    BY <2>1, PageIs
<1>4. CASE Show(p, "error", page[p].doc, 0) /\ asked' = asked
  BY <1>2, <1>3, <1>4
<1>5. CASE /\ NeedsAnalysis(p, doc) /\ Send(c, "analyze") /\ page' = page
           /\ asked' = asked + (IF doc = "UPLOADED" THEN 1 ELSE 0)
  <2> DEFINE x == [op |-> "analyze", reply |-> None]
  <2>1. asked' = asked + 1 /\ asked \in Nat
    BY <1>5 DEF NeedsAnalysis, Inv, ReviewInv, TypeOK
  <2>2. call' = [call EXCEPT ![c] = x] /\ page' = [page EXCEPT ![p] = page[p]]
    BY <1>5 DEF Send, Inv, ReviewInv, TypeOK
  <2>3. call'[c] # Idle
    BY <1>1, <2>2, OneCall DEF Idle
  <2> QED
    BY <1>1, <2>1, <2>2, <2>3, SlotKeeps, PageIs
<1>6. CASE /\ doc \in {"PROCESSING", "UPLOADED"} /\ asked' = asked
           /\ \E waited \in page[p].waited .. Patience :
                Show(p, IF TimedOut(waited) THEN "timeout" ELSE "analyzing", doc, waited)
  <2>1. PICK waited \in page[p].waited .. Patience :
               Show(p, IF TimedOut(waited) THEN "timeout" ELSE "analyzing", doc, waited)
    BY <1>6
  <2>2. waited \in 0 .. Patience /\ doc \in Statuses
    <3>1. page[p].waited \in 0 .. Patience /\ Patience \in Nat
      BY PageIs, ReviewAssumption
    <3>2. waited \in 0 .. Patience
      BY <3>1
    <3> QED
      BY <1>6, <3>2 DEF Statuses
  <2>3. CASE TimedOut(waited)
    BY <1>2, <1>6, <2>1, <2>2, <2>3
  <2>4. CASE ~TimedOut(waited)
    BY <1>2, <1>6, <2>1, <2>2, <2>4
  <2> QED
    BY <2>3, <2>4
<1>7. CASE doc \in {"REVIEW_REQUIRED", "FAILED"} /\ Show(p, "ready", doc, 0) /\ asked' = asked
  BY <1>2, <1>3, <1>7 DEF Statuses
<1>8. CASE doc = "CONFIRMED" /\ Show(p, "confirmed", doc, 0) /\ asked' = asked
  BY <1>2, <1>3, <1>8 DEF Statuses
<1> QED
  BY <1>4, <1>5, <1>6, <1>7, <1>8 DEF Loaded

LEMMA ButtonKeeps ==
  ASSUME Inv, NEW p \in Pages, Retry(p) \/ RetryAnswered(p) \/ Submit(p) \/ SubmitAnswered(p)
  PROVE  Inv'
<1>1. /\ "retry" \in Slots \ {"load"} /\ "confirm" \in Slots \ {"load"}
      /\ UNCHANGED <<server, flow, lost>>
  BY DEF Slots, Retry, RetryAnswered, Submit, SubmitAnswered
<1>2. CASE Retry(p)
  <2>1. /\ call' = [call EXCEPT ![<<p, "retry">>] = [op |-> "analyze", reply |-> None]]
        /\ page' = page /\ asked' = asked + 1
    BY <1>2 DEF Retry, Press, Send, Ask
  <2> QED
    BY <1>1, <2>1, PressKeeps
<1>3. CASE RetryAnswered(p)
  <2>1. CASE Effect(p)
    BY <1>3, <2>1, EffectKeeps DEF RetryAnswered
  <2>2. CASE call' = [call EXCEPT ![<<p, "retry">>] = Idle] /\ page' = page
    BY <1>1, <1>3, <2>2, PressKeeps DEF RetryAnswered
  <2> QED
    BY <1>3, <2>1, <2>2 DEF RetryAnswered
<1>4. CASE Submit(p)
  <2>1. /\ call' = [call EXCEPT ![<<p, "confirm">>] = [op |-> "confirm", reply |-> None]]
        /\ page' = page /\ asked' = asked
    BY <1>4 DEF Submit, Press, Send
  <2> QED
    BY <1>1, <2>1, PressKeeps
<1>5. CASE SubmitAnswered(p)
  <2>1. CASE call[<<p, "confirm">>].reply = "ok" /\ Unmount(p, "contract", Slots)
    BY <1>5, <2>1, UnmountKeeps DEF SubmitAnswered, Gone
  <2>2. CASE call' = [call EXCEPT ![<<p, "confirm">>] = Idle] /\ page' = page
    BY <1>1, <1>5, <2>2, PressKeeps DEF SubmitAnswered
  <2> QED
    BY <1>5, <2>1, <2>2 DEF SubmitAnswered
<1> QED
  BY <1>2, <1>3, <1>4, <1>5

LEMMA NextKeeps == Inv /\ [Next]_vars => Inv'
<1> SUFFICES ASSUME Inv, [Next]_vars PROVE Inv'
  OBVIOUS
<1>1. ASSUME AnalysisEnds PROVE Inv'
  <2>1. /\ status' \in {"REVIEW_REQUIRED", "FAILED"} /\ status # "CONFIRMED"
        /\ UNCHANGED <<runs, contract, flow, page, call, lost, asked>>
    BY <1>1 DEF AnalysisEnds
  <2>2. TypeOK' /\ Confirmations' /\ Waits' /\ OwnContract' /\ Pending' = Pending
    BY <2>1 DEF Inv, ReviewInv, OwnContract, TypeOK, Statuses, Confirmations, Waits, TimedOut,
                Pending
  <2> QED
    BY <2>1, <2>2 DEF Inv, ReviewInv
<1>2. ASSUME NEW p \in Pages, Open(p) \/ Reload(p) PROVE Inv'
  BY <1>2, EffectKeeps DEF Open, Reload
<1>3. ASSUME NEW p \in Pages, Leave(p) PROVE Inv'
  BY <1>3, UnmountKeeps DEF Leave, Gone
<1>4. CASE UNCHANGED vars
  <2>1. TypeOK' /\ Confirmations' /\ Waits' /\ OwnContract' /\ Pending' = Pending
    BY <1>4 DEF vars, server, Inv, ReviewInv, OwnContract, TypeOK, Confirmations, Waits, TimedOut,
                Pending
  <2> QED
    BY <1>4, <2>1 DEF vars, server, Inv, ReviewInv
<1> QED
  BY <1>1, <1>2, <1>3, <1>4, FlowKeeps, ServeKeeps, LoseKeeps, LoadedKeeps, PollKeeps, ButtonKeeps
     DEF Next

LEMMA InitKeeps == Init => Inv
<1> SUFFICES ASSUME Init PROVE Inv
  OBVIOUS
<1> DEFINE c == <<"flow", "retry">>
<1>1. c \in Calls /\ c[1] = "flow"
  BY DEF Calls
<1>2. \A d \in Calls : d[1] = "flow" => d = c
  BY ReviewAssumption DEF Calls
<1>3. \A d \in Calls : call[d] = IF d = c THEN [op |-> "analyze", reply |-> None] ELSE Idle
  BY <1>1, <1>2 DEF Init
<1>4. None \notin {"ok", "error"} \cup Statuses
  BY ReviewAssumption
<1>5. TypeOK
  <2>1. [op |-> "analyze", reply |-> None] \in CallStates /\ Idle \in CallStates
    BY DEF CallStates, Idle
  <2>2. call \in [Calls -> CallStates]
    BY <1>1, <1>2, <2>1 DEF Init
  <2>3. [at |-> "closed", doc |-> None, waited |-> 0] \in PageStates
    BY ReviewAssumption DEF PageStates
  <2>4. page \in [Pages -> PageStates]
    BY <2>3 DEF Init
  <2> QED
    BY <2>2, <2>4, ReviewAssumption DEF Init, TypeOK, Statuses
<1>6. Confirmations
  BY <1>3, <1>4 DEF Confirmations, Idle
<1>7. Waits /\ OwnContract
  BY DEF Init, Waits, OwnContract
<1>8. Pending = {c}
  BY <1>1, <1>3 DEF Pending, Idle
<1>9. IsFiniteSet(Pending) /\ runs + Cardinality(Pending) <= asked
  <2>1. IsFiniteSet({c}) /\ Cardinality({c}) = 1
    BY FS_Singleton
  <2>2. runs = 0 /\ asked = 1
    BY DEF Init
  <2> HIDE DEF c
  <2> QED
    BY <1>8, <2>1, <2>2
<1> QED
  BY <1>5, <1>6, <1>7, <1>9 DEF Inv, ReviewInv

LEMMA Invariant == Spec => []Inv
BY InitKeeps, NextKeeps, PTL DEF Spec

\* A failed analysis runs again only when the user asks, once for each time,
\* whatever is polled, reloaded, lost or opened in another tab
\* (contract-review-page.tsx), and no page waits longer than it may.
THEOREM ReviewInvariant == Spec => []ReviewInv
BY Invariant, PTL DEF Inv

\* Whoever is taken to a contract made it: a document has one, and only its
\* author is told so, whatever is lost, pressed twice or confirmed in another
\* tab.
THEOREM OwnContractHolds == Spec => []OwnContract
BY Invariant, PTL DEF Inv
=============================================================================
