------------------------------ MODULE ReviewPage ------------------------------
(***************************************************************************)
(* From an uploaded document to its contract, as the browser takes a user  *)
(* there: the upload flow that starts the analysis                         *)
(* (document-upload-flow.tsx), and review pages that load the document,    *)
(* wait for the analysis, offer its result and confirm it                  *)
(* (contract-review-page.tsx), against the server's status of one          *)
(* document.  Requests are served and answered at any time, or get lost.   *)
(*                                                                         *)
(* Each page is opened once; one that is left shows nothing any more, but  *)
(* its requests are under way, and the answer of its confirmation still    *)
(* takes the user to the contract.  Left out: the values of the form and   *)
(* their validation, the preview, deletion of the contract, and the page   *)
(* for editing one, whose loading has no wait.                             *)
(***************************************************************************)
EXTENDS Integers, FiniteSets

CONSTANTS
  None,
  Pages,      \* review pages, in one tab or in several
  Patience,   \* ANALYSIS_POLL_TIMEOUT_MS in polls
  MaxRuns,    \* bound: analyses, more are refused
  MaxPresses, \* bound: requests for an analysis after which no button is pressed
  MaxLost     \* bound: requests or answers lost

Statuses == {"UPLOADED", "PROCESSING", "REVIEW_REQUIRED", "FAILED", "CONFIRMED"}

ASSUME ReviewAssumption ==
  /\ Patience \in Nat /\ MaxRuns \in Nat \ {0} /\ MaxPresses \in Nat /\ MaxLost \in Nat
  /\ None \notin Pages \cup Statuses \cup {"ok", "error"} /\ "flow" \notin Pages

VARIABLES
  status,    \* analysis_status of the document
  runs,      \* analyses started
  contract,  \* None, or the page it was confirmed from
  flow,      \* the upload flow: "starting", "failed" or "over"
  page,      \* what each page shows
  call,      \* requests of a page, and of the flow, that are under way
  lost,      \* how many have been lost
  asked      \* how often the user, or a page that saw a new document, asked
             \* for an analysis (history)

server == <<status, runs, contract>>
vars == <<server, flow, page, call, lost, asked>>

Idle == [op |-> "idle", reply |-> None]

\* A page has one request of its loading, and at most one of either button.
Slots == {"load", "retry", "confirm"}
Calls == (Pages \X Slots) \cup {<<"flow", "retry">>}

Send(c, op) == call' = [call EXCEPT ![c] = [op |-> op, reply |-> None]]

Init ==
  /\ status = "UPLOADED" /\ runs = 0 /\ contract = None
  /\ flow = "starting"
  /\ page = [p \in Pages |-> [at |-> "closed", doc |-> None, waited |-> 0]]
  /\ call = [c \in Calls |-> IF c[1] = "flow" THEN [op |-> "analyze", reply |-> None] ELSE Idle]
  /\ lost = 0 /\ asked = 1

----------------------------------------------------------------------------
(* The server *)

\* Mutant definitions are slips this code could have had; no behaviour uses
\* them, each stands for the definition below it to show a property notices.
Mutant_ConfirmAgain == {"REVIEW_REQUIRED", "FAILED", "CONFIRMED"}

Confirmable == {"REVIEW_REQUIRED", "FAILED"}

\* A page that is left has cancelled its loading, and what handleRetryAnalysis
\* would set is gone.  handleSubmit does not look whether it is still shown.
Gone == {"left", "contract"}
Dropped == {"load", "retry"}

Reply(c, reply) ==
  call' = [call EXCEPT ![c] =
    IF c[1] \in Pages /\ page[c[1]].at \in Gone /\ c[2] \in Dropped
    THEN Idle ELSE [@ EXCEPT !.reply = reply]]

Get(c) ==
  /\ call[c].op = "get"
  /\ Reply(c, status)
  /\ UNCHANGED server

Analyze(c) ==
  /\ call[c].op = "analyze"
  /\ IF status \in {"UPLOADED", "FAILED"} /\ runs < MaxRuns
     THEN /\ status' = "PROCESSING" /\ runs' = runs + 1
          /\ Reply(c, "PROCESSING")
     ELSE Reply(c, "error") /\ UNCHANGED <<status, runs>>
  /\ UNCHANGED contract

ConfirmDocument(c) ==
  /\ call[c].op = "confirm"
  /\ IF status \in Confirmable
     THEN /\ status' = "CONFIRMED"
          /\ contract' = c[1]
          /\ Reply(c, "ok")
     ELSE Reply(c, "error") /\ UNCHANGED <<status, contract>>
  /\ UNCHANGED runs

Serve(c) ==
  /\ call[c].reply = None
  /\ Get(c) \/ Analyze(c) \/ ConfirmDocument(c)
  /\ UNCHANGED <<flow, page, lost, asked>>

\* The analysis ends, or, when its process dies, never does.
AnalysisEnds ==
  /\ status = "PROCESSING"
  /\ status' \in {"REVIEW_REQUIRED", "FAILED"}
  /\ UNCHANGED <<runs, contract, flow, page, call, lost, asked>>

\* A request does not reach the server, or its answer the browser.
Lose(c) ==
  /\ call[c].op # "idle" /\ call[c].reply # "error"
  /\ lost < MaxLost
  /\ lost' = lost + 1
  /\ Reply(c, "error")
  /\ UNCHANGED <<server, flow, page, asked>>

----------------------------------------------------------------------------
(* document-upload-flow.tsx: startAnalysis *)

Ask == asked < MaxPresses /\ asked' = asked + 1

FlowAnswered ==
  /\ flow = "starting" /\ call[<<"flow", "retry">>].reply # None
  /\ flow' = IF call[<<"flow", "retry">>].reply = "error" THEN "failed" ELSE "over"
  /\ call' = [call EXCEPT ![<<"flow", "retry">>] = Idle]
  /\ UNCHANGED <<server, page, lost, asked>>

FlowRetry ==
  /\ flow = "failed"
  /\ flow' = "starting"
  /\ Send(<<"flow", "retry">>, "analyze")
  /\ Ask
  /\ UNCHANGED <<server, page, lost>>

----------------------------------------------------------------------------
(* contract-review-page.tsx: the effect that loads *)

\* The effect runs: when the page is opened, and on each of its reloads.
Effect(p) ==
  /\ page' = [page EXCEPT ![p] = [@ EXCEPT !.at = "loading", !.waited = 0]]
  /\ call' = [call EXCEPT ![<<p, "load">>] = [op |-> "get", reply |-> None],
                          ![<<p, "retry">>] = Idle]

\* By the flow, by a bookmark, or in another tab.
Open(p) ==
  /\ page[p].at = "closed"
  /\ Effect(p)
  /\ UNCHANGED <<server, flow, lost, asked>>

Reload(p) ==
  /\ page[p].at \in {"timeout", "error"}
  /\ Effect(p)
  /\ UNCHANGED <<server, flow, lost, asked>>

Unmount(p, at, slots) ==
  /\ page' = [page EXCEPT ![p] = [at |-> at, doc |-> None, waited |-> 0]]
  /\ call' = [c \in Calls |-> IF c[1] = p /\ c[2] \in slots /\ call[c].reply # None
                             THEN Idle ELSE call[c]]

Leave(p) ==
  /\ page[p].at \notin {"closed"} \cup Gone
  /\ Unmount(p, "left", Dropped)
  /\ UNCHANGED <<server, flow, lost, asked>>

Show(p, at, doc, waited) ==
  /\ page' = [page EXCEPT ![p] = [at |-> at, doc |-> doc, waited |-> waited]]
  /\ call' = [call EXCEPT ![<<p, "load">>] = Idle]

Mutant_AnalyzeFailed(p, doc) ==
  call[<<p, "load">>].op = "get" /\ doc \in {"UPLOADED", "FAILED"}

Mutant_AnalyzeAnyhow(p, doc) ==
  call[<<p, "load">>].op = "get" /\ doc # "CONFIRMED"

\* A document nobody has analysed: the page asks for it, once per load.
NeedsAnalysis(p, doc) == call[<<p, "load">>].op = "get" /\ doc = "UPLOADED"

TimedOut(waited) == waited >= Patience

\* load(), after the answer of getDocument or of analyzeDocument; the time
\* since the effect ran is at least that of the polls.
Loaded(p) ==
  LET doc == call[<<p, "load">>].reply
  IN  /\ page[p].at \in {"loading", "analyzing"} /\ doc # None
      /\ \/ /\ doc = "error"
            /\ Show(p, "error", page[p].doc, 0)
            /\ UNCHANGED asked
         \/ /\ doc # "error" /\ NeedsAnalysis(p, doc)
            /\ Send(<<p, "load">>, "analyze")
            /\ asked' = asked + (IF doc = "UPLOADED" THEN 1 ELSE 0)
            /\ UNCHANGED page
         \/ /\ doc # "error" /\ ~NeedsAnalysis(p, doc)
            /\ \/ /\ doc \in {"PROCESSING", "UPLOADED"}
                  /\ \E waited \in page[p].waited .. Patience :
                       Show(p, IF TimedOut(waited) THEN "timeout" ELSE "analyzing", doc, waited)
               \/ /\ doc \in {"REVIEW_REQUIRED", "FAILED"}
                  /\ Show(p, "ready", doc, 0)
               \/ /\ doc = "CONFIRMED"
                  /\ Show(p, "confirmed", doc, 0)
            /\ UNCHANGED asked
      /\ UNCHANGED <<server, flow, lost>>

Mutant_PollRestartsClock(p) ==
  /\ page[p].at = "analyzing" /\ call[<<p, "load">>] = Idle
  /\ page' = [page EXCEPT ![p].waited = 0]
  /\ Send(<<p, "load">>, "get")
  /\ UNCHANGED <<server, flow, lost, asked>>

\* The timer: load() again, in the same effect.
Poll(p) ==
  /\ page[p].at = "analyzing" /\ call[<<p, "load">>] = Idle
  /\ page' = [page EXCEPT ![p].waited = @ + 1]
  /\ Send(<<p, "load">>, "get")
  /\ UNCHANGED <<server, flow, lost, asked>>

----------------------------------------------------------------------------
(* Its buttons *)

Press(p, slot, op) == call[<<p, slot>>] = Idle /\ Send(<<p, slot>>, op)

\* handleRetryAnalysis
Retry(p) ==
  /\ page[p].at = "ready" /\ page[p].doc = "FAILED"
  /\ Press(p, "retry", "analyze")
  /\ Ask
  /\ UNCHANGED <<server, flow, page, lost>>

RetryAnswered(p) ==
  /\ page[p].at = "ready" /\ call[<<p, "retry">>].reply # None
  /\ IF call[<<p, "retry">>].reply = "error"
     THEN call' = [call EXCEPT ![<<p, "retry">>] = Idle] /\ UNCHANGED page
     ELSE Effect(p)
  /\ UNCHANGED <<server, flow, lost, asked>>

\* handleSubmit, with a form that is valid
Submit(p) ==
  /\ page[p].at = "ready"
  /\ Press(p, "confirm", "confirm")
  /\ UNCHANGED <<server, flow, page, lost, asked>>

\* The answer of a confirmation takes the user along whatever the page shows,
\* and also when the page was left.
SubmitAnswered(p) ==
  /\ call[<<p, "confirm">>].reply # None
  /\ IF call[<<p, "confirm">>].reply = "ok"
     THEN Unmount(p, "contract", Slots)
     ELSE call' = [call EXCEPT ![<<p, "confirm">>] = Idle] /\ UNCHANGED page
  /\ UNCHANGED <<server, flow, lost, asked>>

Next ==
  \/ AnalysisEnds \/ FlowAnswered \/ FlowRetry
  \/ \E c \in Calls : Serve(c) \/ Lose(c)
  \/ \E p \in Pages :
       \/ Open(p) \/ Reload(p) \/ Leave(p) \/ Loaded(p) \/ Poll(p)
       \/ Retry(p) \/ RetryAnswered(p) \/ Submit(p) \/ SubmitAnswered(p)

\* Requests are served or fail, timers fire, and a user who is told that it
\* takes long or went wrong presses the button; one of these at a time is
\* next for a page that loads.  No analysis has to end.
Fairness ==
  \A p \in Pages : WF_vars(Serve(<<p, "load">>) \/ Loaded(p) \/ Poll(p) \/ Reload(p))

Spec == Init /\ [][Next]_vars /\ Fairness

----------------------------------------------------------------------------
(* Properties *)

\* A user who is taken to the contract is taken to the one made of what that
\* page offered: whatever was lost, pressed twice or confirmed in another
\* tab, a document has one contract and only its author is told so.
OwnContract ==
  \A p \in Pages : page[p].at = "contract" =>
    status = "CONFIRMED" /\ contract = p

PageStates ==
  [at : {"closed", "loading", "analyzing", "timeout", "ready", "confirmed", "error",
         "contract", "left"},
   doc : Statuses \cup {None}, waited : 0 .. Patience]

CallStates ==
  [op : {"idle", "get", "analyze", "confirm"}, reply : Statuses \cup {None, "ok", "error"}]

\* Type correctness; no page has polled longer than it may.
TypeOK ==
  /\ status \in Statuses /\ runs \in 0 .. MaxRuns
  /\ contract \in Pages \cup {None}
  /\ flow \in {"starting", "failed", "over"}
  /\ page \in [Pages -> PageStates]
  /\ call \in [Calls -> CallStates]
  /\ lost \in 0 .. MaxLost /\ asked \in Nat

\* Requests for an analysis that the server has yet to see.
Pending == {c \in Calls : call[c].op = "analyze" /\ call[c].reply = None}

\* Only pages confirm, and one that is told so made the contract.
Confirmations ==
  \A c \in Calls :
    /\ call[c].op = "confirm" => c[1] \in Pages
    /\ call[c].reply = "ok" => call[c].op = "confirm" /\ status = "CONFIRMED" /\ contract = c[1]

\* A page whose time is up does not set its timer again.
Waits ==
  \A p \in Pages :
    page[p].at = "analyzing" /\ call[<<p, "load">>] = Idle => ~TimedOut(page[p].waited)

\* Type invariant, and: a failed analysis runs again only when the user asks,
\* and once for each time.  Opening, reloading and polling start none, unless
\* the page saw the document while nobody had had it analysed (its request may
\* come late, and then repeats a failed one).
ReviewInv ==
  /\ TypeOK
  /\ IsFiniteSet(Pending) /\ runs + Cardinality(Pending) <= asked
  /\ Confirmations
  /\ Waits

\* Pages never wait for ever, even for an analysis that never ends.
WaitEnds ==
  \A p \in Pages : page[p].at \in {"loading", "analyzing"} ~>
                   page[p].at \notin {"loading", "analyzing"}

\* A result that is there is found: a page that gave up waiting, or that lost
\* an answer or a race for the analysis, comes to offer the review.
ResultShown ==
  \A p \in Pages :
    page[p].at \in {"loading", "analyzing", "timeout", "error"} /\ status = "REVIEW_REQUIRED"
      ~> page[p].at \in {"ready", "confirmed", "contract", "left"}
=============================================================================
