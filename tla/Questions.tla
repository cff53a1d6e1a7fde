----------------------------- MODULE Questions -----------------------------
(***************************************************************************)
(* ask_question on the caller's own session (self_ask), over ChatStream:   *)
(* the tool registers a oneshot under (session, question), injects the     *)
(* dialog into the chat stream and waits; a page that shows the dialog may *)
(* send an answer, which the WebSocket handler gives to the oneshot, or,   *)
(* when nobody waits for it, to the runner.  Tool calls are cut off,       *)
(* WebSockets break, the server restarts, and the session is deleted.      *)
(*                                                                         *)
(* What an answer says, and what the runner does with one, is left out.    *)
(***************************************************************************)
EXTENDS ChatStream

VARIABLES
  present,  \* the conversation is loaded
  tool,     \* self_ask of each question: "idle", "registered", "waiting", and
            \* at its end "answered", "failed" or "dropped"
  pending,  \* keys of pending_questions
  ticked,   \* ticked[b]: dialogs of page b that count as submitted
  sent,     \* sent[b]: answers on their way from page b
  forwarded \* questions whose answer was passed on to the runner (history)

askVars == <<present, tool, pending, ticked, sent, forwarded>>
allVars == <<vars, askVars>>

Asked == 1 .. MaxInject

\* The event that carries question q.
Dialog(q) == MaxOut + q

AskInit ==
  /\ Init
  /\ present = TRUE
  /\ tool = [q \in Asked |-> "idle"]
  /\ pending = {}
  /\ ticked = [b \in Browsers |-> {}]
  /\ sent = [b \in Browsers |-> {}]
  /\ forwarded = {}

\* self_ask, first step: the oneshot is registered before its dialog is shown.
Register(q) ==
  /\ tool[q] = "idle"
  /\ tool' = [tool EXCEPT ![q] = "registered"]
  /\ pending' = pending \cup {q}
  /\ UNCHANGED <<vars, present, ticked, sent, forwarded>>

\* (Mutant of MaySurface: the dialog goes out first.)
SurfaceFirst(q) == tool[q] \in {"idle", "registered"}

\* Where self_ask may inject the dialog.
MaySurface(q) == tool[q] = "registered"

\* self_ask, second step, under the manager mutex: inject the dialog, or give
\* up when there is no conversation or no client.
Surface(q) ==
  /\ MaySurface(q)
  /\ \/ /\ Inject(Dialog(q))
        /\ tool' = [tool EXCEPT ![q] = "waiting"]
     \/ /\ LockFree
        /\ client = 0
        /\ tool' = [tool EXCEPT ![q] = "failed"]
        /\ UNCHANGED vars
  /\ UNCHANGED <<present, pending, ticked, sent, forwarded>>

\* The caller's HTTP request ends: the tool call is dropped where it waits.
HangUp(q) ==
  /\ tool[q] \in {"registered", "waiting"}
  /\ tool' = [tool EXCEPT ![q] = "dropped"]
  /\ UNCHANGED <<vars, present, pending, ticked, sent, forwarded>>

\* The user submits a dialog of page b, which must be past its hello.
Submit(b, q) ==
  /\ bst[b] = "open"
  /\ prime[b] = <<>>
  /\ Dialog(q) \in Held(b)
  /\ q \notin ticked[b]
  /\ ticked' = [ticked EXCEPT ![b] = @ \cup {q}]
  /\ sent' = [sent EXCEPT ![b] = @ \cup {q}]
  /\ UNCHANGED <<vars, present, tool, pending, forwarded>>

\* handle_inbound takes AnswerQuestion: the oneshot is tried first.
Answer(b, q) ==
  /\ q \in sent[b]
  /\ sent' = [sent EXCEPT ![b] = @ \ {q}]
  /\ pending' = pending \ {q}
  /\ tool' = IF q \in pending /\ tool[q] \in {"registered", "waiting"}
             THEN [tool EXCEPT ![q] = "answered"]
             ELSE tool
  /\ forwarded' = IF q \in pending THEN forwarded ELSE forwarded \cup {q}
  /\ UNCHANGED <<vars, present, ticked>>

\* The session is deleted: daemon, client and conversation go.  Open
\* WebSockets stay, with what they hold.
RemoveSession ==
  /\ present
  /\ LockFree
  /\ present' = FALSE
  /\ dstate' = "down"
  /\ ring' = <<>>
  /\ unsent' = 0
  /\ conn' = "none"
  /\ dq' = <<>>
  /\ client' = 0
  /\ alive' = FALSE
  /\ hist' = <<>>
  /\ next' = 1
  /\ UNCHANGED <<out, dlost, spawns, replays, injected, resumer, wsVars, pageVars,
                 faultVars, tool, pending, ticked, sent, forwarded>>

\* handle_ws finds the conversation or its client gone and closes.
AttachFails(b) ==
  /\ LockFree
  /\ bst[b] = "upgraded"
  /\ client = 0
  /\ Disconnect(b)
  /\ UNCHANGED <<daemonVars, clientVars, resumer, lost, pageVars, faultVars, askVars>>

\* The steps of the stream that end neither a connection nor the server.
StreamStep ==
  /\ \/ DaemonStep \/ Connected \/ ResumeFailed \/ ReadEvent \/ ReadExit \/ ReadEof
     \/ \E who \in Browsers \cup {Nobody} : present /\ Resume(who)
     \/ \E b \in Browsers : Upgrade(b) \/ Attach(b) \/ Receive(b)
  /\ UNCHANGED askVars

\* A connection that ends takes the answers on their way with it; a page that
\* is opened afresh has forgotten what it submitted.
Cut(b) ==
  /\ \/ Drop(b) /\ UNCHANGED ticked
     \/ Reload(b) /\ ticked' = [ticked EXCEPT ![b] = {}]
  /\ sent' = [sent EXCEPT ![b] = {}]
  /\ UNCHANGED <<present, tool, pending, forwarded>>

\* The server restarts: the registry and the tool calls are gone.
ServerRestart ==
  /\ Restart
  /\ pending' = {}
  /\ tool' = [q \in Asked |->
                IF tool[q] \in {"registered", "waiting"} THEN "dropped" ELSE tool[q]]
  /\ sent' = [b \in Browsers |-> {}]
  /\ UNCHANGED <<present, ticked, forwarded>>

AskNext ==
  \/ StreamStep
  \/ \E q \in Asked : Register(q) \/ Surface(q) \/ HangUp(q)
  \/ \E b \in Browsers, q \in Asked : Submit(b, q) \/ Answer(b, q)
  \/ \E b \in Browsers : AttachFails(b) \/ Cut(b)
  \/ RemoveSession
  \/ ServerRestart

AskSpec == AskInit /\ [][AskNext]_allVars
----------------------------------------------------------------------------
(* Properties *)

\* Every variable stays in its type.
AskTypeOK ==
  /\ TypeOK
  /\ present \in BOOLEAN
  /\ tool \in [Asked -> {"idle", "registered", "waiting", "answered", "failed", "dropped"}]
  /\ pending \subseteq Asked
  /\ ticked \in [Browsers -> SUBSET Asked]
  /\ sent \in [Browsers -> SUBSET Asked]
  /\ forwarded \subseteq Asked

\* An answer that reaches the server while the tool waits for it reaches the
\* tool, however fast the page is and however often it answers (self_ask:
\* "a fast frontend can't deliver the answer before we're ready").
NoAnswerLost ==
  \A q \in forwarded : tool[q] \notin {"idle", "registered", "waiting"}

\* Why NoAnswerLost holds: while the tool waits its oneshot is registered, and
\* what pages show, submit and send was asked.
AskInv ==
  /\ AskTypeOK
  /\ HistoryWindow
  /\ \A q \in Asked : tool[q] \in {"registered", "waiting"} => q \in pending
  /\ \A q \in Asked : tool[q] \in {"idle", "registered"} => Dialog(q) \notin injected
  /\ \A b \in Browsers : \A q \in sent[b] \cup forwarded : Dialog(q) \in injected
  /\ NoAnswerLost
============================================================================
