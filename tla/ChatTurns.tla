----------------------------- MODULE ChatTurns -----------------------------
(***************************************************************************)
(* The tools that talk to a chat session (mcp/chat.rs, send_message.rs): a  *)
(* call subscribes to the session's events, posts a message and waits for  *)
(* the first result that comes after what there was when it subscribed.    *)
(* Other calls, and the page, post to the same session; the daemon may die *)
(* and be replaced under a call that waits.                                *)
(*                                                                         *)
(* The runner answers prompts one after the other (Runner); of a turn only *)
(* its texts and its result are kept, and the client's history is a count. *)
(***************************************************************************)
EXTENDS Integers, Sequences, FiniteSets

CONSTANTS
  Calls,       \* calls of the tool
  TurnCap,     \* capacity of the client's broadcast channel (256)
  TurnTexts,   \* texts of a turn
  MaxPosts,    \* bound on the messages of the page
  MaxDeaths    \* bound on the deaths of the daemon

Page  == "page"
NoTurn == "(none)"

ASSUME TurnsAssumption ==
  /\ TurnCap \in Nat \ {0} /\ TurnTexts \in Nat /\ MaxPosts \in Nat /\ MaxDeaths \in Nat
  /\ Page \notin Calls /\ NoTurn \notin Calls

VARIABLES
  up,       \* the daemon lives
  epoch,    \* which client the manager holds: replaced by each resume
  lastSeq,  \* the latest event of that client's history
  prompts,  \* messages on their way to the runner or in its queue, by sender
  turn,     \* [by, left]: whose message the runner answers, and its texts to come
  call,     \* each call: [step, epoch, base, inbox, lagged, text, alone]
  posted    \* bound: [page, deaths]

turnVars == <<up, epoch, lastSeq, prompts, turn, call, posted>>

NoCall == [step |-> "idle", epoch |-> 0, base |-> 0, inbox |-> <<>>, lagged |-> FALSE,
           text |-> <<>>, alone |-> FALSE]
Quiet  == [by |-> NoTurn, left |-> 0]

TurnsInit ==
  /\ up = TRUE /\ epoch = 1 /\ lastSeq = 0 /\ prompts = <<>> /\ turn = Quiet
  /\ call = [c \in Calls |-> NoCall] /\ posted = [page |-> 0, deaths |-> 0]

Waits(c) == call[c].step \in {"subscribed", "waiting"}

-----------------------------------------------------------------------------
\* (Mutant of Subscribed: the next number is noted instead of the latest.)
SubscribedPast(now, seq, quiet) ==
  [NoCall EXCEPT !.step = "subscribed", !.epoch = now, !.base = seq + 1, !.alone = quiet]

\* send_and_wait, under the manager's lock: a session without a living daemon is
\* resumed, which replaces its client; then the call subscribes and notes what
\* there is.
Subscribed(now, seq, quiet) ==
  [NoCall EXCEPT !.step = "subscribed", !.epoch = now, !.base = seq, !.alone = quiet]

Subscribe(c) ==
  /\ call[c].step = "idle"
  /\ IF up
     THEN /\ call' = [call EXCEPT ![c] = Subscribed(epoch, lastSeq, prompts = <<>> /\ turn = Quiet)]
          /\ UNCHANGED <<up, epoch, lastSeq, prompts, turn>>
     ELSE /\ up' = TRUE /\ epoch' = epoch + 1 /\ lastSeq' = 0 /\ prompts' = <<>> /\ turn' = Quiet
          /\ call' = [call EXCEPT ![c] = Subscribed(epoch + 1, 0, TRUE)]
  /\ UNCHANGED posted

\* A message of somebody else reaches the session: the calls that wait for a turn
\* are not alone with it any more.
Disturbed(by) == [c \in Calls |-> IF c = by THEN call[c] ELSE [call[c] EXCEPT !.alone = FALSE]]

\* What is posted to a client whose daemon is gone is lost without an error, as the
\* writer task still takes it.
Taken(e, by) == IF up /\ e = epoch THEN Append(prompts, by) ELSE prompts

\* send_and_wait: the message is posted after the lock was let go.
PostMessage(c) ==
  /\ call[c].step = "subscribed"
  /\ call' = [Disturbed(c) EXCEPT ![c].step = "waiting"]
  /\ prompts' = Taken(call[c].epoch, c)
  /\ UNCHANGED <<up, epoch, lastSeq, turn, posted>>

\* The user writes in the page (chat_ws.rs).
PagePosts ==
  /\ posted.page < MaxPosts /\ up
  /\ posted' = [posted EXCEPT !.page = @ + 1]
  /\ prompts' = Append(prompts, Page) /\ call' = Disturbed(Page)
  /\ UNCHANGED <<up, epoch, lastSeq, turn>>

\* An event of the runner gets a number and is broadcast to those who subscribed to
\* this client; who does not keep up loses the oldest (attach/chat.rs).
Heard(c, event) ==
  IF ~Waits(c) \/ call[c].epoch # epoch THEN call[c]
  ELSE IF Len(call[c].inbox) < TurnCap
       THEN [call[c] EXCEPT !.inbox = Append(@, event)]
       ELSE [call[c] EXCEPT !.inbox = Append(Tail(@), event), !.lagged = TRUE]

RunnerSays(kind) ==
  LET event == [seq |-> lastSeq + 1, by |-> turn.by, kind |-> kind, n |-> turn.left]
  IN lastSeq' = lastSeq + 1 /\ call' = [c \in Calls |-> Heard(c, event)]

StartTurn ==
  /\ up /\ turn = Quiet /\ prompts # <<>>
  /\ turn' = [by |-> Head(prompts), left |-> TurnTexts] /\ prompts' = Tail(prompts)
  /\ UNCHANGED <<up, epoch, lastSeq, call, posted>>

SayText ==
  /\ up /\ turn.left > 0
  /\ RunnerSays("text") /\ turn' = [turn EXCEPT !.left = @ - 1]
  /\ UNCHANGED <<up, epoch, prompts, posted>>

\* The turn's result: it has said everything, or it was stopped.
SayResult ==
  /\ up /\ turn # Quiet
  /\ RunnerSays("result") /\ turn' = Quiet
  /\ UNCHANGED <<up, epoch, prompts, posted>>

\* The receive loop: events of before are skipped, texts are gathered, the first
\* result ends the call (TurnAggregator).
Receive(c) ==
  /\ call[c].step = "waiting" /\ call[c].inbox # <<>>
  /\ LET e == Head(call[c].inbox)
         rest == [call[c] EXCEPT !.inbox = Tail(@)]
     IN call' = [call EXCEPT ![c] =
          CASE e.seq <= call[c].base -> rest
            [] e.seq > call[c].base /\ e.kind = "text" -> [rest EXCEPT !.text = Append(@, e)]
            [] OTHER -> [rest EXCEPT !.step = "answered", !.text = Append(@, e), !.inbox = <<>>]]
  /\ UNCHANGED <<up, epoch, lastSeq, prompts, turn, posted>>

\* The channel is closed once the client was replaced, or dropped with its session.
Fail(c) ==
  /\ call[c].step = "waiting" /\ call[c].inbox = <<>> /\ call[c].epoch # epoch
  /\ call' = [call EXCEPT ![c] = [NoCall EXCEPT !.step = "failed"]]
  /\ UNCHANGED <<up, epoch, lastSeq, prompts, turn, posted>>

\* The daemon dies with what its runner was doing; the client stays where it is.
DaemonDies ==
  /\ up /\ posted.deaths < MaxDeaths
  /\ posted' = [posted EXCEPT !.deaths = @ + 1]
  /\ up' = FALSE /\ prompts' = <<>> /\ turn' = Quiet
  /\ UNCHANGED <<epoch, lastSeq, call>>

\* Somebody resumes the session (api, chat_ws.rs).
ResumeSession ==
  /\ ~up
  /\ up' = TRUE /\ epoch' = epoch + 1 /\ lastSeq' = 0
  /\ UNCHANGED <<prompts, turn, call, posted>>

TurnsNext ==
  \/ \E c \in Calls : Subscribe(c) \/ PostMessage(c) \/ Receive(c) \/ Fail(c)
  \/ PagePosts \/ StartTurn \/ SayText \/ SayResult \/ DaemonDies \/ ResumeSession

-----------------------------------------------------------------------------
\* A call that had the session for itself, from the moment it subscribed to the
\* result it got, and kept up, returns its own turn and the whole of it.
AnswerIsMine ==
  \A c \in Calls : call[c].step = "answered" /\ call[c].alone /\ ~call[c].lagged =>
    LET got == call[c].text IN
    /\ \A k \in DOMAIN got : got[k].by = c
    /\ \A k \in DOMAIN got : got[k].kind = "text" <=> k < Len(got)
    /\ \A k \in 1 .. Len(got) - 1 : got[k].n = TurnTexts + 1 - k

\* A call never waits for a runner that has nothing left to say, unless it lagged or
\* the daemon it listens to has died.
NobodyWaitsInVain ==
  \A c \in Calls :
    /\ call[c].step = "waiting" /\ call[c].inbox = <<>>
    /\ up /\ call[c].epoch = epoch /\ prompts = <<>> /\ turn = Quiet
    => call[c].lagged

\* What a call gathers are the events that followed its subscription, without a gap.
AnswerHasNoGap ==
  \A c \in Calls : Waits(c) /\ ~call[c].lagged =>
    LET seen == call[c].text \o call[c].inbox IN
    \A k \in DOMAIN seen : seen[k].seq = call[c].base + k

TurnsInv == AnswerIsMine /\ NobodyWaitsInVain /\ AnswerHasNoGap
=============================================================================
