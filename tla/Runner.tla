------------------------------- MODULE Runner -------------------------------
(***************************************************************************)
(* The chat runner: a control reader that turns lines of stdin into calls, *)
(* the prompt queue the SDK reads, the permission callback that asks the   *)
(* user, and the loop that writes what query() yields.                     *)
(*                                                                         *)
(* External: the SDK (query, interrupt, canUseTool's caller) and the       *)
(* daemon at the other end of stdin and stdout.  The SDK reads prompts     *)
(* ahead of the turn it runs.                                              *)
(***************************************************************************)
EXTENDS Mapper, FiniteSets

CONSTANTS
  Prompts,   \* what a user may send, each at most once
  Calls,     \* the tool calls the agent may make; a call that asks the user
             \* has the call's identity as its question id
  Answers,   \* what a user may answer
  Messages,  \* the SDK messages query() may yield
  NoAnswer, NoMessage

\* A content that is an array is no text, and its blocks are a sequence.
ASSUME ContentAssumption ==
  \A m \in Messages :
    LET content == Field(Field(m, "message", Scalar), "content", Scalar)
    IN "blocks" \in DOMAIN content =>
         "text" \notin DOMAIN content /\ content.blocks \in Seq(Entries(content.blocks))

ASSUME DistinctNulls == NoAnswer \notin Answers /\ NoMessage \notin Messages

VARIABLES
  phase,     \* main: "start", "query", "draining" (query() is over), "exited"
  exitCode,
  stdin,     \* "open" or "eof"
  buffer, closed, \* AsyncQueue
  parked,    \* AsyncQueue has a waiter: the SDK waits in next()
  taken,     \* the prompts the SDK got, in order
  readerDone,\* next() gave done
  done,      \* how many of taken the SDK is through with
  call,      \* call[c]: "none", "asked", "answered", "aborted" or "allowed"
  result,    \* result[c]: the answers canUseTool returned, or NoAnswer
  pending,   \* pendingQuestions
  asked,     \* the question events written to stdout, in order
  yielded,   \* the SDK message just mapped and written, or NoMessage
  \* History.
  accepted,  \* the prompts dispatched while the queue was open
  sent,      \* sent[c]: the first answer dispatched for question c
  failed     \* query() threw

sdkVars == <<taken, readerDone, done>>
queueVars == <<buffer, closed, parked>>
toolVars == <<call, result, pending, asked>>
runnerVars == <<phase, exitCode, stdin, queueVars, sdkVars, toolVars, yielded,
          accepted, sent, failed>>

RunnerInit ==
  /\ phase = "start"
  /\ exitCode = 0
  /\ stdin = "open"
  /\ buffer = <<>>
  /\ closed = FALSE
  /\ parked = FALSE
  /\ taken = <<>>
  /\ readerDone = FALSE
  /\ done = 0
  /\ call = [c \in Calls |-> "none"]
  /\ result = [c \in Calls |-> NoAnswer]
  /\ pending = {}
  /\ asked = <<>>
  /\ yielded = NoMessage
  /\ accepted = <<>>
  /\ sent = [c \in Calls |-> NoAnswer]
  /\ failed = FALSE

-----------------------------------------------------------------------------
\* parseArgs and main up to query().  Help exits with 0, arguments that do not
\* parse and a session id that is no UUID with 2.  (What an unreadable
\* mcp-config costs is the servers it names, not the start.)
Launch ==
  /\ phase = "start"
  /\ \/ /\ phase' = "query"
        /\ UNCHANGED exitCode
     \/ /\ phase' = "exited"
        /\ exitCode' \in {0, 2}
  /\ UNCHANGED <<stdin, queueVars, sdkVars, toolVars, yielded, accepted, sent, failed>>

Running == phase \in {"query", "draining"}

\* AsyncQueue.push: dropped when closed, else to the waiter, else buffered.
Push(p) ==
  IF closed THEN UNCHANGED <<queueVars, taken, accepted>>
  ELSE /\ accepted' = Append(accepted, p)
       /\ IF parked
          THEN /\ parked' = FALSE
               /\ taken' = Append(taken, p)
               /\ UNCHANGED <<buffer, closed>>
          ELSE /\ buffer' = Append(buffer, p)
               /\ UNCHANGED <<parked, closed, taken>>

\* AsyncQueue.close: the waiter is told that it is over.
Close ==
  /\ closed' = TRUE
  /\ parked' = FALSE
  /\ readerDone' = (readerDone \/ parked)
  /\ UNCHANGED buffer

Unsent == Prompts \ {accepted[i] : i \in DOMAIN accepted}

\* The lines that may come, some of them not control frames.
Frames ==
  {[kind |-> "user_message", content |-> p] : p \in Unsent}
    \cup {[kind |-> "answer_question", question_id |-> c, answers |-> a] :
            c \in Calls, a \in Answers}
    \cup {[kind |-> "stop"], [kind |-> "user_message"], [kind |-> "answer_question"],
          [kind |-> "ping"], Scalar}

IsControlFrame(f) ==
  CASE Field(f, "kind", "") = "user_message" -> "content" \in DOMAIN f
    [] Field(f, "kind", "") = "stop" -> TRUE
    [] Field(f, "kind", "") = "answer_question" -> {"question_id", "answers"} \subseteq DOMAIN f
    [] OTHER -> FALSE

UserMessage(f) ==
  /\ f.kind = "user_message"
  /\ Push(f.content)
  /\ yielded' = NoMessage
  /\ UNCHANGED <<phase, exitCode, stdin, readerDone, done, toolVars, sent, failed>>

\* The resolver of the matching entry is called; an unknown question is logged.
AnswerQuestion(f) ==
  /\ f.kind = "answer_question"
  /\ LET c == f.question_id
     IN IF c \notin pending THEN UNCHANGED <<toolVars, sent>>
        ELSE /\ pending' = pending \ {c}
             /\ sent' = [sent EXCEPT ![c] = f.answers]
             /\ call' = [call EXCEPT ![c] = IF @ = "asked" THEN "answered" ELSE @]
             /\ result' = [result EXCEPT ![c] = IF call[c] = "asked" THEN f.answers ELSE @]
             /\ UNCHANGED asked
  /\ yielded' = NoMessage
  /\ UNCHANGED <<phase, exitCode, stdin, queueVars, sdkVars, accepted, failed>>

\* q.interrupt(): the SDK gives up the turn.  A question of it stays pending:
\* the handler does not look at the signal.
Stop(f) ==
  /\ f.kind = "stop"
  /\ phase = "query"
  /\ done < Len(taken)
  /\ done' = done + 1
  /\ call' = [c \in Calls |-> IF call[c] = "asked" THEN "aborted" ELSE call[c]]
  /\ yielded' = NoMessage
  /\ UNCHANGED <<phase, exitCode, stdin, queueVars, taken, readerDone, result, pending,
                 asked, accepted, sent, failed>>

\* One line of stdin: what is not a control frame is dropped.
Dispatch ==
  /\ Running /\ stdin = "open"
  /\ \E f \in Frames : IsControlFrame(f) /\ (UserMessage(f) \/ AnswerQuestion(f) \/ Stop(f))

\* (Mutant of Eof: the end of stdin is not passed on.)
EofIgnored ==
  /\ Running /\ stdin = "open"
  /\ stdin' = "eof"
  /\ UNCHANGED <<phase, exitCode, queueVars, sdkVars, toolVars, yielded, accepted, sent, failed>>

\* The end of stdin closes the prompts.
Eof ==
  /\ Running /\ stdin = "open"
  /\ stdin' = "eof"
  /\ Close
  /\ yielded' = NoMessage
  /\ UNCHANGED <<phase, exitCode, taken, done, toolVars, accepted, sent, failed>>

\* (Mutant of NextPrompt: a closed queue is over, whatever it still holds.)
NextUnlessClosed ==
  /\ phase = "query" /\ ~parked /\ ~readerDone
  /\ IF closed THEN /\ readerDone' = TRUE
                    /\ UNCHANGED <<taken, buffer, parked>>
     ELSE IF buffer # <<>> THEN /\ taken' = Append(taken, Head(buffer))
                                /\ buffer' = Tail(buffer)
                                /\ UNCHANGED <<parked, readerDone>>
     ELSE /\ parked' = TRUE
          /\ UNCHANGED <<taken, buffer, readerDone>>
  /\ yielded' = NoMessage
  /\ UNCHANGED <<phase, exitCode, stdin, closed, done, toolVars, accepted, sent, failed>>

-----------------------------------------------------------------------------
\* AsyncQueue.next, called by the SDK.
NextPrompt ==
  /\ phase = "query" /\ ~parked /\ ~readerDone
  /\ CASE buffer # <<>> ->
            /\ taken' = Append(taken, Head(buffer))
            /\ buffer' = Tail(buffer)
            /\ UNCHANGED <<parked, readerDone>>
       [] buffer = <<>> /\ closed ->
            /\ readerDone' = TRUE
            /\ UNCHANGED <<taken, buffer, parked>>
       [] OTHER ->
            /\ parked' = TRUE
            /\ UNCHANGED <<taken, buffer, readerDone>>
  /\ yielded' = NoMessage
  /\ UNCHANGED <<phase, exitCode, stdin, closed, done, toolVars, accepted, sent, failed>>

InTurn == phase = "query" /\ done < Len(taken)

\* parseAskUserQuestionInput: at least one question, each with a text and
\* options that have labels.
Parses(input) ==
  LET questions == Field(input, "questions", <<>>)
  IN /\ questions # <<>>
     /\ \A i \in DOMAIN questions :
          /\ Field(questions[i], "question", "") # ""
          /\ "options" \in DOMAIN questions[i]
          /\ \A j \in DOMAIN questions[i].options :
               Field(questions[i].options[j], "label", "") # ""

\* What the handler registry finds for the call, unless permissions are bypassed.
Handled(use) ==
  use.mode # "bypassPermissions" /\ use.tool = "AskUserQuestion" /\ Parses(use.input)

\* Input of the calls: a good question, two that do not parse, another tool.
Uses ==
  LET Option(l) == [label |-> l]
      Question(l) == [questions |-> <<[question |-> "q", options |-> <<Option(l)>>]>>]
  IN {[tool |-> t, mode |-> p, input |-> i] :
        t \in {"AskUserQuestion", "Bash"}, p \in {"default", "bypassPermissions"},
        i \in {Question("yes"), Question(""), [questions |-> <<>>]}}

\* (Mutant of AskBrowser: the question goes out, its resolver is not registered.)
AskUnregistered(c) ==
  /\ call' = [call EXCEPT ![c] = "asked"]
  /\ asked' = Append(asked, c)
  /\ UNCHANGED <<pending, result>>

\* The handler: the resolver is registered and the question written in the
\* same step, and the call waits.
AskBrowser(c) ==
  /\ call' = [call EXCEPT ![c] = "asked"]
  /\ pending' = pending \cup {c}
  /\ asked' = Append(asked, c)
  /\ UNCHANGED result

\* canUseTool, called by the SDK while a turn runs.  What no handler takes is
\* allowed at once.
CanUseTool(c, use) ==
  /\ InTurn /\ call[c] = "none"
  /\ IF Handled(use) THEN AskBrowser(c)
     ELSE /\ call' = [call EXCEPT ![c] = "allowed"]
          /\ UNCHANGED <<result, pending, asked>>
  /\ yielded' = NoMessage
  /\ UNCHANGED <<phase, exitCode, stdin, queueVars, sdkVars, accepted, sent, failed>>

\* A turn ends when its calls have returned.
TurnEnds ==
  /\ InTurn
  /\ \A c \in Calls : call[c] # "asked"
  /\ done' = done + 1
  /\ yielded' = NoMessage
  /\ UNCHANGED <<phase, exitCode, stdin, queueVars, taken, readerDone, toolVars,
                 accepted, sent, failed>>

\* One step of the `for await` loop: map the message, write its events.
Yield(m) ==
  /\ phase = "query"
  /\ yielded = NoMessage
  /\ yielded' = m
  /\ UNCHANGED <<phase, exitCode, stdin, queueVars, sdkVars, toolVars, accepted, sent, failed>>

\* The loop ends: the SDK got every prompt and is through with them.
QueryEnds ==
  /\ phase = "query" /\ readerDone /\ done = Len(taken)
  /\ phase' = "draining"
  /\ Close
  /\ yielded' = NoMessage
  /\ UNCHANGED <<exitCode, stdin, taken, done, toolVars, accepted, sent, failed>>

\* query() throws.
QueryFails ==
  /\ phase = "query"
  /\ phase' = "draining"
  /\ exitCode' = 1
  /\ failed' = TRUE
  /\ Close
  /\ yielded' = NoMessage
  /\ UNCHANGED <<stdin, taken, done, toolVars, accepted, sent>>

\* main waits for the control reader, then exits.
Exit ==
  /\ phase = "draining" /\ stdin = "eof"
  /\ phase' = "exited"
  /\ yielded' = NoMessage
  /\ UNCHANGED <<exitCode, stdin, queueVars, sdkVars, toolVars, accepted, sent, failed>>

RunnerNext ==
  \/ Launch \/ Dispatch \/ Eof
  \/ NextPrompt \/ TurnEnds \/ QueryEnds \/ QueryFails \/ Exit
  \/ \E c \in Calls, use \in Uses : CanUseTool(c, use)
  \/ \E m \in Messages : Yield(m)

\* The runner's own steps, and an SDK that goes on while it has something to do.
Fairness ==
  /\ WF_runnerVars(Launch) /\ WF_runnerVars(NextPrompt) /\ WF_runnerVars(TurnEnds)
  /\ WF_runnerVars(QueryEnds) /\ WF_runnerVars(Exit)

RunnerSpec == RunnerInit /\ [][RunnerNext]_runnerVars /\ Fairness
-----------------------------------------------------------------------------
Asking == {c \in Calls : call[c] = "asked"}

TypeOK ==
  /\ phase \in {"start", "query", "draining", "exited"}
  /\ exitCode \in 0 .. 2
  /\ stdin \in {"open", "eof"}
  /\ buffer \in Seq(Prompts) /\ taken \in Seq(Prompts) /\ accepted \in Seq(Prompts)
  /\ {closed, parked, readerDone, failed} \subseteq BOOLEAN
  /\ done \in 0 .. Len(taken)
  /\ call \in [Calls -> {"none", "asked", "answered", "aborted", "allowed"}]
  /\ result \in [Calls -> Answers \cup {NoAnswer}]
  /\ sent \in [Calls -> Answers \cup {NoAnswer}]
  /\ pending \subseteq Calls
  /\ asked \in Seq(Calls)
  /\ yielded \in Messages \cup {NoMessage}

\* Every prompt that was taken in reaches the SDK, once and in order, the ones
\* still buffered when stdin ends included; nobody is left parked next to a
\* prompt or in a closed queue (AsyncQueue).
PromptsInOrder ==
  /\ taken \o buffer = accepted
  /\ readerDone => buffer = <<>>
  /\ parked => buffer = <<>> /\ ~closed

\* The questions the browser can still answer are the ones the runner can
\* still resolve: what was written to stdout and has no answer is pending, a
\* question of an interrupted turn included.
PendingIsAsked ==
  /\ pending = {c \in Calls : sent[c] = NoAnswer /\ \E i \in DOMAIN asked : asked[i] = c}
  /\ Asking \subseteq pending

\* The answers a tool call gets are the first that were sent for its own
\* question (onAnswerQuestion); an answer that comes after the turn was
\* interrupted goes nowhere.
AnswersMatch ==
  \A c \in Calls : result[c] # NoAnswer => call[c] = "answered" /\ result[c] = sent[c]

\* What query() yields is shown, or a warning says it was not: what leaves
\* neither is a signature, an unreadable delta (the key of a delta without a
\* type is a known one), or no object.
Accounted ==
  yielded # NoMessage =>
    \/ MapSdkMessage(yielded) # <<>>
    \/ Warns(yielded)
    \/ ~IsObject(yielded)
    \/ /\ InnerType(yielded) = "content_block_delta"
       /\ Field(Delta(yielded), "type", "") \in {"", "signature_delta"}

\* No tool result is lost in a user turn that wraps several: each comes out as
\* an event of its own, in order.
ResultsKept ==
  yielded # NoMessage /\ Field(yielded, "type", "") = "user" =>
    LET content == Field(Field(yielded, "message", Scalar), "content", Scalar)
        blocks == Field(content, "blocks", <<>>)
        results == Among(blocks, {b \in Entries(blocks) : Field(b, "type", "") = "tool_result"})
        events == MapSdkMessage(yielded)
    IN results # <<>> =>
         /\ Len(events) = Len(results)
         /\ \A i \in DOMAIN results :
              /\ events[i].type = "tool_result"
              /\ events[i].tool_use_id = Field(results[i], "tool_use_id", "")

\* What the runner owes its questions.
RunnerInv == TypeOK /\ PendingIsAsked /\ AnswersMatch

\* What the mapper owes the messages of the SDK.
MessagesTold == Accounted /\ ResultsKept

\* After the end of stdin the runner exits, unless a question of the turn
\* waits for an answer that can no longer come.
EofEnds == (stdin = "eof") ~> (phase = "exited" \/ Asking # {})
=============================================================================
