------------------------------ MODULE Activity ------------------------------
(***************************************************************************)
(* What the sidebar says of the agent in a terminal (activity/mod.rs,      *)
(* api/hooks.rs): lifecycle events arrive over requests of their own and   *)
(* the last one handled wins; a Working that neither an event nor a byte   *)
(* of output has backed for a while is demoted when it is read; the        *)
(* terminal's foreground answers when the events say nothing.  The events  *)
(* are those of OpenCode's plugin (opencode_plugin.js), which counts the   *)
(* sessions of one process and leaves out what it last reported, or of     *)
(* Claude Code's hooks, one process for each.                              *)
(*                                                                         *)
(* The agents and the shell are outside this repository.  A tick is a part *)
(* of STALE_WORKING.                                                       *)
(***************************************************************************)
EXTENDS Integers, FiniteSets

CONSTANTS
  Stale,      \* STALE_WORKING, in ticks
  Lodgers,    \* OpenCode's sessions in the terminal's process
  MaxHooks    \* bound on what the agent and the world do

Never == -1

ASSUME ActivityAssumption ==
  Stale \in Nat \ {0} /\ MaxHooks \in Nat /\ Never \notin 0 .. Stale

VARIABLES
  kind,      \* whose events arrive: "opencode" or "claude"
  agent,     \* Claude: "gone", "ready", "turn", "asks", "prompt" (a turn was broken off)
  midTurn,   \* OpenCode: the plugin's set busy
  lastTold,  \* OpenCode: the plugin's last
  posts,     \* requests on their way: [n, event, alone: nothing else happened meanwhile]
  doubt,     \* what the plugin last told and what the server last heard may differ
  activity,  \* Conversation.activity
  heardAge,  \* age of activity_set_at
  outAge,    \* since_last_output, or Never
  foreground,\* foreground_running: "none", "shell" or "command"
  spent      \* bound, and number of the next request

activityVars == <<kind, agent, midTurn, lastTold, posts, doubt, activity, heardAge, outAge,
                  foreground, spent>>

ActivityInit ==
  /\ kind \in {"opencode", "claude"} /\ agent = "gone" /\ midTurn = {} /\ lastTold = "none"
  /\ posts = {} /\ doubt = FALSE /\ activity = "unknown" /\ heardAge = 0 /\ outAge = Never
  /\ foreground = "none" /\ spent = 0

\* activity_for_hook, of HOOK_BINDINGS and OPENCODE_EVENT_BINDINGS; an event that
\* is not modelled leaves the activity alone.
ActivityFor ==
  [SessionStart |-> "idle", UserPromptSubmit |-> "working", ToolUse |-> "working",
   PermissionRequest |-> "awaiting_input", Stop |-> "awaiting_input", SessionEnd |-> "unknown",
   PreCompact |-> "(none)",
   created |-> "idle", busy |-> "working", idle |-> "awaiting_input", asked |-> "awaiting_input"]

\* Activity::demote_if_stale.
Demoted(a) ==
  IF a = "working" /\ outAge # Never /\ heardAge >= Stale /\ outAge >= Stale
  THEN "awaiting_input" ELSE a

\* Activity::resolve.
Resolved(a) ==
  CASE a = "unknown" /\ foreground = "command" -> "working"
    [] a = "unknown" /\ foreground = "shell"   -> "idle"
    [] OTHER -> a

\* Conversation::info: what the sidebar is told.
Reading == Resolved(Demoted(activity))

-----------------------------------------------------------------------------
Spend == spent < MaxHooks /\ spent' = spent + 1

\* A report leaves, or none; what is still on its way is not alone any more.
Crowded == {[p EXCEPT !.alone = FALSE] : p \in posts}
Post(event) == posts' = Crowded \cup {[n |-> spent, event |-> event, alone |-> posts = {}]}

\* (Mutant of AppliedEvent: any session that goes idle makes the pane idle.)
AppliedAlone(type, s) ==
  CASE type = "busy"  -> [set |-> midTurn \cup {s}, event |-> "busy"]
    [] type = "idle"  -> [set |-> midTurn \ {s}, event |-> "idle"]
    [] OTHER -> [set |-> midTurn, event |-> type]

\* applyEvent: what OpenCode's plugin makes of an event of session s, and its set.
AppliedEvent(type, s) ==
  LET in  == midTurn \cup {s}
      out == midTurn \ {s}
      Busy(set, else) == IF set # {} THEN "busy" ELSE else
  IN CASE type = "created" -> [set |-> midTurn, event |-> Busy(midTurn, "created")]
       [] type = "busy"    -> [set |-> in, event |-> "busy"]
       [] type = "idle"    -> [set |-> out, event |-> Busy(out, "idle")]
       [] type = "asked"   -> [set |-> midTurn, event |-> "asked"]

\* The event handler: a report that says what the last one said is left out.
\* OpenCode does not wait for a handler, so a report may be on its way.
PluginEvent(type, s) ==
  /\ kind = "opencode" /\ Spend
  /\ LET it == AppliedEvent(type, s) IN
     /\ midTurn' = it.set
     /\ IF it.event = lastTold THEN posts' = Crowded ELSE Post(it.event)
  /\ UNCHANGED <<kind, agent, lastTold, doubt, activity, heardAge, outAge, foreground>>

\* What Claude Code does, and the event it fires; none when a turn is broken off
\* and when the process is killed.
AgentMoves ==
  {<<"gone", "ready", "SessionStart">>, <<"ready", "turn", "UserPromptSubmit">>,
   <<"prompt", "turn", "UserPromptSubmit">>, <<"turn", "turn", "ToolUse">>,
   <<"asks", "turn", "ToolUse">>, <<"turn", "turn", "PreCompact">>,
   <<"turn", "asks", "PermissionRequest">>, <<"turn", "ready", "Stop">>,
   <<"ready", "gone", "SessionEnd">>, <<"prompt", "gone", "SessionEnd">>,
   <<"turn", "prompt", "(none)">>, <<"turn", "gone", "(none)">>}

\* A hook runs in a process of its own and Claude Code waits for it; one that
\* takes too long is left to itself.
HookFires(move) ==
  /\ kind = "claude" /\ agent = move[1] /\ Spend
  /\ agent' = move[2]
  /\ IF move[3] = "(none)" THEN UNCHANGED posts ELSE Post(move[3])
  /\ UNCHANGED <<kind, midTurn, lastTold, doubt, activity, heardAge, outAge, foreground>>

\* ingest_hook and set_activity: under the lock, whichever request comes last wins.
Ingest(event) ==
  IF ActivityFor[event] = "(none)" THEN UNCHANGED <<activity, heardAge>>
  ELSE activity' = ActivityFor[event] /\ heardAge' = 0

\* A request is handled and the sender learns it; or one of both fails.
Posted(p, heard, known) ==
  /\ p \in posts /\ posts' = posts \ {p}
  /\ IF heard THEN Ingest(p.event) ELSE UNCHANGED <<activity, heardAge>>
  /\ lastTold' = IF kind = "opencode" /\ known THEN p.event ELSE lastTold
  /\ doubt' = IF ~(heard /\ known /\ p.alone) THEN TRUE
              ELSE doubt /\ ActivityFor[p.event] = "(none)"
  /\ UNCHANGED <<kind, agent, midTurn, outAge, foreground, spent>>

-----------------------------------------------------------------------------
\* The terminal prints (attach/mod.rs); time passes.
Prints ==
  /\ outAge # 0 /\ outAge' = 0
  /\ UNCHANGED <<kind, agent, midTurn, lastTold, posts, doubt, activity, heardAge, foreground, spent>>

Older(age) == IF age = Never \/ age = Stale THEN age ELSE age + 1
TickHooks ==
  /\ heardAge' = Older(heardAge) /\ outAge' = Older(outAge)
  /\ <<heardAge, outAge>>' # <<heardAge, outAge>>
  /\ UNCHANGED <<kind, agent, midTurn, lastTold, posts, doubt, activity, foreground, spent>>

\* The daemon samples the foreground and tells a change (spawn_foreground_watcher);
\* while an agent runs it is a command.
Present == kind = "opencode" \/ agent # "gone"
SampleForeground(x) ==
  /\ foreground # x /\ (Present => x = "command") /\ foreground' = x
  /\ UNCHANGED <<kind, agent, midTurn, lastTold, posts, doubt, activity, heardAge, outAge, spent>>

\* The server restarts and attaches again: the activity is unknown, and the
\* foreground is told with the first frames (handle_client).
ServerAgain ==
  /\ Spend /\ activity' = "unknown" /\ heardAge' = 0 /\ outAge' = Never
  /\ foreground' \in {"none", foreground} /\ doubt' = TRUE
  /\ UNCHANGED <<kind, agent, midTurn, lastTold, posts>>

ActivityNext ==
  \/ \E type \in {"created", "busy", "idle", "asked"}, s \in Lodgers : PluginEvent(type, s)
  \/ \E move \in AgentMoves : HookFires(move)
  \/ \E p \in posts, heard, known \in BOOLEAN : Posted(p, heard, known)
  \/ Prints \/ TickHooks \/ ServerAgain
  \/ \E x \in {"shell", "command"} : SampleForeground(x)

-----------------------------------------------------------------------------
Told == posts = {} /\ ~doubt

\* OpenCode: once its reports have arrived, the pane works if and only if some
\* session of the process is in the middle of a turn, the demotion and a question
\* to the user aside.
PaneIsSumOfSessions ==
  kind = "opencode" /\ Told =>
    /\ activity = "working" => midTurn # {}
    /\ midTurn # {} => activity = "working" \/ lastTold = "asked"
    /\ lastTold # "none" => activity = ActivityFor[lastTold]

\* A turn that still prints is not given up, whatever the hooks last said when.
LiveTurnIsKept ==
  kind = "claude" /\ Told /\ agent = "turn" /\ outAge # Never /\ outAge < Stale => Reading = "working"

\* Working is said only of a turn, of a command that no agent speaks for, or of a
\* turn that ended unheard and has been silent for less than a minute.
WorkingIsBacked ==
  kind = "claude" /\ Told /\ Reading = "working" =>
    \/ agent = "turn"
    \/ activity = "unknown" /\ agent = "gone" /\ foreground = "command"
    \/ outAge = Never \/ outAge < Stale \/ heardAge < Stale

ActivityTold ==
  /\ heardAge \in 0 .. Stale /\ outAge \in {Never} \cup 0 .. Stale
  /\ PaneIsSumOfSessions /\ LiveTurnIsKept /\ WorkingIsBacked
=============================================================================
