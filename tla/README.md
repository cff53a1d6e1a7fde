# neige in TLA+

neige lets a browser run terminal and chat sessions on a server. This directory
holds TLA+ models of the parts of it that are concurrent, survive failures or keep state
a user relies on, the TLC configurations that check them, and TLAPS proofs about them.

## The system

```
 pages (src/web, src/web-mobile)      neige-server                      per session
 useTerminalCore.ts  <-- WebSocket --  ws.rs -----+
 useChatSession.ts   <-- WebSocket --  chat_ws.rs  |--  unix socket --  neige-session-daemon -- PTY child
 useConversations.ts <-- polling   --  api/*       |                                        \- node chat runner
 useConfig.ts                          ConversationManager                                      |  Claude SDK
 AI agents --> MCP tools, lifecycle hooks --+
```

| component | source | state it keeps | operations | how it interacts |
|---|---|---|---|---|
| terminal daemon | `neige-session/src/bin/daemon.rs` | replay ring, broadcast channel, foreground flag, PTY | read PTY, attach, forward, resize, kill, shut down | threads for reader, writer, child; one task per connection |
| SessionClient | `neige-server/src/attach/mod.rs` | history with seqs, `attach_id`, `alive`, DEC modes | connect, reader task, attach | reader and attach share the history lock |
| WebSocket handlers | `api/ws.rs`, `api/chat_ws.rs` | receiver, sender | resume if detached, prime, forward | take the manager mutex, then the history lock |
| terminal page | `useTerminalCore.ts`, `clipboard.ts` | `last_seq`, `attach_id`, write buffer, xterm, size, staged copy | receive, reconnect, remount, fit, copy | refs survive an effect re-run, the xterm does not |
| ConversationManager | `conversation/mod.rs` | conversations, `chat_by_name`, session files | create, resume, update, rename, remove, load | one tokio mutex, held across awaits |
| daemon spawning | `attach/daemon.rs`, `neige-session/src/lib.rs` | socket paths | spawn, poll for readiness, kill | a process that outlives the server |
| chat SessionClient | `attach/chat.rs` | event history without an epoch | connect, inject, attach | like SessionClient |
| chat runner | `runners/neige-chat-runner` | prompt queue, pending questions | control lines, SDK turns | stdin and stdout of the daemon |
| chat page | `useChatSession.ts`, `chat/derive.ts`, `chat/components` | events, last seq, drafts, cards | receive, derive, send, edit, answer, stop | appends what it receives and what it sends |
| questions | `mcp/tools/ask_question.rs`, `api/chat_ws.rs` | `pending_questions` | ask, answer | a oneshot per question |
| chat turns | `mcp/chat.rs` | aggregator | send and wait | receiver above a baseline seq |
| activity | `activity/*`, `api/hooks.rs` | activity and its age, the plugin's set | hook events, demotion | last event wins |
| DEC modes | `attach/dec_modes.rs` | active modes, scanner carry | feed, restore | fed with the history |
| login | `auth/*` | sessions, attempts | log in, validate, log out, limit | in memory only |
| desktop page | `web/src/App.tsx`, `TaskTree.tsx`, `useConfig.ts`, `CreateDialog.tsx`, ... | panels, layout, expanded rows, the user's document, forms | open, close, delete, restore, save, pick, create | a polled list, a document saved as a whole, requests that answer late |
| file viewer | `FileViewer.tsx`, `FileSearch.tsx`, `api/fs.rs` | text, etag, ranges of a search | load, refresh, revisit, draw, search | one highlight registry for all panels |
| mobile page | `web-mobile/src` | cards, active index, unread counts | add, remove, touch, create | stored in the browser |

What is hard: reconnecting a browser to a stream that has moved on, or started
over, without losing or repeating output; two in-memory maps and a directory that
must agree although requests can be cancelled at any await and the server can
crash anywhere; daemons that outlive the server and appear late; bounded buffers in
every hop; events whose stream has to be inferred; and pages whose lists, answers,
timers and animation frames come in any order. `PROJECT.json` lists the hazards with
the line where each one bites and the properties that watch it.

What makes each part correct:

- *stream*: a browser shows a window of the output that ends where it has got to,
  without holes other than those a lagging receiver made, never goes back, never
  repeats; its cursor is true; if the faults stop it catches up. The xterm and the
  PTY end up with the size of the container, and the program repaints after a snapshot.
- *chat stream*: a page's events are in order, those of one client without gaps or
  repeats; an injected event travels like any other.
- *chat page*: every message is shown once, in its own stream, with what was said in
  it; the user's bubbles are what was sent; an answer is what was last picked.
- *runner*: every prompt reaches the SDK in order, every answer its own question, and
  what the SDK yields is shown or warned about; the end of stdin ends it.
- *questions*: an answer reaches the tool that waits for it.
- *turns*: a call that has a session for itself gets its own turn, whole; nobody waits
  for a runner that has nothing left to say.
- *manager*: a name resolves to the session that bears it, every chat session can
  be addressed, agents nest one level deep and never outlive their task, a deleted
  session is gone from memory and disk.
- *daemon*: once told to end it ends, leaves no process and no socket; one daemon
  serves a session and is reached at its path.
- *activity*: working is said of what works, and waiting of what waits, once the reports
  have arrived.
- *pages*: a tab stays while its session lives and goes with it; no change of the document
  undoes another; a form creates what it showed; a panel shows what its file is.

## Modules

| module | models | role |
|---|---|---|
| `Ring` | the eviction loop of `ByteBuffer`, `EventBuffer`, `History` | pure operators |
| `PtyDaemon` | the daemon's output path, in both modes | component, no `Next` of its own |
| `TermStream` | SessionClient, WebSocket handler and page, over `PtyDaemon` | composition, all properties of the stream |
| `Screen` | what attaching a browser promises | abstract specification of `TermStream` |
| `ChatStream` | chat SessionClient, WebSocket handler and page, over `PtyDaemon` | composition, properties of the event stream |
| `Questions` | `ask_question` on the caller's own session, over `ChatStream` | composition, properties of questions |
| `Sessions`, `MCSessions` | ConversationManager, session files, daemons | component, its properties |
| `NameBook` | what addressing by name promises | abstract specification of the index |
| `Mapper` | `mapper.ts`: SDK messages to events | pure operators |
| `Runner`, `MCRunner` | the runner's queue, control reader, questions and exit, over `Mapper` | component, liveness |
| `Timeline` | `derive.ts`: events to timelines | pure operators, over `Mapper` |
| `Cards` | the card of a question | pure operators |
| `ChatPage`, `MCChatPage` | SDK, wire, page, user, over `Mapper`, `Timeline` and `Cards` | composition |
| `TermResize`, `TermClipboard` | size, repaint and copies of a mounted terminal | components |
| `Lists` | `Array.prototype.filter` and `indexOf` | pure operators |
| `TaskList` | `tasks.ts`, the tree's rows, `layoutSanitize.ts`, the roll-up of activity | pure operators |
| `Desk` | the desktop's list, panels, layout and tree, over `TaskList` | component |
| `UserConfig`, `CreateForm`, `Pickers` | the user's document, the form, picker and launcher | components |
| `Viewer`, `WebPanel`, `MarkdownLinks` | file panels, web panels, links | components, pure operators |
| `CardStack`, `NewCard` | the mobile stack and its form | components |
| `MCPages` | the pages' parts | model checking |
| `DecModes` | the mode scanner and the primed snapshot, over `Ring` | component |
| `Activity`, `Login`, `ChatTurns`, `DaemonLife` | as named | components |
| `MCServer` | the server's smaller parts | model checking |
| `DaemonProofs` | lemmas about `Ring` and `PtyDaemon`, for the first two of the next | proofs |
| `PanelProofs` | lemmas about lists, `Desk`, `Viewer`, `WebPanel` and `MarkdownLinks`, for `PagesProofs` | proofs |
| `TermStreamProofs`, `QuestionsProofs`, `SessionsProofs`, `ChatProofs`, `ServerProofs`, `PagesProofs` | inductive invariants and their consequences | proofs |

A definition named in a comment as a *mutant of X* is a plausible bug in X; no
specification uses it, and `PROJECT.json` says which property each one breaks. A
constant named *plans* or *budgets* is a set of bounds, one of which a behaviour draws
at first: which kinds of steps the user and the world take, and how many.

### How `PtyDaemon`, `TermStream` and `Ring` correspond to the code

A chunk is one PTY read; its bytes are its number, counted over all daemons of the
session, and its size is 1. `Ring!Evict` is the loop the three buffers share.

- `PtyRead` and `PtyBroadcast` are the two halves of one turn of `spawn_pty_reader`:
  the ring is locked for the first, the broadcast comes after. `ChildExit` is
  `spawn_child_waiter`, a thread of its own, so `Exit` may overtake `PtyBroadcast`.
- `Accept` subscribes the connection; `Connected` is the Hello with the snapshot of the
  ring, taken later. Between the two the reader can run. Both happen inside
  `ConversationManager::resume`, under the manager mutex, which `LockFree` stands for.
- `ReadStdout`, `ReadExit`, `ReadEof` are the arms of the reader task in
  `SessionClient::connect`. Appending to the history and sending on `tx` are one step
  because both happen under the history lock, and so does `Attach`, which subscribes
  and computes `CatchUp` under it.
- `Upgrade`, `Attach` are `ws_handler` and the first half of `handle_ws`; `Receive` is
  `send_task`, the network and `ws.onmessage` (`Paint`) in one: what the broadcast
  receiver holds and what is in flight are one queue.
- `Drop`, `Remount`, `Restart`, `DaemonGone` are the faults. A drop loses whatever was
  on its way; `lastSeq` and `aid`, which are React refs, survive a remount, the xterm
  (`view`) does not.
- `top` in a frame is a history variable: the highest seq whose bytes the frame carries.

Left out here: stdin, resize (`TermResize`), the DEC mode prefix of a snapshot
(`DecModes`), `Foreground` frames (`Activity`), the heartbeat, `alive = false` set by the writer side, and an upgrade request cancelled in
the middle of its resume. The unix socket is a rendezvous: frames wait in the broadcast
receiver only. The model allows one tab to have one WebSocket at a time, as the page
does.

### How `ChatStream` and `Questions` correspond to the code

The chat daemon moves lines of its runner as the terminal daemon moves reads of its
PTY: `spawn_chat_stdout_reader` appends and then broadcasts, the exit watcher is a task
of its own, `accept_chat_loop` subscribes before `handle_chat_client` copies the
`EventBuffer` for `HelloChat`. So `ChatStream` takes `PtyDaemon` as it is, an event for
a chunk.

- `Resume`, `Connected`, `ResumeFailed` are `chat_ws_handler`'s resume and
  `ChatSessionClient::connect`, `Seeded` its loop over the replay. A new client numbers
  from 1 again: `client` counts clients, and an envelope's `by`, a history variable,
  says whose seq it carries. A failed resume is ignored when a dead client is there.
- `Publish` is the critical section of the reader task (`ReadEvent`) and of
  `inject_synthetic_event` (`Inject`): seq, history and broadcast under the history
  lock. `CatchUp` is `attach`.
- `Take` is `ws.onmessage`: it appends whatever comes and takes its seq as the cursor,
  forwards or backwards. `Drop` keeps both, `Reload` resets both.
- In `Questions`, `Register`, `Surface`, `HangUp` are `self_ask` before, at and after its
  injection; `Answer` is the `AnswerQuestion` arm of `handle_inbound`, which tries
  `pending_questions` first and passes the answer to the runner otherwise (`forwarded`);
  `Submit` is the card, which submits once and only while the page is past its hello;
  `RemoveSession` is `remove_one`.

Left out here: user messages, stop and the bubbles the page shows for them at once
(`ChatPage`); what an answer says (`Cards`); the runner's own questions (`Runner`) and
those to another session, which are turns (`ChatTurns`). `RemoveSession` is one step: no step of the stream that needs the
manager can fall into its await.

### How `Sessions` corresponds to the code

`convs`, `byName` are the maps of `ConversationManager`; `attached` are conversations
with a live client; `files` and `todos` are `.neige/sessions/*.json` and the todos
files; `daemons` are the processes. `op` is the operation that holds the manager mutex
while it awaits, with the step it awaits at: `Create` and `Resume` are the parts before
`spawn_daemon`, `Spawn` its outcomes, `ConnectFailed` and `Connected` what follows.
`Remove` lists the children, `RemoveKill` is the await in `kill_session`, `RemoveDrop`
the rest of `remove_one`. `Cancel` drops the handler at whichever await it is at: axum
drops a handler's future when its client hangs up, and the mutex guard goes with it.
`Rename` and `Update` have no await and are one step. `Restart` loads the files, in any
order of `read_dir`: of several files of one name any may be the one that is indexed.

`Save` and `FilesWithout` fail silently when `DiskFaults` holds, as `save_session` and
`remove_session_file` do; a failed write leaves the old file or an unreadable one, which
`load_sessions` skips. `Trim` is `str::trim`: `rename_chat` trims, `create` does not.

Left out: titles, programs, working directories, worktrees and activity; blank names,
which create and rename refuse; the file of a session is one unit, and the removal of
the session file and of the todos file are one step; `kill_session` always stops the
daemon that listens.

### How `Mapper`, `Runner`, `Timeline` and `ChatPage` correspond to the code

- A JavaScript object is a record of the fields it has, so that an absent field and one
  of another type are the same to `stringField` and to `Field`. `MapSdkMessage` has one
  case for each arm of the mapper, `Warns` the warnings.
- `Dispatch` is a line of stdin (`control.ts`); `CanUseTool` is the permission callback,
  which awaits `askUserQuestion` for one tool; `NextPrompt` and `Close` are `AsyncQueue`,
  `Launch`, `QueryEnds`, `QueryFails` and `Exit` the stages of `main`. `Yield` maps one
  message of the SDK and leaves the state alone. The SDK is external.
- `Parents` is `bucketByParent`: a delta without a message id goes where the last event
  that established a stream went. `Timeline` reduces each bucket.
- In `ChatPage` the assistant speaks in SDK messages (`said`), which `Mapper` puts on the
  wire; `Deliver` is `onmessage`; `SendMessage` appends the user's own bubble to what
  was received, in the middle of whatever streams. Cards are mounted and unmounted with
  the keys React would see.

### How the modules of the pages correspond to the code

A save is an element of `saves` or `posts`, in the order in which they were made, and any of
them may be the next to arrive (`SaveArrives`, `PostArrives`) or to fail (`SaveFails`, `PostFails`).
`newest` and `newestLayout` only remember what became of the newest one (`Whereabouts` in `Lists`);
no action reads them.

React runs effects before it takes the next event, so an action of `Desk`, `UserConfig`,
`CreateForm`, `Pickers`, `Viewer` and `CardStack` is an event handler together with the
effects its new state sets off. `born` in `Desk` only remembers which sessions there ever
were, so that no uuid is made twice; no action of the page reads it. What a request answers is fixed in the step in which the
server handles it and arrives in a later one. A handler uses the state it closed over,
where it does so in the code. In `TermResize` timers are pending events that fire in the
order of their delays, animation frames fire while the tab is visible. `Viewer` gives
each file a sequence of versions on the disk, and `Hits` says how often a pattern is in
each, before and after diagrams are drawn; `Paint` writes the one registry of highlights
the browser has.

### How the modules of the server's smaller parts correspond to the code

- `DecModes`: the program writes whole tokens, `Read` cuts the bytes anywhere. `Feed` is
  the scanner, on bytes; the reference (`Effect`) knows tokens only. `Primed` is the
  snapshot a page is reset with.
- `Activity`: `PluginEvent` is the plugin's handler up to its `fetch`, `Posted` the request
  as the server handles it, or not, and as its sender learns of it, or not. A hook of
  Claude Code is one such request, from a process of its own. `Reading` is what
  `Conversation::info` makes of it when somebody looks.
- `Login`: `Submits` counts first and checks the token then, as `login_submit` does.
- `ChatTurns`: `Subscribe` is what `send_and_wait` does under the manager's mutex, the
  resume of a dead session included, `PostMessage` and `Receive` come after. Channels of
  the client are inboxes of the calls that subscribed to it.
- `DaemonLife`: the stages of a daemon are the awaits of `run_terminal` after its
  `select!`. `LookUp` reads `/proc`, `KillThem` signals what was found, and processes
  fork in between. `Unlink` removes whatever file has the path by then.

## Runs

| run | configuration | question | bounds |
|---|---|---|---|
| `term_stream` | `TermStream.cfg` | is what a tab paints in order, complete up to lags, and its cursor true; does it implement `Screen` | 1 tab, 3 chunks, a ring of 1 and a channel of 2, 2 daemons, 1 server restart, 1 drop |
| `term_stream_remount` | `TermStreamRemount.cfg` | does it implement `Screen` when the xterm is rebuilt while the history rolls over | 1 tab, 4 chunks, 1 remount, 1 drop |
| `term_stream_live` | `TermStreamLive.cfg` | does a tab catch up by itself | 1 tab, 2 chunks, 2 daemons, 1 restart, 1 drop |
| `chat` | `Questions.cfg` | are a page's events in order and complete, with repeats only where the handshake overlaps; does an answer reach the tool that waits | 1 page, 1 runner event, 1 question, 1 restart, 2 drops, 1 reload, 1 deletion |
| `sessions` | `Sessions.cfg` | do index, files and task tree agree, does a deleted session stay deleted; does the index implement `NameBook` | 2 uuids, 2 names, a disk that works, slow daemons, `todo_write` |
| `sessions_faults` | `SessionsFaults.cfg` | what still holds when any file operation may fail | 3 uuids, 2 names |
| `runner` | `Runner.cfg` | do prompts, answers and messages all arrive where they should; does the runner end with its stdin | 2 prompts, 2 tool calls, 2 answers, every shape of message the mapper tells apart and some it does not know |
| `chat_page` | `ChatPage.cfg` | does the page show what was said, where it was said, and send what the user meant | 7 plans: up to 4 messages, 2 sub-agents inside each other, 2 sends, 2 questions, a drop, a reload |
| `pages` | `Pages.cfg` | what each part of the pages owes its user | plans of 2 to 6 steps for each part, see below |
| `server` | `Server.cfg` | what each of the server's smaller parts promises | see below |
| `sessions_rename`, `chat_page_locks` | `SessionsRename.cfg`, `ChatPageLocks.cfg` | the two findings below | small |

**The stream, chat and manager runs.** Every buffer has a capacity at which its limit is
met within the run: the ring holds 1 chunk, the history 2, each broadcast channel 1. The
history is twice the ring because it is in the code (2 MiB against a default of 1 MiB),
so that a seeded entry never exceeds it. The daemon's channel holds more than its ring, as it may
in the code, so that a handshake can be overrun. Three or four chunks are enough to fill the
history, roll it over and still have a live chunk behind it; in `chat` the runner's
event, the dialog and the event once more, which the handshake can repeat, do; two
daemons make one change of `attach_id`; a second drop, restart or remount starts from a
state of the same shape as the first. Tabs and pages meet only in the client they share,
which any of them may resume: one is checked, and the theorems hold for any number. In
`chat` a page that is opened afresh submits a dialog again, so a question gets two
answers. With three uuids a task has two agents, or two sessions quarrel over a name
while a third is being created; with two a task has one agent. Uuids are never reused,
so a run of the manager ends when they are used up (`CHECK_DEADLOCK FALSE`), as every
other run does when its bounds are. One of the two names is the other with white space
around it.

**`chat_page`.** Each plan is a small conversation in which one difficulty is as large as
it needs to be: two sub-agents that speak in turns inside each other; a reload at any
event, so that a Task call may be outside the window; blocks of all kinds in two pieces;
the user's own messages in the middle of a stream; two questions with two gestures, or
one with four; the mobile bar. Tasks are symmetric: only the names of sub-agents are
exchanged, which no definition orders.

**`pages` and `server`.** The parts share no state, so a behaviour exercises one of them and
the others stay in an initial state; the run is the union of their state spaces. What is
pure (`TreesAreComplete`, `HintsAreUnique`, `WaitersAreSeen`, `LinksAreWalks`) is checked
on every list of up to three conversations with parents that may be gone or circular,
every two or three directories of depth up to three, every mood of a task's agents, and
every link of up to three segments. A plan combines the two or three kinds of steps that
can get into each other's way - open a tab, fetch an older list, delete; type, submit,
type again while the answer is on its way - with as many steps as the longest of those
stories has, four to six. A terminal is first shown in the larger of two rooms or in none
(growing from the smaller to the larger takes two changes). In `server`: three tokens of a program, cut into reads at every
byte, with a carry of 6 bytes that two of the sequences exceed; four hooks or events of
two sessions, requests that are handled, or not, in any order, and a staleness of two
ticks; a limit of two attempts in a window of two ticks, two peers, a restart; two calls of a
tool beside a page, a channel of two; two daemons for one session, a leader and a job
that ignore the hangup and a job that does not.

The proofs do not depend on these bounds.

**Fairness.** `FairSpec` of `TermStream`, for `CatchesUp`: the tasks of the daemon and the
server run (`PtyBroadcast`, `Connected`, `ResumeFailed` and the reader task), a closed page
reconnects (`scheduleReconnect` has no limit on retries) and an open socket is read.
Nothing is assumed of exits, faults, or output. `CatchesUp` assumes that the daemon
stays up from some point on and that the tab is not left on a client the server has
replaced: the code has no way out of that state until the socket breaks. In `Runner`, for
`EofEnds`, the runner's own awaits go on and the SDK reads its prompts and ends the turns it
runs; nothing is assumed of the user, so a question may wait for ever. In `DaemonLife`,
for `KillEnds`, each await of `run_terminal` after the `select!` is a timer or the child's
exit bounded by one (`HANGUP_GRACE`, 200 ms): weak fairness of the step that follows.

### Findings

The two runs that end in a violation show where the code does not do what it says;
`PROJECT.json` quotes the lines.

- `RenameSparesOthers` (`sessions_rename`): renaming the unindexed one of two sessions
  of one name takes the name from the other one.
- `LocksAfterSubmit` (`chat_page_locks`): the card of a question is mounted below a key
  that changes whenever the timeline is derived anew, if a message of the user comes
  before it; it forgets that it was answered.

### What the models also show

Behaviours of the code that are worth knowing and that no run of this directory checks, because
they are exceptions the properties name, or were met while the models were written:

- A remount keeps the cursor and replaces the xterm (`useTerminalCore.ts:593`): the server
  may answer with nothing and the terminal stays empty, against `ws.rs:34`. `ClaimIsTrue` is
  checked without remounts.
- The daemon subscribes a connection before it copies the ring for its Hello
  (`Accept`, `Connected`), and the channel holds more than the ring: 2048 reads of up to 8 KiB
  against 1 MiB. If the program prints more than a ring of output between the two, what the
  channel kept and the ring has evicted is painted after the replay, older than it. `Overrun`
  says when a handshake has met that, and `overrun` that one has; from then on `Screen`
  promises nothing (`Tear`, `Garble`). Both runs of `ScreenSpec` reach it
  (`DaemonCap = 2`, `RingMax = 1`). The other properties of `TermStream` do not depend on it.
- The saves of a page are requests of their own that nobody waits for, orders, or tries again
  (`useConfig.ts:53`, `TerminalPanel.tsx:71`, `api.ts:119`, `:160`). Of two on their way, for instance a
  change of the document and the pruning it sets off, the older may come last and is then
  what the server keeps (`overtaken`); one that fails is lost until the next change (`unsaved`);
  and two that `save_config` writes at once, without a lock, may leave a file that is no document
  and is taken for an empty one (`SavesMix`). `StoredIsShown` and `SavedTabsStay` are about a
  document and a layout the newest save of which has arrived, and was the last to arrive.
- Chat seqs start over with every client and `attach` has no `attach_id` to notice: a page
  that comes back with a `last_seq` of the old client misses the first events of the new
  one.
- The deletion of a session does not touch `pending_questions`; a todos file written after
  the removal stays, and a daemon that becomes ready after the server has given up on it
  survives the deletion of its session (`astray` in `DaemonLife`), and may lose its socket
  to another one.
- The repaint after a snapshot may be a resize the program sees as none: the kernel does
  not signal a size the PTY already has.
- A terminal of one row gets no forced redraw (`useTerminalCore.ts:343`): after a snapshot the
  PTY keeps the size it was spawned with, and `pendingForceRedraw` stays set until there is
  more room (the exception `pendingForce` of `SettledFits`).
- `send_and_wait` waits on when its daemon dies until somebody resumes the session
  (`Fail` in `ChatTurns`); with two callers on one session, either may get the other's
  turn: `AnswerIsMine` is about a call that was alone.
- A soft reset (`ESC [ ! p`) whose first three bytes end a read is not carried, and a
  restored snapshot never turns a default-on mode off (`dec_modes.rs:129`, `:187`): modes
  7 and 25 are left out of `Tracked`.
- After a restart of the server an agent that waits reads as working until its next hook,
  because its foreground is a command (`ServerAgain` in `Activity`); a report the server
  handled and the plugin saw fail is told again or, overlapped, left out.
- The login limiter's fixed window lets nearly twice the limit through around its edge
  (`LimitHolds`).
- The runner does not exit when `query()` ends naturally (`cli.ts:14`): it waits for the
  end of stdin.
- A user's message in the middle of a sub-agent's takes the rest of that message to the
  root's timeline (`cut` in `ChatPage`); an editor that is open is closed by the next
  event; the mobile bar is emptied when nothing could be sent (`ComposeBar.tsx:46`).
- On the desktop: a restore that fails is saved over by the next change; closing the page
  within half a second of a change loses it, and a reload may break off a save that is on
  its way, or let it arrive later, over the layout the new page has loaded; a failed deletion leaves the tabs closed;
  two pages overwrite each other's document. A poll that was answered before a session was
  created and arrives after its tab was opened closes that tab, although the session lives
  (`App.tsx:363`): `TabsStay` is about tabs that every list has known since they were opened, and
  `wanted` gives up what a list lacks. What the page was used for before its document was
  there (`early`) is replaced by it, or replaces it. A session that was created while its refresh
  failed has a tab and is in no list yet, so that deleting its task does not close it
  (`App.tsx:318`; `reopened` in `DeletedIsClosed`). Where the user has dragged the agents
  apart and closes the last file, the file side is made anew to the right of the first
  group of agents, and so to the left of the others (`App.tsx:58`; hence `Together` in
  `AgentsLeft`). In the viewer: loads that overlap may end in
  the older text, and a failed request for an image leaves the sign. `Go` for the address
  a web panel already has leaves the sign, too (`again` in `WebPanel`).

## Proofs

All theorems are for every value of the constants that the named assumptions allow, and
those say little: capacities and bounds are naturals and channels hold at least one
message (`DaemonAssumption`, `ServerAssumption`, `ChatAssumption`, `TurnsAssumption`,
`ActivityAssumption`, `LoginAssumption`, `LifeAssumption`); `NoName`, `NoParent`, `Nobody`,
`NoAnswer`, `NoFile` and their like are none of the values they stand beside; trimming a
name twice is trimming it once (`SessionsAssumption`); directories, file names and cards are
finite sets (`TreeAssumption`, `QueriesAssumption`, `CardsAssumption`), since the pages list them; panels
of different kinds have different ids (`DeskAssumption`), as their prefixes see to. Every inductive invariant was first
checked by TLC on small instances (with `Nat` cut to a range) before it was proved.

- `DaemonProofs`: eviction keeps a suffix (`EvictIsSuffix`) that is within budget or a
  single entry (`StoppedWithinBudget`), and drops no more than it must (`EvictKeeps`). The sum
  of the sizes is a recursive function; what is said of it (`TotalIsSum`) is proved by
  the least counterexample (`LeastNat`), which takes the place of an induction.
  Then what a push into a channel, an append to a ring, a broadcast and an accepted
  connection do to types and lengths; that a step of the daemon keeps its variables in
  their types; and that what it owes its connection stays in order (`LinesInOrder`), new
  output being later than all that was owed (`Awaited`). `TermStreamProofs` and
  `QuestionsProofs` extend it.
- `TermStreamProofs`: `TypeCorrect`, `HistoryCorrect`, `InvariantCorrect`,
  `OrderCorrect`. `PaintedInOrder` is not inductive: that a frame may be painted depends
  on what is still in the catch-up and in the live queue, on the cursor the page will
  claim next, and on whether its `attach_id` is the current one. `IInv` says how these
  fit: seqs in the history are consecutive (`HistorySeqs`), `attach_id`s are handed out
  in order (`EpochsInOrder`), the catch-up is in order and ends with its hello
  (`PrimeInOrder`), live frames come after it (`LiveInOrder`), and the screen is below
  both unless a snapshot comes first (`ScreenInOrder`).
- `TermStreamProofs`, on top of `IInv`: `ClaimCorrect` and `OverlapCorrect`, about the data in
  the frames. That a cursor is true (`Claimed`) is not inductive without where the rest
  is: of a browser on the live client, whatever the history holds is on its screen, was
  lost to a lag, or is on its way in a frame of its own or in a snapshot (`Arriving`). The
  theorem is about runs without a remount, which empties the screen and keeps the cursor.
  Output is painted once because, among the frames of one client that a browser shows or
  will show and the history keeps, a higher seq has later output (`AllRise`), and the daemon
  still owes only output later than theirs (`Precede`); the replay, which is seq 1, is the
  exception, since the daemon subscribes before it copies its ring. A snapshot on its way
  will clear the screen (`Redrawn`), and with it the frames of clients that are gone;
  `OutputRises` says all this of what a browser will show after it (`Destined`).
- `TermStreamProofs`, on top of both: `SettledCorrect`. It compares two buffers that roll over
  at different times: the daemon's ring, and the history, whose first entry is a whole
  ring of an earlier time. The ring is the end of the output (`RingTail`), what the daemon
  still owes and what came over the connection live has no gap but lags
  (`LineWhole`), a live entry is one chunk and a replay no more than a ring (`EntrySizes`);
  so what the history has evicted, the ring has too (`Remembered`). That
  needs `2 * RingMax <= HistMax`: with a smaller history, a replay that is as long as the ring
  is evicted while the ring still holds most of it. The code has 1 MiB (`neige-session/src/bin/daemon.rs:71`,
  the default of `--buffer-bytes`) and 2 MiB (`HISTORY_MAX_BYTES`, `attach/mod.rs:32`).
- `TermStreamProofs`, on top of all these: `ScreenCorrect`, that `TermStream` implements `Screen`
  over lags, drops, remounts, resumptions and restarts of the server and of daemons. Every
  painted frame has to be an `Extend` or a `Redraw`: no hole but what a lag skipped, and no
  step back. The invariant (`Smooth`) follows the output through all the places it can be,
  as sets of numbered frames:
  - `Handshake`, of a connection that waits for its Hello: it is owed nothing by a daemon that has
    read nothing;
  - `HistoryWhole`, of the history and what the daemon still owes: no hole but lags, and what
    is owed follows on it (`Sound`, that is `Chain` and `Fits`); a replay ends where live
    output begins (`Seam`);
  - `Intact(b)`, of each browser: what it shows, what it will show after a snapshot, and what it
    would show if it came back with its cursor are each without a hole but lags (`Gapped`); its
    frames are entries of the history, and its catch-up all that is beyond an honoured cursor
    or the one snapshot (`Known`); the history goes as far as anything it was told (`Ahead`), so
    a snapshot never steps back (`NoStepBack`).

  `Smooth` says this until a handshake is overrun: if none has been (`~ Overrun` at `Connected`),
  what the connection is owed follows on the ring or is in it (`Meets`), because the ring is the end of the
  output. Nothing is assumed of the size of the daemon's channel. From `overrun` on, every step
  is a `Garble`, for which types are enough (`TornStep`). The hypotheses are
  `2 * RingMax <= HistMax`, as above, and that the ring is not empty, which a default of 1 MiB sees to.
- `SessionsProofs`, whatever the disk does: `FInv` is inductive
  (`FaultsInvariantCorrect`) and gives `TypeOK`, `NamesResolve`, `NestsOneLevel`. One
  level of nesting needs more than itself, because a file that a failed removal left
  behind can bring a session back at the next start: memory and disk may differ in who
  is there but never in who nests under whom (`FamilyKept`), and nobody refers to a
  session that is only being created (`NewbornAlone`).
- `SessionsProofs`, assuming `~ DiskFaults`: `SInv` (`InvariantCorrect`), hence
  `EveryChatAddressable`, `NoOrphans`, `RemovedForGood`, and the refinement of
  `NameBook` (`BookCorrect`). The argument: the files equal the memory, so a restart
  rebuilds the index as it was; a removal at work knows all agents of its task
  (`RemovalIsComplete`), because the mutex is held from listing them to dropping them.

- `QuestionsProofs`: `StreamIInv` is inductive under all steps of `Questions`
  (`StreamCorrect`), and gives `EventsInOrder`, `RepeatsOnlyReplay` and `FreshIsComplete`.
  It has four layers. *Order*, as for the terminal, with the client's number in the place of
  the `attach_id`: lines leave the daemon in order (`LinesInOrder` of `DaemonProofs`), clients are numbered as
  they come (`ClientsInOrder`), a catch-up is in order, of one client, and ends with its hello
  (`PrimeInOrder`), live events come after it (`LiveInOrder`), and what a page holds is
  before both (`PageInOrder`). *Completeness* (`Covers`): for a page that holds events of the
  session's client only, each event of the history is on the page, was lost to a lag, or is
  on its way. That is not inductive without `lastSeq < next`: a cursor at or above
  `next_seq` would skip events still to be numbered. *Copies*: every event in the history, on its
  way or on a page is a copy of one that its client numbered (`CopiesKnown`); the lines a
  client still waits for are later than those it got live (`CopiesPrecede`); so it numbers an
  event twice only where it was seeded with it (`NumberedOnce`). *The tool* (`ToolOK`): whatever
  a page shows, submits or has sent was injected (`HeldWasAsked`, from `CopiesKnown`), and
  a tool injects after it has registered its oneshot. `AskInv` says this of forwarded answers
  only through the pages, which is too little where there are none; `ToolOK` says it of each
  question.
- `ChatProofs`, for the page and for the runner behind it:
  - `PageIInv` gives `UserIsHeard`, `StopOffered` and `DraftKept` (`HeardCorrect`, `StopCorrect`,
    `DraftCorrect`), with what `Derive` makes of a list: it is a recursive function, so one event
    more is one step of it (`DeriveSteps`, `RootSteps`). The wire carries no message of the user
    (`WindowOK`), so those among the page's events are its own, one for each frame it sent and in
    that order (`FramesOK`); a message of the root that streams in the window streams among
    the events, whatever came after it (`StreamOK`); and each card agrees with what was last
    said on it (`CardsAgree`), as do the answers that were sent (`FramesOK`).
  - `RunnerIInv` is `RunnerInv` and `PromptsInOrder` with two facts: a call that
    was not made has no question and no answer, and the SDK is told that there are no more
    prompts only when the queue is closed.
  - `MessagesTold` (`ToldCorrect`) says of the mapper what holds of every message the SDK may
    yield. The one assumption, `ContentAssumption`, is about JSON: a content that is an array is
    no text. The blocks that are tool results are as many, and in the order, before and after
    they are parsed, because the filter takes the same step on both (`AmongSteps`).
- `ServerProofs`, one invariant for each component, since they share no variable:
  - `LifeIInv` gives `DaemonInv`. During a sweep every process of the session is a target or
    was forked after the look into `/proc` (`SweepIsComplete`); unless a daemon went astray,
    whoever listens does so at the path, and nobody starts beside it (`PathIsOwned`); a file
    at the path was left by a crash or belongs to a daemon that has not removed it yet
    (`FileIsExplained`).
  - `TurnsIInv` gives `TurnsInv`. What a call has gathered and what lies in its inbox is one
    gapless run of events above the baseline; if the call was alone they are of its turn, and
    what the runner will say next continues them, as long as the call is on the live client.
  - `LoginIInv` gives `LoginInv`. A limiter entry counts the attempts let through since its window
    began, with one right at the beginning, and what was let through before leaves room
    for a whole window (`EntryCounts`): any interval of a window's length sees less than
    the limit from the windows before and at most the limit from the present one. The
    invariant counts over all times and lives (`LimitAlways`), the run over those within its
    bounds; and the ids of sessions are never used again (`IdsAreUsedUp`).
  - `ActivityIInv` gives `ActivityTold`. With no report on its way and none lost, the server has
    what the agent said last (`ServerIsTold`); a report that is alone on its way says how
    things are when it arrives (`LoneReportIsTrue`).

- `PagesProofs`, with `PanelProofs` for the desktop's panels, for each component on its own:
  - `PanelsIInv`, with `ViewIInv` for the viewer, gives `PanelsTellTrue`. A load carries a text
    no older than its tag and nothing is newer than the disk (`RequestOK`); unless loads
    overlapped or failed, some version lies between what a panel remembers of its file and
    what its text or its only load shows (`Reached`); a search is on the tree on the screen
    unless diagrams are being drawn into it (`SearchFollows`). A link is the
    walk it spells because the array of `normalizePath` and the place one stands on agree
    after every part of the path (`StepsAgree`, `ArrivesAt`), by the least counterexample.
  - `ResizeIInv` gives `ResizeInv`. The xterm fits, or a timer will see to it (`RowsFit`); the last
    size that was sent is the present one, or a timer, a write to come or a race explains
    it (`SentFits`); with nothing due, it is the size the PTY has or gets (`ToldIsLast`);
    and a program whose screen was wiped will see its size change, because a redraw is due
    or a size that differs is on its way (`BlankIsTold`).
  - `ClipIInv` gives `NewestNotLost`: what is staged is the latest copy, so the answer that
    unstages it has landed it.
  - `ConfigIInv` gives `ConfigInv`. The newest save, while it is on its way, is the last of the list and has
    all of what the page shows, whichever of the others arrive, fail or mix before it (`SavedLast`, with
    `SaveGone` for what any of them leaves behind); once it is stored, the server has that; as
    long as nothing was saved, the document that comes is the server's (`Unloaded`), and a launch
    that is alone has seen the recent commands that are still the page's (`OneLaunch`). The
    lists hold nothing twice, because of what `filter` keeps (`AmongProperties` of `PanelProofs`) and of what a
    list cut to `MaxRecent` still holds (`RecentKeeps`). `WatchedStay` follows step by step:
    only the user's click on an agent, and a list that is there and fresh, may take one out.
  - `StackIInv` gives `StackInv`: cards without repetition with one of them active, counts and
    timers of these cards only, and a finger that has opened one thing at most. Removing
    cards one after the other takes each out and no other and keeps the active one in front
    (`OneOut`, `RemovalKeeps`, which gives `PlaceKept`); the stack that *all* makes lists a finite
    set, hence the assumption that `Cards` is one.
  - `FormIInv`, `PickIInv` and `SheetIInv` give `FormsInv`. A suggestion leads to a directory below
    the one it was made for (`HintsOK`, hence `SuggestionExists`), and the server is asked about
    submissions that need its answer only (`ChecksOK`). A picker's recent and found files hold
    nothing twice (`Listing`); the rows are drawn in two sections, and Enter opens the
    highlighted one because the sections, one behind the other, are the list in its own order
    (`AmongParts`): recent files come first in it already. What a sheet has on its way is what was
    submitted last, alone (`SendingOK`), and one walk is under way unless two overlapped
    (`WalksOK`). `FieldsStay` follows step by step.
  - `DeskIInv` gives `DeskInv`. Groups are disjoint and none is empty (`IsGroups`), whatever is
    added, dragged, taken out or swept (`PlacedDocks`, `DragDocks`, `WithoutDocks`, `SplitDocks`).
    What comes from the server agrees with `born`: a list names sessions that were
    there at some time, with the parents they have (`FromServer`), hence it has the
    sessions that live of any layout saved before it. That a tab stays while the layout is
    restored needs this of every list that has arrived or is on its way (`Covers` in
    `RestoringOK`): the tear-down that comes with the restored panels must not take one that
    lives. Layouts may come from saves of earlier pages, too, which arrive while a new page restores
    (`Laid`). That a saved layout has the tabs needs it of the newest save while that is on its way, as
    the last of the list, whichever arrive or fail before it, unless
    one is due (`TabsHeld`, with `Newest`; `PostGoneKeeps`). What is docked while a deletion runs is listed or
    was unknown to it (`DeleteKept`), so that no child comes to light that should have been
    closed. Every event of the page ends in `Commit`: two lemmas say what it leaves
    (`Commits`) and that this keeps the invariant (`RedockKeeps`), one says so of the steps
    in which the page waits (`WaitKeeps`), and each action is shown to be of one or the other kind.
  - `NewContentIsRevealed` (`RevealCorrect`) needs no invariant. `AgentsLeft` (`LeftCorrect`) does:
    the groups are either agents' or files' (`Ordered`), a panel that is placed joins its own
    kind or comes to the side of it (`AgentPlaced`, `FilePlaced`), and where agents are
    apart there is a file to join (`FilesAreThere`, from `SplitKept`). With `WatchedStay`,
    `PlaceKept`, `SuggestionExists` and `FieldsStay`, this is all of `PageSteps` (`StepsCorrect`).

The proofs found that a card keeps no value for an option with an empty label (`Nonempty`), which
the run has among its options now, and that three `CASE` expressions (`Receive`, `MessageKey`, `Feed`) had arms that overlapped:
TLC takes the first, TLA+ any of them. They are disjoint now, in the order of the code. They
also found the two exceptions on the desktop that are told above, `reopened` and `Together`:
the runs were too small to meet either, and have plans now that do.

Model-checked only:

- `TasksShown`, whose roll-up, rows and hints are folds and flattened sequences, and which TLC
  evaluates on every small list;
- `PageInv` of `ChatPage`: which message an event without an id belongs to is found by a fold
  over buckets, whose result for a whole conversation is compared with what was said;
- `ModesTracked`, which says what a scanner computes of any cut of its input: the library's
  induction theorems and its theorems on folds take an operator as a parameter, which the
  prover cannot instantiate (where a fold is a recursive function over a list that only
  grows at its end, one step of it is enough, as in `DaemonProofs` and `ChatProofs`);
- `CatchesUp`, `EofEnds` and `KillEnds`: liveness under fairness is out of the prover's reach,
  as is whatever needs `ENABLED` or `RECURSIVE` operators.

## Not modelled, and the plan

To be proved next: `PageInv`, beginning with `PageTypeOK`, and `ModesTracked`.

To be modelled: `delete_session` and `todo_write` with names resolved in a step of their
own, composed with `Sessions`; worktrees; the chat daemon's shutdown; a page whose daemon
is replaced while its WebSocket stays open.

Left out for good: the calm page, a prototype whose calendar and notes are mock data; the
login page, a form with one request; widths, colours, drag handles, the key bar and
touch scrolling, which keep no state beyond a gesture; the rendering of markdown, tools and
code; file, config and proxy endpoints, which are stateless (what pages rely on in them is
in the models of the pages); hook installation, which edits configuration files at start;
the SSH launcher, the debug client and the server's start-up: I/O and wiring.
