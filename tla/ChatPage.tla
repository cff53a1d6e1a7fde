------------------------------ MODULE ChatPage ------------------------------
(***************************************************************************)
(* A chat session as its page shows it: the SDK's stream of messages, with *)
(* sub-agents, goes through the runner's mapper onto the wire, and the     *)
(* page folds what it received into timelines, adds the user's messages by *)
(* itself, and mounts editors and question cards between them.             *)
(*                                                                         *)
(* The transport is that of ChatStream while a page is not left behind:    *)
(* after a reconnect the page goes on where it was, after a reload it gets *)
(* the suffix of the wire that is in the history window.                   *)
(***************************************************************************)
EXTENDS Timeline, Cards, Lists, TLC

CONSTANTS
  Ids,        \* the ids of the assistant's messages, in the order they are used
  Tasks,      \* ids of Task calls, each the name of the sub-agent's stream
  Texts,      \* what the user types
  Ask,        \* the questions of a pending question
  Plans       \* bounds of one behaviour, see PlanType

NoEdit == "(no edit)"

PlanType ==
  [ui : {"desktop", "mobile"}, kinds : SUBSET {"text", "thinking", "tool_use"},
   messages : Nat, blocks : Nat, pieces : Nat, questions : Nat,
   lag : Nat,   \* the wire gets no further ahead of the page
   sends : Nat, gestures : Nat, drops : Nat, reloads : Nat]

ASSUME PlansAssumption == Plans \subseteq PlanType

VARIABLES
  plan,     \* the bounds of this behaviour
  used,     \* how much of plan's last four was used
  said,     \* what the assistant said, message by message
  posed,    \* the pending questions it put to the page
  returned, \* the tool calls that have their result
  wire,     \* the events of the session
  from,     \* the page's window starts after this event
  got,      \* the events of wire up to this one reached the page
  events,   \* useChatSession's events: those, and the user's own messages
  sock,     \* "closed", "connecting", "attached", "live" (the hello came)
  draft,    \* ComposeBox's value
  edit,     \* the draft of UserBubble's editor, or NoEdit
  cards,    \* the mounted question cards
  word,     \* what the user last said in each card
  frames,   \* what the page sent since it was loaded
  cut       \* messages of sub-agents during which the user sent one, and
            \* those of the root that got what followed

agentVars == <<said, posed, returned, wire>>
linkVars  == <<from, got, sock>>
userVars  == <<draft, edit, cards, word, frames>>
vars == <<plan, used, agentVars, linkVars, userVars, events, cut>>

Init ==
  /\ plan \in Plans
  /\ used = [sends |-> 0, gestures |-> 0, drops |-> 0, reloads |-> 0]
  /\ said = <<>> /\ posed = <<>> /\ returned = {} /\ wire = <<>>
  /\ from = 0 /\ got = 0 /\ events = <<>> /\ sock = "connecting"
  /\ draft = "" /\ edit = NoEdit /\ cards = <<>> /\ word = <<>> /\ frames = <<>>
  /\ cut = {}

Spend(what) ==
  /\ used[what] < plan[what]
  /\ used' = [used EXCEPT ![what] = @ + 1]

-----------------------------------------------------------------------------
(* The assistant and its sub-agents.  One message streams at a time.       *)

Emit(m) == wire' = wire \o MapSdkMessage(m)

\* A message of a stream: one that is not the root's says whose it is.
From(stream, m) ==
  IF stream = "root" THEN m
  ELSE [k \in DOMAIN m \cup {"parent_tool_use_id"} |-> IF k \in DOMAIN m THEN m[k] ELSE stream]
Stream(stream, ev) == From(stream, [type |-> "stream_event", event |-> ev])

Speaking == said # <<>> /\ Last(said).open
Writing == Speaking /\ Last(said).blocks # <<>> /\ Last(Last(said).blocks).open
Spoken(stream) == \E m \in Range(said) : m.stream = stream
CallsIn(m) == {b.id : b \in {c \in Range(m.blocks) : c.type = "tool_use"}}
Called == UNION {CallsIn(m) : m \in Range(said)}
CallerOf(id) == (CHOOSE m \in Range(said) : id \in CallsIn(m)).stream

\* The streams that may say something next.
Awake == ({"root"} \cup Called) \ returned

AgentStep ==
  /\ Len(wire) - got <= plan.lag
  /\ UNCHANGED <<plan, used, linkVars, userVars, events, cut>>

StartMessage(stream) ==
  /\ ~Speaking
  /\ Len(said) < plan.messages
  /\ stream \in Awake
  /\ LET id == Ids[Len(said) + 1]
         start == Stream(stream, [type |-> "message_start", message |-> [id |-> id]])
         prompt == From(stream, [type |-> "user", message |-> [content |-> [text |-> "prompt"]]])
         first == stream # "root" /\ ~Spoken(stream)
     IN /\ said' = Append(said, [id |-> id, stream |-> stream, blocks |-> <<>>, open |-> TRUE])
        /\ wire' = wire \o (IF first THEN MapSdkMessage(prompt) ELSE <<>>) \o MapSdkMessage(start)
  /\ UNCHANGED <<posed, returned>>
  /\ AgentStep

StartBlock(type, id) ==
  /\ type \in plan.kinds
  /\ Speaking /\ ~Writing
  /\ Len(Last(said).blocks) < plan.blocks
  /\ id \notin Called
  /\ said' = [said EXCEPT ![Len(said)].blocks =
                Append(@, [type |-> type, id |-> id, text |-> <<>>, open |-> TRUE])]
  /\ Emit(Stream(Last(said).stream,
       [type |-> "content_block_start", index |-> Len(Last(said).blocks),
        content_block |-> IF type = "tool_use"
                          THEN [type |-> "tool_use", id |-> id]
                          ELSE [type |-> type]]))
  /\ UNCHANGED <<posed, returned>>
  /\ AgentStep

\* A piece of the block that is being written; a tool's input ends in Closing.
WriteBlock(piece) ==
  /\ Writing
  /\ LET m == Last(said)
         b == Last(m.blocks)
         PieceOf(type, field) == [type |-> type] @@ (field :> piece)
     IN /\ Len(b.text) < plan.pieces
        /\ b.type = "tool_use" => (piece = Closing) = (Len(b.text) + 1 = plan.pieces)
        /\ b.type # "tool_use" => piece # Closing
        /\ said' = [said EXCEPT ![Len(said)].blocks[Len(m.blocks)].text = Append(@, piece)]
        /\ Emit(Stream(m.stream,
             [type |-> "content_block_delta", index |-> Len(m.blocks) - 1,
              delta |-> CASE b.type = "text" -> PieceOf("text_delta", "text")
                          [] b.type = "thinking" -> PieceOf("thinking_delta", "thinking")
                          [] b.type = "tool_use" -> PieceOf("input_json_delta", "partial_json")]))
  /\ UNCHANGED <<posed, returned>>
  /\ AgentStep

EndBlock ==
  /\ Writing
  /\ LET m == Last(said)
     IN /\ Last(m.blocks).type = "tool_use" => Last(m.blocks).text # <<>>
        /\ said' = [said EXCEPT ![Len(said)].blocks[Len(m.blocks)].open = FALSE]
        /\ Emit(Stream(m.stream, [type |-> "content_block_stop", index |-> Len(m.blocks) - 1]))
  /\ UNCHANGED <<posed, returned>>
  /\ AgentStep

EndMessage ==
  /\ Speaking /\ ~Writing
  /\ said' = [said EXCEPT ![Len(said)].open = FALSE]
  /\ wire' = wire \o MapSdkMessage(Stream(Last(said).stream, [type |-> "message_delta"]))
                  \o MapSdkMessage(Stream(Last(said).stream, [type |-> "message_stop"]))
  /\ UNCHANGED <<posed, returned>>
  /\ AgentStep

\* A tool, or a sub-agent whose own calls have returned, gives its result.
ToolReturns(id) ==
  /\ ~Speaking
  /\ id \in Called \ returned
  /\ \A m \in Range(said) : m.stream = id => CallsIn(m) \subseteq returned
  /\ returned' = returned \cup {id}
  /\ Emit(From(CallerOf(id),
       [type |-> "user",
        message |-> [content |-> [blocks |->
          <<[type |-> "tool_result", tool_use_id |-> id, content |-> [text |-> id]]>>]]]))
  /\ UNCHANGED <<said, posed>>
  /\ AgentStep

\* ask_question of the MCP server or the runner's own tool puts a dialog.
AskUser ==
  /\ Len(posed) < plan.questions
  /\ posed' = Append(posed, Len(wire) + 1)
  /\ wire' = Append(wire, [type |-> "passthrough", kind |-> <<"neige", "ask_user_question">>,
                           payload |-> Len(posed) + 1])
  /\ UNCHANGED <<said, returned>>
  /\ AgentStep

-----------------------------------------------------------------------------
(* The page.  A user bubble has a new key in every timeline that is        *)
(* derived, so that what is mounted in it, or right after it, starts anew. *)

Open == sock \in {"attached", "live"}
Status == CASE sock = "live" -> "open"
            [] sock = "closed" -> "reconnecting"
            [] OTHER -> "connecting"

Root(evs) == Derive(evs)["root"]
Dialogs(root) ==
  SelectSeq(root.passthroughs, LAMBDA p : p.kind = <<"neige", "ask_user_question">>)

\* A dialog's anchor is the message before it; the first ones have none.
UnderUser(root, dialog) == dialog.after # 0 /\ root.messages[dialog.after].role = "user"

\* A render of evs, with the edited text ed where no bubble was remounted.
\* ChatView derives at every render, mobile's ChatPane when the events change,
\* and it shows no dialogs.
Render(evs, ed) ==
  LET fresh == plan.ui = "desktop" \/ evs # events
      root == Root(evs)
      shown == Dialogs(root)
      dialogs == IF plan.ui = "desktop" /\ Parsed(Ask) THEN DOMAIN shown ELSE {}
      Kept(q) == q \in DOMAIN cards /\ ~UnderUser(root, shown[q])
  IN /\ events' = evs
     /\ edit' = IF fresh THEN NoEdit ELSE ed
     /\ cards' = [q \in dialogs |-> IF Kept(q) THEN cards[q] ELSE NewCard(Ask)]
     /\ word' = [q \in dialogs |-> IF Kept(q) THEN word[q] ELSE [i \in DOMAIN Ask |-> {}]]

\* The streams on the screen: the root, and below it, where their calls are,
\* those that said something, once the input of the call parses.
Rendered(built) ==
  LET Card(q, p) ==
        \E i \in DOMAIN built[p].messages : \E k \in DOMAIN built[p].messages[i].blocks :
          LET b == built[p].messages[i].blocks[k]
          IN built[p].messages[i].role = "assistant" /\ b.type = "tool_use" /\ b.toolUseId = q
             /\ b.input # Scalar
      Below(p) == {q \in DOMAIN built \ {"root"} :
                     Host(built, q) = p /\ Card(q, p) /\ built[q].messages # <<>>}
      reach[n \in 0..Cardinality(DOMAIN built)] ==
        IF n = 0 THEN {"root"} ELSE reach[n - 1] \cup UNION {Below(p) : p \in reach[n - 1]}
  IN reach[Cardinality(DOMAIN built)]

OwnMessage(text) ==
  [type |-> "user_message", parent |-> "root", content |-> <<[type |-> "text", text |-> text]>>]

\* The sub-agent's message that is streaming at the page, with the root's last
\* one, which a user's message now makes the target of its deltas.
Streaming ==
  LET seen == SubSeq(wire, 1, got)
      start == SelectLastInSeq(seen, LAMBDA e : e.type = "assistant_message_start")
      stop == SelectLastInSeq(seen, LAMBDA e : e.type = "assistant_message_stop")
      root == SelectLastInSeq(seen, LAMBDA e : e.type = "assistant_message_start" /\ e.parent = "root")
  IN IF start > stop /\ wire[start].parent # "root"
     THEN {wire[start].message_id} \cup {wire[k].message_id : k \in {root} \ {0}}
     ELSE {}

\* (Mutant of SendMessage: the bubble appears although nothing can be sent.)
SendAnyway(text) ==
  /\ frames' = IF Open THEN Append(frames, [type |-> "user_message", text |-> text]) ELSE frames
  /\ Render(Append(events, OwnMessage(text)), NoEdit)
  /\ cut' = cut \cup Streaming

\* sendMessage and the render it causes: nothing when the socket is not open.
SendMessage(text) ==
  IF Open
  THEN /\ frames' = Append(frames, [type |-> "user_message", text |-> text])
       /\ Render(Append(events, OwnMessage(text)), NoEdit)
       /\ cut' = cut \cup Streaming
  ELSE UNCHANGED <<frames, events, edit, cards, word, cut>>

\* (Mutant of IsGenerating: a user's bubble at the end hides the reply.)
GeneratingAtEnd(evs) ==
  LET messages == Root(evs).messages
  IN messages # <<>> /\ Last(messages).role = "assistant" /\ ~Last(messages).isComplete

IsGenerating(evs) ==
  LET messages == Root(evs).messages
  IN messages # <<>> /\ (Last(messages).role = "user" \/ ~Last(messages).isComplete)

PageStep == UNCHANGED <<plan, agentVars>>

Type(text) ==
  /\ draft = "" /\ (plan.ui = "mobile" => ~IsGenerating(events))
  /\ Spend("sends")
  /\ draft' = text
  /\ UNCHANGED <<linkVars, edit, cards, word, frames, events, cut>>
  /\ PageStep

\* (Mutant of Submit: the box is emptied whatever onSubmit says.)
SubmitClears ==
  /\ plan.ui = "desktop" /\ Trim(draft) # "" /\ draft' = ""
  /\ SendMessage(draft)
  /\ UNCHANGED <<linkVars, used>>
  /\ PageStep

\* ComposeBox's submit.
Submit ==
  /\ plan.ui = "desktop"
  /\ Trim(draft) # "" /\ Status = "open"
  /\ SendMessage(draft)
  /\ draft' = IF Open THEN "" ELSE draft
  /\ UNCHANGED <<linkVars, used>>
  /\ PageStep

\* ComposeBar's send, which does not look at what sendMessage returns.  While
\* the assistant is generating there is the Stop button in its place.
BarSend ==
  /\ plan.ui = "mobile" /\ ~IsGenerating(events)
  /\ Trim(draft) # "" /\ draft' = ""
  /\ SendMessage(draft)
  /\ UNCHANGED <<linkVars, used>>
  /\ PageStep

StopTurn ==
  /\ IsGenerating(events) /\ Open
  /\ Spend("sends")
  /\ frames' = Append(frames, [type |-> "stop"])
  /\ UNCHANGED <<linkVars, draft, edit, cards, word, events, cut>>
  /\ PageStep

UserBubbles(evs) ==
  LET messages == Root(evs).messages
  IN Among(messages, {m \in Entries(messages) : m.role = "user"})

\* The pencil on the last user bubble, and what is typed there.
Edit(text) ==
  /\ edit = NoEdit /\ UserBubbles(events) # <<>>
  /\ Spend("sends")
  /\ edit' = text
  /\ UNCHANGED <<linkVars, draft, cards, word, frames, events, cut>>
  /\ PageStep

Cancel ==
  /\ edit # NoEdit /\ edit' = NoEdit
  /\ UNCHANGED <<used, linkVars, draft, cards, word, frames, events, cut>>
  /\ PageStep

\* onSave closes the editor when respond did not say false.
Save ==
  /\ edit # NoEdit /\ Trim(edit) # ""
  /\ SendMessage(edit)
  /\ UNCHANGED <<used, linkVars, draft>>
  /\ PageStep

CanAnswer(q) == q \in DOMAIN cards /\ Status = "open" /\ ~cards[q].submitted

Pick(q, i, label) ==
  /\ CanAnswer(q) /\ Spend("gestures")
  /\ cards' = [cards EXCEPT ![q] = Click(Ask, @, i, label)]
  /\ LET shown == cards[q].multi[i]
     IN word' = [word EXCEPT ![q][i] =
                   Nonempty(IF Ask[i].multi THEN (shown \ {label}) \cup ({label} \ shown)
                            ELSE {label})]
  /\ UNCHANGED <<linkVars, draft, edit, frames, events, cut>>
  /\ PageStep

Write(q, i, text) ==
  /\ CanAnswer(q) /\ Spend("gestures")
  /\ cards' = [cards EXCEPT ![q] = UpdateDraft(@, i, text)]
  /\ word' = [word EXCEPT ![q][i] = Nonempty({Trim(text)})]
  /\ UNCHANGED <<linkVars, draft, edit, frames, events, cut>>
  /\ PageStep

\* submit, by the button or the keyboard.
Answer(q) ==
  /\ CanAnswer(q) /\ Complete(Ask, cards[q])
  /\ frames' = Append(frames, [type |-> "answer_question", question |-> Dialogs(Root(events))[q].payload,
                               answers |-> BuildAnswers(Ask, cards[q]), meant |-> word[q]])
  /\ cards' = [cards EXCEPT ![q].submitted = TRUE]
  /\ UNCHANGED <<used, linkVars, draft, edit, word, events, cut>>
  /\ PageStep

-----------------------------------------------------------------------------
(* The socket, and what makes the page render.                             *)

Deliver ==
  /\ sock = "live" /\ got < Len(wire)
  /\ got' = got + 1
  /\ Render(Append(events, wire[got + 1]), edit)
  /\ UNCHANGED <<used, from, sock, draft, frames, cut>>
  /\ PageStep

\* The scroll position crosses the threshold.
Scroll ==
  /\ Render(events, edit)
  /\ UNCHANGED <<used, linkVars, draft, frames, cut>>
  /\ PageStep

Sock(s) ==
  /\ sock' = s
  /\ Render(events, edit)
  /\ UNCHANGED <<from, got, draft, frames, cut>>
  /\ PageStep

OnOpen    == sock = "connecting" /\ Sock("attached") /\ UNCHANGED used
OnHello   == sock = "attached" /\ Sock("live") /\ UNCHANGED used
OnClose   == sock # "closed" /\ Sock("closed") /\ Spend("drops")
Reconnect == sock = "closed" /\ Sock("connecting") /\ UNCHANGED used

\* The page is loaded again: what it gets starts after event k.
Reload(k) ==
  /\ k >= from /\ Spend("reloads")
  /\ from' = k /\ got' = k /\ sock' = "connecting"
  /\ events' = <<>> /\ draft' = "" /\ edit' = NoEdit
  /\ cards' = <<>> /\ word' = <<>> /\ frames' = <<>> /\ cut' = {}
  /\ PageStep

Agent ==
  \/ \E stream \in {"root"} \cup Tasks : StartMessage(stream)
  \/ \E type \in {"text", "thinking"} : StartBlock(type, "")
  \/ \E id \in Tasks : StartBlock("tool_use", id)
  \/ \E piece \in {"a", Closing} : WriteBlock(piece)
  \/ EndBlock \/ EndMessage
  \/ \E id \in Tasks : ToolReturns(id)
  \/ AskUser

User ==
  \/ \E text \in Texts : Type(text) \/ Edit(text)
  \/ Submit \/ BarSend \/ StopTurn \/ Cancel \/ Save
  \/ \E q \in DOMAIN cards : \E i \in DOMAIN Ask :
       \/ \E label \in Ask[i].options : Pick(q, i, label)
       \/ \E text \in Texts : Write(q, i, text)
  \/ \E q \in DOMAIN cards : Answer(q)
  \/ \E k \in 0..Len(wire) : Reload(k)

Page == Deliver \/ Scroll \/ OnOpen \/ OnHello \/ OnClose \/ Reconnect

Next == Agent \/ User \/ Page

Spec == Init /\ [][Next]_vars

-----------------------------------------------------------------------------
(* Properties.                                                             *)

\* The position of an event of wire, and whether the page has it.
StartAt(id) == SelectInSeq(wire, LAMBDA e : e.type = "assistant_message_start" /\ e.message_id = id)
InWindow(k) == k # 0 /\ from < k /\ k <= got

\* What the page shows of a message of the assistant, as the fold sees it.
ShownBlocks(m) ==
  [k \in DOMAIN m.blocks |->
     [type |-> m.blocks[k].type, id |-> m.blocks[k].toolUseId, text |-> m.blocks[k].text,
      open |-> m.blocks[k].isStreaming]]

\* The state of the page, its sockets and its editors is well formed.
PageTypeOK ==
  /\ from \in 0..got /\ got \in 0..Len(wire)
  /\ sock \in {"closed", "connecting", "attached", "live"}
  /\ draft \in Texts \cup {""} /\ edit \in Texts \cup {NoEdit}
  /\ DOMAIN cards = DOMAIN word
  /\ plan.ui = "desktop" => Len(cards) = Len(Dialogs(Root(events)))
  /\ Len(events) = (got - from) + Cardinality({i \in DOMAIN frames : frames[i].type = "user_message"})

\* Deltas carry neither the id of their message nor its stream, sub-agents and
\* the user come in between, a reload cuts the beginning off: a page that got
\* everything shows each message that began in its window exactly once, in its
\* own stream, with the blocks, the text and the open ends it has.  (But for the
\* message of a sub-agent during which the user sent a message: the bubble,
\* which is of the root, takes the deltas that follow to the root's last one.)
Faithful ==
  LET built == Derive(events)
  IN got = Len(wire) => \A n \in DOMAIN said :
      LET m == said[n]
          Mine(x) == x.role = "assistant" /\ x.id = m.id
          shown(p) == SelectSeq(built[p].messages, Mine)
      IN InWindow(StartAt(m.id)) /\ m.id \notin cut =>
           /\ \A p \in DOMAIN built : Len(shown(p)) = IF p = m.stream THEN 1 ELSE 0
           /\ ShownBlocks(shown(m.stream)[1]) = m.blocks
           /\ shown(m.stream)[1].isComplete = ~m.open

\* What a sub-agent says is on the screen, below the call that started it, if
\* what its caller said is, wherever a reload cut the events: the call is found
\* in whichever timeline has it, and its input is whole.
SubsRendered ==
  LET built == Derive(events)
  IN \A p \in DOMAIN built \ {"root"} :
       LET n == CHOOSE n \in DOMAIN said : p \in CallsIn(said[n])
       IN /\ InWindow(StartAt(said[n].id)) /\ said[n].id \notin cut
          /\ said[n].stream \in Rendered(built)
          => Host(built, p) = said[n].stream /\ p \in Rendered(built)

\* What the page shows of a conversation.
PageInv == PageTypeOK /\ Faithful /\ SubsRendered

\* The user's bubbles are what the page sent, in that order, once each: over
\* reconnects, edits sent as new messages, and whatever the assistant says.
BubblesAreSent ==
  LET Text(m) == m.blocks[1].text
      sent == Among(frames, {f \in Entries(frames) : f.type = "user_message"})
      bubbles == UserBubbles(events)
  IN /\ Len(bubbles) = Len(sent)
     /\ \A i \in DOMAIN sent : Text(bubbles[i]) = sent[i].text

\* While a message of the root streams at the page the Stop button is there,
\* also when the user's own bubble has come after it.
StopOffered ==
  LET seen == SubSeq(wire, from + 1, got)
      start == SelectLastInSeq(seen, LAMBDA e : e.type = "assistant_message_start")
      stop == SelectLastInSeq(seen, LAMBDA e : e.type = "assistant_message_stop")
  IN start > stop /\ seen[start].parent = "root" => IsGenerating(events)

\* An answer says, for each question, what the user last picked or wrote for it:
\* a pick takes the text back and a text takes the picks back, and a card that
\* was mounted anew answers nothing that is not on it.
LastWordWins ==
  /\ \A q \in DOMAIN cards : \A i \in DOMAIN Ask : Value(Ask, cards[q], i) = word[q][i]
  /\ \A k \in DOMAIN frames : frames[k].type = "answer_question" => frames[k].answers = frames[k].meant

\* What the user says, in the box or on a card, is what is said.
UserIsHeard == BubblesAreSent /\ LastWordWins

\* The card "locks itself after submit; subsequent renders show the answered
\* state read-only": one answer for each question, until the page is reloaded.
LocksAfterSubmit ==
  \A j, k \in DOMAIN frames :
    /\ frames[j].type = "answer_question" /\ frames[k].type = "answer_question"
    /\ frames[j].question = frames[k].question
    => j = k

\* What was typed leaves the box as a message that was sent, never because the
\* socket is not there.  (Mobile's bar is emptied either way.)
DraftKept ==
  [][draft # "" /\ draft' = "" /\ used'.reloads = used.reloads /\ (plan.ui = "mobile" => Open)
     => frames' = Append(frames, [type |-> "user_message", text |-> draft])]_vars
=============================================================================
