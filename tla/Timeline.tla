------------------------------ MODULE Timeline ------------------------------
(***************************************************************************)
(* The fold of the chat's events into the timeline the page shows: events  *)
(* are put in buckets, one for the root and one per sub-agent, and each    *)
(* bucket is reduced on its own.  Events are those of Mapper.  A text is   *)
(* the sequence of the pieces it came in; a tool's input parses when its   *)
(* last piece is Closing.                                                  *)
(***************************************************************************)
EXTENDS Mapper, SequencesExt

Closing == "}"

MidStream ==
  {"assistant_content_block_start", "assistant_text_delta", "assistant_thinking_delta",
   "assistant_tool_use_input_delta", "assistant_content_block_stop",
   "assistant_message_delta", "assistant_message_stop"}

StartOf(events, id) ==
  SelectLastInSeq(events, LAMBDA e : e.type = "assistant_message_start" /\ e.message_id = id)

\* The events after which deltas without a message id belong to their parent.
Establishes(e) == e.type \in {"assistant_message_start", "user_message", "tool_result"}

\* (Mutant of Parents: a delta without a message id is of the root.)
ParentsOfStarts(events) ==
  [n \in DOMAIN events |-> IF Establishes(events[n]) THEN events[n].parent ELSE "root"]

\* bucketByParent: the stream of each event.  One that does not say it and has
\* no message id takes that of the latest event that established a stream.
Parents(events) ==
  LET current[n \in 0..Len(events)] ==
        IF n = 0 THEN "root"
        ELSE IF Establishes(events[n]) THEN events[n].parent ELSE current[n - 1]
      ParentOf(n) ==
        LET e == events[n]
            start == IF e.message_id = "" THEN 0 ELSE StartOf(events, e.message_id)
        IN IF start # 0 THEN events[start].parent ELSE current[n]
  IN [n \in DOMAIN events |->
        IF Establishes(events[n]) THEN events[n].parent
        ELSE IF events[n].type \in MidStream THEN ParentOf(n)
        ELSE "root"]

EmptyTimeline ==
  [init |-> FALSE, status |-> "", messages |-> <<>>, passthroughs |-> <<>>, result |-> ""]

UserTurn(blocks) == [role |-> "user", id |-> "", blocks |-> blocks, isComplete |-> TRUE]
AssistantTurn(id) == [role |-> "assistant", id |-> id, blocks |-> <<>>, isComplete |-> FALSE]

\* The message an event is about: the one with its id, else the last one of
\* the assistant.  0 when there is none.
ResolveAssistant(messages, id) ==
  LET exact == SelectLastInSeq(messages, LAMBDA m : m.role = "assistant" /\ m.id = id)
  IN IF id # "" /\ exact # 0 THEN exact
     ELSE SelectLastInSeq(messages, LAMBDA m : m.role = "assistant")

BlockFrom(index, block) ==
  LET Streaming(type, text, id) ==
        [type |-> type, index |-> index, text |-> text, toolUseId |-> id,
         input |-> Scalar, isStreaming |-> TRUE]
  IN CASE block.type \in {"text", "thinking"} ->
            Streaming(block.type, IF block.text = "" THEN <<>> ELSE <<block.text>>, "")
       [] block.type = "tool_use" -> Streaming("tool_use", <<>>, block.id)
       [] OTHER -> [Streaming("unknown", <<>>, "") EXCEPT !.isStreaming = FALSE]

BlockAt(message, index) == SelectInSeq(message.blocks, LAMBDA b : b.index = index)

\* A text or thinking delta: appended to the block of its index, which it
\* starts when there is none, and dropped when that is of another type.
AppendText(message, type, index, text) ==
  LET k == BlockAt(message, index)
  IN IF k = 0
     THEN [message EXCEPT !.blocks =
             Append(@, BlockFrom(index, [type |-> type, text |-> text]))]
     ELSE IF message.blocks[k].type = type
     THEN [message EXCEPT !.blocks[k].text = Append(@, text)]
     ELSE message

\* An input delta: the input is the last accumulation that parsed.
AppendInput(message, index, piece) ==
  LET k == BlockAt(message, index)
  IN IF k = 0 \/ message.blocks[k].type # "tool_use" THEN message
     ELSE [message EXCEPT !.blocks[k].text = Append(@, piece),
                          !.blocks[k].input =
                             IF piece = Closing THEN Append(message.blocks[k].text, piece) ELSE @]

StopBlock(message, index) ==
  LET k == BlockAt(message, index)
  IN IF k = 0 THEN message ELSE [message EXCEPT !.blocks[k].isStreaming = FALSE]

StopMessage(message) ==
  [message EXCEPT !.isComplete = TRUE,
                  !.blocks = [k \in DOMAIN @ |-> [@[k] EXCEPT !.isStreaming = FALSE]]]

\* An event in the middle of a message, applied to the message it is about.
Amend(message, e) ==
  CASE e.type = "assistant_content_block_start" ->
         [message EXCEPT !.blocks = Append(@, BlockFrom(e.index, e.block))]
    [] e.type = "assistant_text_delta" -> AppendText(message, "text", e.index, e.text)
    [] e.type = "assistant_thinking_delta" -> AppendText(message, "thinking", e.index, e.text)
    [] e.type = "assistant_tool_use_input_delta" -> AppendInput(message, e.index, e.text)
    [] e.type = "assistant_content_block_stop" -> StopBlock(message, e.index)
    [] e.type = "assistant_message_delta" -> message
    [] e.type = "assistant_message_stop" -> StopMessage(message)

Reduce(tl, e) ==
  CASE e.type = "session_init" -> [tl EXCEPT !.init = TRUE]
    [] e.type = "status_change" -> [tl EXCEPT !.status = e.status]
    [] e.type = "user_message" -> [tl EXCEPT !.messages = Append(@, UserTurn(e.content))]
    [] e.type = "assistant_message_start" ->
         [tl EXCEPT !.messages = Append(@, AssistantTurn(e.message_id))]
    [] e.type \in MidStream ->
         LET k == ResolveAssistant(tl.messages, e.message_id)
         IN IF k = 0 THEN tl ELSE [tl EXCEPT !.messages[k] = Amend(@, e)]
    [] e.type = "result" -> [tl EXCEPT !.result = e.subtype]
    [] e.type = "passthrough" ->
         [tl EXCEPT !.passthroughs =
            Append(@, [kind |-> e.kind, payload |-> e.payload, after |-> Len(tl.messages)])]
    [] OTHER -> tl

\* The results of tool calls, of every bucket; a later one replaces an earlier.
ToolResults(events) ==
  LET ids == {events[i].tool_use_id : i \in {j \in DOMAIN events : events[j].type = "tool_result"}}
      Of(id) == SelectLastInSeq(events, LAMBDA e : e.type = "tool_result" /\ e.tool_use_id = id)
  IN [id \in ids |-> events[Of(id)].content]

Holds(tl, toolUseId) ==
  \E i \in DOMAIN tl.messages : \E k \in DOMAIN tl.messages[i].blocks :
    /\ tl.messages[i].role = "assistant"
    /\ tl.messages[i].blocks[k].type = "tool_use"
    /\ tl.messages[i].blocks[k].toolUseId = toolUseId

\* The timelines after an event of stream p.
Extended(before, p, e) ==
  LET tl == IF p \in DOMAIN before THEN before[p] ELSE EmptyTimeline
  IN [q \in DOMAIN before \cup {p} |-> IF q = p THEN Reduce(tl, e) ELSE before[q]]

\* deriveTimeline: the events of each stream, reduced to its timeline.
Derive(events) ==
  LET parents == Parents(events)
      built[n \in 0..Len(events)] ==
        IF n = 0 THEN [p \in {"root"} |-> EmptyTimeline]
        ELSE Extended(built[n - 1], parents[n], events[n])
  IN built[Len(events)]

\* findHostTimeline: a sub-agent is put below the timeline that has the call
\* that started it, below the root when none has.
Host(built, p) ==
  IF \E q \in DOMAIN built : Holds(built[q], p)
  THEN CHOOSE q \in DOMAIN built : Holds(built[q], p)
  ELSE "root"
=============================================================================
