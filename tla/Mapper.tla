------------------------------- MODULE Mapper -------------------------------
(***************************************************************************)
(* The chat runner's translation of SDK messages into the events of the    *)
(* wire.  A JavaScript object is a record of the fields it has: a field    *)
(* that is absent, or not of the type the code asks for, is not in its     *)
(* DOMAIN.  What is not an object is Scalar.  A content that is a string   *)
(* is [text |-> t], one that is an array [blocks |-> s].                   *)
(* The session id, stamped on every event, is left out.                    *)
(***************************************************************************)
EXTENDS Naturals, Sequences, Lists

Scalar == <<>>

IsObject(v) == v # Scalar

\* stringField, numberField and the `?? default` that follows them.
Field(obj, key, dflt) == IF key \in DOMAIN obj THEN obj[key] ELSE dflt

Event(obj) == Field(obj, "event", Scalar)
InnerType(obj) == Field(Event(obj), "type", "")
Delta(obj) == Field(Event(obj), "delta", Scalar)
Parent(obj) == Field(obj, "parent_tool_use_id", "root")

SystemSubtypes == {"init", "status", "hook_started", "hook_response", "hook_progress"}
DeltaTypes == {"text_delta", "thinking_delta", "input_json_delta", "signature_delta"}
InnerTypes == {"message_start", "content_block_start", "content_block_delta",
               "content_block_stop", "message_delta", "message_stop"}
TopTypes == {"assistant", "user", "result", "stream_event", "rate_limit_event", "system"}

KnownKeys ==
  {<<t>> : t \in TopTypes}
    \cup {<<"system", s>> : s \in SystemSubtypes}
    \cup {<<"stream_event", i>> : i \in InnerTypes}
    \cup {<<"stream_event", "content_block_delta", d>> : d \in DeltaTypes}

\* The most specific key of a message; <<"">> when it has no type.
MessageKey(m) ==
  LET type == Field(m, "type", "")
      subtype == Field(m, "subtype", "")
      delta == Field(Delta(m), "type", "")
  IN CASE type = "system" /\ subtype # "" -> <<type, subtype>>
       [] type = "stream_event" /\ InnerType(m) # "" ->
            IF InnerType(m) = "content_block_delta" /\ delta # ""
            THEN <<type, InnerType(m), delta>> ELSE <<type, InnerType(m)>>
       [] OTHER -> <<type>>

\* The calls of warnUnknown: the branches that model nothing.
FallsThrough(m) ==
  LET type == Field(m, "type", "")
  IN \/ type \notin TopTypes
     \/ type = "system" /\ Field(m, "subtype", "") \notin SystemSubtypes
     \/ type = "stream_event" /\ InnerType(m) \notin InnerTypes
     \/ /\ type = "stream_event"
        /\ InnerType(m) = "content_block_delta"
        /\ Field(Delta(m), "type", "") \notin DeltaTypes

Warns(m) == FallsThrough(m) /\ MessageKey(m) \notin KnownKeys

Passthrough(kind, m) == [type |-> "passthrough", kind |-> kind, payload |-> m]

\* A block that holds no other blocks.
ParseFlat(b) ==
  CASE Field(b, "type", "") = "text" -> [type |-> "text", text |-> Field(b, "text", "")]
    [] Field(b, "type", "") = "thinking" ->
         [type |-> "thinking", text |-> Field(b, "thinking", "")]
    [] Field(b, "type", "") = "tool_use" ->
         [type |-> "tool_use", id |-> Field(b, "id", ""), name |-> Field(b, "name", ""),
          input |-> Field(b, "input", Scalar)]
    [] Field(b, "type", "") = "image" -> [type |-> "image"]
    [] OTHER -> [type |-> "unknown", type_name |-> Field(b, "type", "")]

\* parseContentBlock; a tool result holds a text, blocks, or nothing.
ParseContentBlock(b) ==
  IF Field(b, "type", "") # "tool_result" THEN ParseFlat(b)
  ELSE LET raw == Field(b, "content", Scalar)
       IN [type |-> "tool_result", tool_use_id |-> Field(b, "tool_use_id", ""),
           is_error |-> Field(b, "is_error", FALSE),
           content |->
             IF "blocks" \in DOMAIN raw
             THEN [blocks |-> [i \in DOMAIN raw.blocks |-> ParseFlat(raw.blocks[i])]]
             ELSE [text |-> Field(raw, "text", "")]]

MapSystem(m) ==
  LET subtype == Field(m, "subtype", "")
      hook == Field(m, "hook_event", "")
      Hook(phase) == IF hook = "" THEN <<"hook", phase>> ELSE <<"hook", hook, phase>>
  IN CASE subtype = "init" -> <<[type |-> "session_init", model |-> Field(m, "model", "")]>>
       [] subtype = "status" ->
            <<[type |-> "status_change", status |-> Field(m, "status", "")]>>
       [] subtype = "hook_started" -> <<Passthrough(Hook("started"), m)>>
       [] subtype = "hook_response" -> <<Passthrough(Hook("response"), m)>>
       [] subtype = "hook_progress" -> <<Passthrough(Hook("progress"), m)>>
       [] OTHER -> <<Passthrough(<<"system", IF subtype = "" THEN "unknown" ELSE subtype>>, m)>>

\* The three deltas that are kept; the others are dropped.
MapDelta(m) ==
  LET delta == Delta(m)
      Ev(type, text) == <<[type |-> type, message_id |-> "",
                           index |-> Field(Event(m), "index", 0), text |-> text]>>
  IN CASE Field(delta, "type", "") = "text_delta" ->
            Ev("assistant_text_delta", Field(delta, "text", ""))
       [] Field(delta, "type", "") = "thinking_delta" ->
            Ev("assistant_thinking_delta", Field(delta, "thinking", ""))
       [] Field(delta, "type", "") = "input_json_delta" ->
            Ev("assistant_tool_use_input_delta", Field(delta, "partial_json", ""))
       [] OTHER -> <<>>

\* Only message_start carries the id of its message and the parent.
MapStreamEvent(m) ==
  LET ev == Event(m)
      index == Field(ev, "index", 0)
      message == Field(ev, "message", Scalar)
  IN CASE InnerType(m) = "message_start" ->
            <<[type |-> "assistant_message_start", message_id |-> Field(message, "id", ""),
               parent |-> Parent(m)]>>
       [] InnerType(m) = "content_block_start" ->
            <<[type |-> "assistant_content_block_start", message_id |-> "", index |-> index,
               block |-> ParseContentBlock(Field(ev, "content_block", Scalar))]>>
       [] InnerType(m) = "content_block_delta" -> MapDelta(m)
       [] InnerType(m) = "content_block_stop" ->
            <<[type |-> "assistant_content_block_stop", message_id |-> "", index |-> index]>>
       [] InnerType(m) = "message_delta" ->
            <<[type |-> "assistant_message_delta", message_id |-> "",
               stop_reason |-> Field(Delta(m), "stop_reason", "null")]>>
       [] InnerType(m) = "message_stop" ->
            <<[type |-> "assistant_message_stop", message_id |-> ""]>>
       [] OTHER ->
            <<Passthrough(<<"stream_event", IF InnerType(m) = "" THEN "unknown" ELSE InnerType(m)>>, m)>>

\* (Mutant of MapUser: one result of a wrapper is shown, the others are not.)
MapUserFirst(m) ==
  LET content == Field(Field(m, "message", Scalar), "content", Scalar)
      blocks == Field(content, "blocks", <<>>)
      results == Among(blocks, {b \in Entries(blocks) : Field(b, "type", "") = "tool_result"})
  IN IF results = <<>> THEN <<Passthrough(<<"user">>, m)>>
     ELSE <<[type |-> "tool_result", tool_use_id |-> Field(results[1], "tool_use_id", "")]>>

\* A user turn: a text, a wrapper of tool results (whose other blocks are
\* dropped), or blocks.
MapUser(m) ==
  LET content == Field(Field(m, "message", Scalar), "content", Scalar)
      UserMessage(blocks) ==
        <<[type |-> "user_message", content |-> blocks, parent |-> Parent(m)]>>
  IN IF "text" \in DOMAIN content
     THEN UserMessage(<<[type |-> "text", text |-> content.text]>>)
     ELSE IF "blocks" \notin DOMAIN content THEN <<Passthrough(<<"user">>, m)>>
     ELSE LET parsed == [i \in DOMAIN content.blocks |-> ParseContentBlock(content.blocks[i])]
              results == Among(parsed, {b \in Entries(parsed) : b.type = "tool_result"})
          IN IF results = <<>> THEN UserMessage(parsed)
             ELSE [i \in DOMAIN results |->
                     [type |-> "tool_result", tool_use_id |-> results[i].tool_use_id,
                      content |-> results[i].content, is_error |-> results[i].is_error,
                      parent |-> Parent(m)]]

MapSdkMessage(m) ==
  LET type == Field(m, "type", "")
  IN CASE ~IsObject(m) -> <<>>
       [] type = "system" -> MapSystem(m)
       [] type = "stream_event" -> MapStreamEvent(m)
       [] type = "assistant" -> <<[type |-> "assistant_checkpoint"]>>
       [] type = "user" -> MapUser(m)
       [] type = "result" -> <<[type |-> "result", subtype |-> Field(m, "subtype", "")]>>
       [] type = "rate_limit_event" -> <<[type |-> "rate_limit"]>>
       [] OTHER -> <<Passthrough(<<IF type = "" THEN "unknown" ELSE type>>, m)>>
=============================================================================
