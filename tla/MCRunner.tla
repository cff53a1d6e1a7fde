------------------------------ MODULE MCRunner ------------------------------
\* Runner with the SDK messages the mapper tells apart, and some it does not know.
EXTENDS Runner

System == {[type |-> "system", subtype |-> s] : s \in SystemSubtypes \cup {"compact"}}
            \cup {[type |-> "system"]}
            \cup {[type |-> "system", subtype |-> "hook_started", hook_event |-> "Stop"]}

Stream(ev) == [type |-> "stream_event", event |-> ev]

Streams ==
  {Stream([type |-> t]) : t \in InnerTypes \cup {"ping"}}
    \cup {Stream(Scalar)}
    \cup {Stream([type |-> "content_block_delta", index |-> 1, delta |-> [type |-> d]]) :
            d \in DeltaTypes \cup {"citations_delta"}}

ToolResult(id) == [type |-> "tool_result", tool_use_id |-> id, content |-> [text |-> "t"]]
Text == [type |-> "text", text |-> "t"]

Users ==
  {[type |-> "user", message |-> [content |-> c]] :
     c \in {[text |-> "t"], Scalar, [blocks |-> <<Text>>], [blocks |-> <<>>],
            [blocks |-> <<ToolResult("x"), Text, ToolResult("y")>>],
            [blocks |-> <<Scalar>>],
            [blocks |-> <<[type |-> "tool_result", content |-> [blocks |-> <<Text>>]]>>]}}
    \cup {[type |-> "user"]}

MCMessages ==
  System \cup Streams \cup Users \cup {Scalar}
    \cup {[type |-> t] : t \in {"assistant", "result", "rate_limit_event", "prompt_suggestion"}}
=============================================================================
