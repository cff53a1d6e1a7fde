SPECIFICATION RunnerSpec
CONSTANTS
  NoAnswer = NoAnswer
  NoMessage = NoMessage
  Prompts = {p1, p2}
  Calls = {c1, c2}
  Answers = {a1, a2}
  Messages <- MCMessages
INVARIANTS
  RunnerInv
  PromptsInOrder
  MessagesTold
PROPERTIES
  EofEnds
CHECK_DEADLOCK FALSE
