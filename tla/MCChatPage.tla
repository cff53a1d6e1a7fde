----------------------------- MODULE MCChatPage -----------------------------
\* ChatPage with small conversations: long talk without a user, talk with a
\* user, dialogs, and the mobile page.
EXTENDS ChatPage

MCIds == <<"m1", "m2", "m3", "m4">>

MCAsk == <<[options |-> {"x", "y"}, multi |-> FALSE], [options |-> {"x", ""}, multi |-> TRUE]>>

Nothing == [ui |-> "desktop", kinds |-> {}, messages |-> 0, blocks |-> 0, pieces |-> 0,
            questions |-> 0, lag |-> 0, sends |-> 0, gestures |-> 0, drops |-> 0, reloads |-> 0]

MCPlans ==
  {[Nothing EXCEPT !.kinds = {"text", "tool_use"}, !.messages = 4, !.blocks = 1, !.pieces = 1],
   [Nothing EXCEPT !.kinds = {"tool_use"}, !.messages = 3, !.blocks = 1, !.pieces = 1,
                   !.reloads = 1],
   [Nothing EXCEPT !.kinds = {"text", "thinking", "tool_use"}, !.messages = 1, !.blocks = 2,
                   !.pieces = 2, !.lag = 3, !.drops = 1],
   [Nothing EXCEPT !.kinds = {"tool_use"}, !.messages = 2, !.blocks = 1, !.pieces = 1,
                   !.lag = 1, !.sends = 2],
   [Nothing EXCEPT !.kinds = {"text"}, !.messages = 1, !.questions = 2, !.lag = 2,
                   !.gestures = 2, !.sends = 1],
   [Nothing EXCEPT !.questions = 1, !.gestures = 4, !.drops = 1],
   [Nothing EXCEPT !.ui = "mobile", !.kinds = {"text"}, !.messages = 1, !.blocks = 1,
                   !.pieces = 1, !.sends = 2, !.drops = 1]}

\* For the lock of a card: one question, asked while a bubble of the user is last.
LockAsk == <<[options |-> {"x", "y"}, multi |-> FALSE]>>

LockPlans ==
  {[Nothing EXCEPT !.kinds = {"text"}, !.messages = 1, !.questions = 1, !.lag = 3,
                   !.gestures = 2, !.sends = 1]}

Sym == Permutations(Tasks)
=============================================================================
