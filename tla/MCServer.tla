------------------------------ MODULE MCServer ------------------------------
(***************************************************************************)
(* The server's smaller parts for TLC: the modes of a terminal, what the   *)
(* sidebar says of an agent, logins, the turns that tools wait for and the *)
(* end of a daemon share no state; a behaviour exercises one of them.      *)
(***************************************************************************)
EXTENDS DecModes, Activity, Login, ChatTurns, DaemonLife

VARIABLE part

\* Sequences of a program's output: modes set and reset, one or more at a time; both
\* resets; other sequences; numbers that are not tracked or too long a list of them;
\* and sequences that are broken off.
Csi(s) == <<"ESC", "[", "?">> \o s
MCModePlans ==
  {[tokens |-> {Csi(<<"1", ";", "2", "h">>), Csi(<<"1", "l">>), <<"ESC", "c">>}, count |-> 3],
   [tokens |-> {Csi(<<"1", "h">>), <<"ESC", "[", "!", "p">>, <<"ESC", "[", "x">>}, count |-> 3],
   [tokens |-> {Csi(<<"2", "h">>), Csi(<<"1">>), <<"ESC">>, <<"x">>}, count |-> 3],
   [tokens |-> {Csi(<<"1", "h">>), Csi(<<"1", ";", "2", ";", "6", "h">>), Csi(<<"1", "2", "h">>)},
    count |-> 2]}

-----------------------------------------------------------------------------
OfModes ==
  part = "modes" /\ ModeNext /\ UNCHANGED <<activityVars, loginVars, turnVars, lifeVars>>
OfActivity ==
  part = "activity" /\ ActivityNext /\ UNCHANGED <<modeVars, loginVars, turnVars, lifeVars>>
OfLogin ==
  part = "login" /\ LoginNext /\ UNCHANGED <<modeVars, activityVars, turnVars, lifeVars>>
OfTurns ==
  part = "turns" /\ TurnsNext /\ UNCHANGED <<modeVars, activityVars, loginVars, lifeVars>>
OfLife ==
  part = "life" /\ LifeNext /\ UNCHANGED <<modeVars, activityVars, loginVars, turnVars>>

\* A part that is not exercised stays in one initial state.
StillModes    == ModeInit /\ recital = CHOOSE p \in ModePlans : TRUE
StillActivity == ActivityInit /\ kind = "claude"

Init ==
  \/ /\ part = "modes"
     /\ ModeInit /\ StillActivity /\ LoginInit /\ TurnsInit /\ LifeInit
  \/ /\ part = "activity"
     /\ StillModes /\ ActivityInit /\ LoginInit /\ TurnsInit /\ LifeInit
  \/ /\ part \in {"login", "turns", "life"}
     /\ StillModes /\ StillActivity /\ LoginInit /\ TurnsInit /\ LifeInit

Next == (OfModes \/ OfActivity \/ OfLogin \/ OfTurns \/ OfLife) /\ UNCHANGED part

vars == <<part, modeVars, activityVars, loginVars, turnVars, lifeVars>>
Spec == Init /\ [][Next]_vars /\ LifeFairness
=============================================================================
