------------------------------- MODULE Screen -------------------------------
(***************************************************************************)
(* What attaching a browser to a terminal session promises: the session    *)
(* makes chunks of output 1, 2, 3, ...; every browser shows a window of    *)
(* them that ends where it has got to, has no hole except what a lagging   *)
(* receiver skipped, grows only at its end, and may be redrawn as another  *)
(* such window, but never as one that ends earlier.  All that holds until  *)
(* more than a ring of output is printed while the server waits for a      *)
(* daemon's Hello: the replay then begins beyond what follows it live, the *)
(* screens are torn, and nothing is promised of them any more.             *)
(***************************************************************************)
EXTENDS Integers

CONSTANT Browsers

VARIABLES
  made,     \* chunks made so far
  screen,   \* screen[b]: the chunks browser b shows
  skipped,  \* skipped[b]: the chunks a lag has cost b
  torn      \* a handshake was overrun

vars == <<made, screen, skipped, torn>>

\* S has no hole but chunks of L.
Gapless(S, L) ==
  \A x, y \in S : \A z \in x .. y : z \in S \cup L

\* Nothing in S lies beyond everything in T.
NotBeyond(S, T) == \A x \in S : \E y \in T : x <= y

Init ==
  /\ made = 0
  /\ screen = [b \in Browsers |-> {}]
  /\ skipped = [b \in Browsers |-> {}]
  /\ torn = FALSE

Make ==
  /\ made' = made + 1
  /\ UNCHANGED <<screen, skipped, torn>>

Skip ==
  /\ skipped' \in [Browsers -> SUBSET (1 .. made)]
  /\ \A b \in Browsers : skipped[b] \subseteq skipped'[b]
  /\ UNCHANGED <<made, screen, torn>>

\* The next chunk appears at the end.
Extend(b) ==
  /\ \E c \in 1 .. made :
       /\ \A x \in screen[b] : x < c
       /\ Gapless(screen[b] \cup {c}, skipped[b])
       /\ screen' = [screen EXCEPT ![b] = @ \cup {c}]
  /\ UNCHANGED <<made, skipped, torn>>

\* The screen is cleared and painted afresh.
Redraw(b) ==
  /\ \E S \in SUBSET (1 .. made) :
       /\ Gapless(S, skipped[b])
       /\ S # {} => NotBeyond(screen[b], S)
       /\ screen' = [screen EXCEPT ![b] = S]
  /\ UNCHANGED <<made, skipped, torn>>

\* A handshake is overrun.
Tear ==
  /\ torn' = TRUE
  /\ UNCHANGED <<made, screen, skipped>>

\* Torn screens show whatever arrives.
Garble ==
  /\ torn
  /\ screen' \in [Browsers -> SUBSET Nat]
  /\ skipped' \in [Browsers -> SUBSET Nat]
  /\ UNCHANGED <<made, torn>>

Next ==
  \/ Make
  \/ Skip
  \/ \E b \in Browsers : Extend(b) \/ Redraw(b)
  \/ Tear
  \/ Garble

Spec == Init /\ [][Next]_vars
=============================================================================
