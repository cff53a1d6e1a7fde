---------------------------- MODULE TermClipboard ----------------------------
(***************************************************************************)
(* What a program in the terminal copies (OSC 52) and how useTerminalCore  *)
(* brings it to the clipboard: at once if the browser lets it, else with   *)
(* the user's next key or click, and over the Clipboard API where there is *)
(* one, whose answers come late.  The user may be composing with an IME.   *)
(***************************************************************************)
EXTENDS Naturals, Sequences

CONSTANTS
  Payloads,  \* what is copied
  MaxCopies, \* bound on copies
  MaxGestures

NoText == "(none)"

ASSUME PayloadsAssumption == NoText \notin Payloads
ASSUME CopiesAssumption == MaxCopies \in Nat /\ MaxGestures \in Nat

VARIABLES
  secure,       \* a secure context: there is a Clipboard API
  pendingOsc52, \* the staged copy, or NoText
  imeComposing,
  asks,        \* calls of the API without an answer: [text, clears]
  clipboard,
  copied,       \* what the program copied, in order
  landed,       \* the last copy was on the clipboard
  gestures

clipVars == <<secure, pendingOsc52, imeComposing, asks, clipboard, copied, landed, gestures>>

ClipInit ==
  /\ secure \in BOOLEAN
  /\ pendingOsc52 = NoText /\ imeComposing = FALSE /\ asks = {}
  /\ clipboard = NoText /\ copied = <<>> /\ landed = FALSE /\ gestures = 0

Latest == copied[Len(copied)]

\* writeClipboardApiOnly: nothing without an API.  Those that clear unstage the
\* copy when they succeed; the others are best effort.
ApiCall(text, clears) == IF secure THEN {[text |-> text, clears |-> clears]} ELSE {}

\* text gets to the clipboard.
Lands(text) == clipboard' = text /\ landed' = (landed \/ text = Latest)

Stays == UNCHANGED <<clipboard, landed>>

\* writeClipboardSync: the copy event, else the copy of a selection.
WriteClipboardSync(eventOk, rangeOk) == eventOk \/ rangeOk

\* The OSC 52 handler: stage, then the copy event, then the API.  eventOk: the
\* browser takes the copy event.
Osc52(text, eventOk) ==
  /\ Len(copied) < MaxCopies
  /\ copied' = Append(copied, text)
  /\ IF ~imeComposing /\ eventOk
     THEN /\ pendingOsc52' = NoText /\ clipboard' = text /\ landed' = TRUE
          /\ UNCHANGED asks
     ELSE /\ pendingOsc52' = text /\ landed' = FALSE
          /\ asks' = asks \cup ApiCall(text, TRUE)
          /\ UNCHANGED clipboard
  /\ UNCHANGED <<secure, imeComposing, gestures>>

\* flushPendingOsc52 under a key or click, with writeClipboardSync: the copy event,
\* else a selection; with either a best effort of the API.
Gesture(eventOk, rangeOk) ==
  /\ gestures < MaxGestures /\ gestures' = gestures + 1
  /\ pendingOsc52 # NoText /\ ~imeComposing
  /\ IF WriteClipboardSync(eventOk, rangeOk)
     THEN /\ pendingOsc52' = NoText
          /\ Lands(pendingOsc52)
          /\ asks' = asks \cup ApiCall(pendingOsc52, FALSE)
     ELSE /\ asks' = asks \cup ApiCall(pendingOsc52, FALSE) \cup ApiCall(pendingOsc52, TRUE)
          /\ UNCHANGED pendingOsc52
          /\ Stays
  /\ UNCHANGED <<secure, imeComposing, copied>>

\* compositionstart, compositionend
Compose ==
  /\ gestures < MaxGestures /\ gestures' = gestures + 1
  /\ imeComposing' = ~imeComposing
  /\ UNCHANGED <<secure, pendingOsc52, asks, clipboard, copied, landed>>

\* The API grants or denies a call, in any order.
Answered(c, ok) ==
  /\ c \in asks
  /\ asks' = asks \ {c}
  /\ IF ok THEN Lands(c.text) ELSE Stays
  /\ pendingOsc52' = IF ok /\ c.clears /\ pendingOsc52 = c.text THEN NoText ELSE pendingOsc52
  /\ UNCHANGED <<secure, imeComposing, copied, gestures>>

ClipNext ==
  \/ \E t \in Payloads, e \in BOOLEAN : Osc52(t, e)
  \/ \E e, r \in BOOLEAN : Gesture(e, r)
  \/ Compose
  \/ \E c \in asks, ok \in BOOLEAN : Answered(c, ok)

-----------------------------------------------------------------------------
(* Correctness *)

\* The latest copy is not lost: it was on the clipboard or it still waits for a
\* gesture.  "an async Clipboard API denial that arrives after a later copy must
\* not clobber the newer pending payload".
NewestNotLost ==
  copied # <<>> => landed \/ pendingOsc52 = Latest
=============================================================================
