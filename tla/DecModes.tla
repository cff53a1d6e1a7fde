------------------------------ MODULE DecModes ------------------------------
(***************************************************************************)
(* attach/dec_modes.rs: which DEC private modes a terminal's program has   *)
(* set, scanned from PTY output that arrives in reads cut anywhere, and    *)
(* the prefix that restores them when a page is primed from a history that *)
(* has long lost the sequences that set them.                              *)
(*                                                                         *)
(* A byte is a member of Bytes; a mode's number is one byte, so that two   *)
(* of them in a row are a number that is not tracked.  The program writes  *)
(* tokens: sequences a terminal emulator knows, and rubbish.  The emulator *)
(* in the page is outside this repository: it understands every token.     *)
(* Modes that are on by default (7, 25) are left out: see the README.      *)
(***************************************************************************)
EXTENDS Ring, FiniteSets, SequencesExt

CONSTANTS
  Tracked,     \* modes, as bytes
  Untracked,   \* other numbers
  PendingCap,  \* PENDING_CAP, in bytes
  HistoryMax,  \* bytes of history
  ModePlans    \* [tokens: what the program writes, count: how many tokens]

Numbers == Tracked \cup Untracked
Bytes   == Numbers \cup {"ESC", "[", "?", "!", ";", "h", "l", "c", "p", "x"}

ASSUME DecModesAssumption ==
  /\ Tracked \cap Untracked = {}
  /\ Numbers \cap {"ESC", "[", "?", "!", ";", "h", "l", "c", "p", "x", "(end)"} = {}
  /\ PendingCap \in Nat /\ HistoryMax \in Nat
  /\ \A p \in ModePlans : p.tokens \subseteq Seq(Bytes) /\ p.count \in Nat

VARIABLES
  modes,     \* the tracker: [active, pending]
  unread,    \* bytes the program wrote that have not been read
  history,   \* chunks of history, oldest first
  written,   \* tokens the program wrote that are not wholly read, and where they end
  truth,     \* modes that the tokens wholly read have set
  lapsed,    \* a read ended where the tracker loses a sequence
  recital    \* the plan, and how many tokens are left

modeVars == <<modes, unread, history, written, truth, lapsed, recital>>

ModeInit ==
  /\ modes = [active |-> {}, pending |-> <<>>]
  /\ unread = <<>> /\ history = <<>> /\ written = <<>> /\ truth = {} /\ lapsed = FALSE
  /\ recital \in ModePlans

-----------------------------------------------------------------------------
\* apply_params: the numbers among the parameters of a sequence.
NumbersIn(params) ==
  {params[k] : k \in {k \in DOMAIN params :
     /\ params[k] \in Numbers
     /\ k = Len(params) \/ params[k + 1] = ";"
     /\ k = 1 \/ params[k - 1] \notin Numbers}}

Applied(active, params, final) ==
  CASE final = "h" -> active \cup (NumbersIn(params) \cap Tracked)
    [] final = "l" -> active \ NumbersIn(params)
    [] OTHER       -> active

Byte(data, i) == IF i <= Len(data) THEN data[i] ELSE "(end)"

\* The first byte from i on that is neither a parameter nor an intermediate one.
FinalAt(data, i) ==
  CHOOSE j \in i .. Len(data) + 1 :
    /\ Byte(data, j) \notin Numbers \cup {"?", ";", "!"}
    /\ \A k \in i .. j - 1 : data[k] \in Numbers \cup {"?", ";", "!"}

\* (Mutant of Carry: the carry buffer loses the escape byte.)
CarryLate(tail) == IF Len(tail) <= PendingCap THEN Tail(tail) ELSE <<>>

\* What is carried to the next read of an unfinished sequence.
Carry(tail) == IF Len(tail) <= PendingCap THEN tail ELSE <<>>

\* DecModeTracker::feed, on what was carried and the bytes of a read.
Feed(active, data) ==
  LET scan[i \in 1 .. Len(data) + 1, a \in SUBSET Tracked] ==
        LET b(k) == Byte(data, i + k)
            j == FinalAt(data, i + 3)
        IN CASE i > Len(data) -> [active |-> a, pending |-> <<>>]
             [] b(0) = "ESC" /\ b(1) = "c" -> scan[i + 2, {}]
             [] b(0) = "ESC" /\ b(1) = "[" /\ b(2) = "!" /\ b(3) = "p" -> scan[i + 4, {}]
             [] b(0) = "ESC" /\ b(1) = "(end)" -> [active |-> a, pending |-> <<"ESC">>]
             [] b(0) = "ESC" /\ b(1) = "[" /\ b(2) = "(end)" ->
                  [active |-> a, pending |-> <<"ESC", "[">>]
             [] b(0) = "ESC" /\ b(1) = "[" /\ b(2) = "?" ->
                  CASE j > Len(data) ->
                         [active |-> a, pending |-> Carry(SubSeq(data, i, Len(data)))]
                    [] Byte(data, j) = "ESC" -> scan[i + 1, a]
                    [] OTHER -> scan[j + 1, Applied(a, SubSeq(data, i + 3, j - 1), data[j])]
             [] OTHER -> scan[i + 1, a]
  IN scan[1, active]

\* Where the tracker is known to lose a sequence: a soft reset of which all but
\* the last byte was read, and a sequence longer than it carries.
Loses(data) ==
  \/ Len(data) >= 3 /\ SubSeq(data, Len(data) - 2, Len(data)) = <<"ESC", "[", "!">>
  \/ \E i \in DOMAIN data :
       /\ Len(data) - i >= PendingCap
       /\ Byte(data, i) = "ESC" /\ Byte(data, i + 1) = "[" /\ Byte(data, i + 2) = "?"
       /\ FinalAt(data, i + 3) > Len(data)

-----------------------------------------------------------------------------
\* What a token does to the modes of a terminal (external).
Effect(token, on) ==
  CASE token \in {<<"ESC", "c">>, <<"ESC", "[", "!", "p">>} -> {}
    [] Len(token) > 3 /\ token[3] = "?" ->
         Applied(on, SubSeq(token, 4, Len(token) - 1), Last(token))
    [] OTHER -> on

\* The program writes a token.
Write(token) ==
  /\ recital.count > 0 /\ token \in recital.tokens
  /\ recital' = [recital EXCEPT !.count = @ - 1]
  /\ unread' = unread \o token
  /\ written' = Append(written, [token |-> token, end |-> Len(unread) + Len(token)])
  /\ UNCHANGED <<modes, history, truth, lapsed>>

\* A read of n bytes reaches the server (attach/mod.rs): the tracker scans it and
\* the history takes it.  The first one may be the replay of the daemon.
Read(n) ==
  LET bytes == SubSeq(unread, 1, n)
      data  == modes.pending \o bytes
      whole == {k \in DOMAIN written : written[k].end <= n}
      chunks == Append(history, bytes)
  IN /\ modes' = Feed(modes.active, data)
     /\ unread' = SubSeq(unread, n + 1, Len(unread))
     /\ history' = Evict(chunks, [i \in DOMAIN chunks |-> Len(chunks[i])], HistoryMax)
     /\ written' = [k \in 1 .. Len(written) - Cardinality(whole) |->
                      [written[k + Cardinality(whole)] EXCEPT !.end = @ - n]]
     /\ truth' = FoldLeft(LAMBDA on, w : Effect(w.token, on), truth,
                          SubSeq(written, 1, Cardinality(whole)))
     /\ lapsed' = (lapsed \/ Loses(data))
     /\ UNCHANGED recital

\* restore_sequence and full_snapshot: what a page that is reset is primed with.
Restore ==
  IF modes.active = {} THEN <<>>
  ELSE <<"ESC", "[", "?">> \o
       FoldLeft(LAMBDA s, m : IF s = <<>> THEN <<m>> ELSE s \o <<";", m>>, <<>>,
                SetToSeq(modes.active)) \o <<"h">>

Primed == Restore \o FlattenSeq(history)

ModeNext == \/ \E t \in recital.tokens : Write(t)
            \/ \E n \in 1 .. Len(unread) : Read(n)

-----------------------------------------------------------------------------
\* However the output is cut into reads, the tracker knows the modes that the
\* sequences read so far have set, except where it is known to lose one.
CutsDoNotMatter == ~lapsed => modes.active = truth

\* A page that is reset and primed shows the modes of the program, however much
\* of the output the history has lost and wherever it starts (with that exception).
PageIsRestored == ~lapsed => Feed({}, Primed).active = modes.active

\* What is carried is the start of a sequence, and bounded.
CarryIsBounded ==
  /\ modes.active \subseteq Tracked
  /\ modes.pending # <<>> => Head(modes.pending) = "ESC" /\ Len(modes.pending) <= PendingCap

ModesTracked == CutsDoNotMatter /\ PageIsRestored /\ CarryIsBounded
=============================================================================
