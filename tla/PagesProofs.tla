----------------------------- MODULE PagesProofs -----------------------------
(***************************************************************************)
(* Theorems about the parts of the pages (module MCPages composes them),   *)
(* for every value of their constants: what the file viewer, the web panel *)
(* and the links of a file show, what the desktop page owes the user's     *)
(* tabs, what a terminal owes its container, its program and the user who  *)
(* copies, what the user's document keeps, the stack of cards, the dialogs *)
(* and the pickers.                                                        *)
(***************************************************************************)
EXTENDS MCPages, PanelProofs

-----------------------------------------------------------------------------
(* TermResize *)

Timers == {"fit", "nudge"}
Writes == {"normal", "alt", "wipe", "close", "release", "begin", "end"}
OfSnapshot == {"normal", "alt", "wipe", "close"}

\* Some entry of the list lies in the set.
Meets(s, S) == \E i \in 1 .. Len(s) : s[i] \in S

Fitting   == Meets(timers, {"fit"})
Nudging   == Meets(timers, {"nudge"})
Painting  == Meets(writes, OfSnapshot)
Releasing == Meets(writes, {"release"})

\* A redraw is still to be asked for: a snapshot is coming, is being painted or was.
RedrawDue == prime \/ batch # "none" \/ Painting \/ pendingForce

\* The size the PTY has when all that is on its way has arrived, and whether it changes
\* on the way.
Told     == IF net = <<>> THEN pty ELSE Last(net)
Restless == Meets(net, Nat \ {pty}) \/ (Nudging /\ nudged # pty)

ResizeTypes ==
  /\ budget \in BudgetType
  /\ room \in Rooms /\ face \in BOOLEAN /\ onScreen \in BOOLEAN /\ settle \in BOOLEAN
  /\ pendingForce \in BOOLEAN /\ prime \in BOOLEAN
  /\ rows \in Nat /\ lastRows \in Nat /\ nudged \in Nat /\ pty \in Nat
  /\ fit \in [immediate : BOOLEAN] /\ frames \in 0 .. 2
  /\ batch \in {"none", "normal", "alt"} /\ latch \in {"nobody", "snapshot", "output"}
  /\ writes \in Seq(Writes) /\ net \in Seq(Nat)
  /\ sock \in {"closed", "attached", "open"}
  /\ blank \in BOOLEAN /\ deaf \in BOOLEAN /\ foreign \in BOOLEAN /\ raced \in BOOLEAN

TimersOK ==
  /\ timers \in Seq(Timers)
  /\ \A i, j \in 1 .. Len(timers) : timers[i] = timers[j] => i = j

\* An open socket has had its snapshot, a closed one carries nothing.
SocketOK == (sock = "open" => ~ prime) /\ (sock = "closed" => net = <<>>)

\* A redraw that is due is run by the timer, which then goes on to the frames, or by them.
ForceOK ==
  /\ pendingForce /\ Proposed >= 2 => Fitting \/ (frames > 0 /\ settle)
  /\ pendingForce /\ Fitting => fit.immediate

\* With a connection and a layout, the xterm has the size of its container and the last size
\* that was sent is that one, or the timer will see to it.
RowsFit == Connected /\ Proposed # 0 => rows = Proposed \/ Fitting
SentFits == Connected /\ Proposed # 0 => raced \/ lastRows = Proposed \/ Fitting \/ Releasing

\* The size that was sent last is the one the PTY has or gets.
ToldIsLast ==
  ~ deaf /\ ~ RedrawDue /\ ~ Nudging /\ lastRows # 0 /\ (foreign => net # <<>>) => Told = lastRows

\* A program whose screen is blank will see its size change.
BlankIsTold == blank /\ ~ deaf /\ ~ RedrawDue => Restless

LatchOK == latch = "snapshot" => Painting

ResizeIInv ==
  /\ ResizeTypes /\ TimersOK /\ SocketOK /\ ForceOK /\ RowsFit /\ SentFits /\ ToldIsLast
  /\ BlankIsTold /\ LatchOK

\* A list with one more entry, and one without its first.
LEMMA MeetsAppend ==
  ASSUME NEW E, NEW s \in Seq(E), NEW e \in E, NEW S
  PROVE  /\ Append(s, e) \in Seq(E)
         /\ Meets(Append(s, e), S) <=> Meets(s, S) \/ e \in S
<1> PICK n \in Nat : n = Len(s)
  BY LenProperties
<1> PICK q : q = Append(s, e)
  OBVIOUS
<1>1. q \in Seq(E)
  BY AppendProperties
<1>2. Len(q) = n + 1 /\ q[n + 1] = e /\ \A i \in 1 .. n : q[i] = s[i]
  BY Appended DEF Longer
<1>3. n + 1 \in 1 .. (n + 1) /\ \A i \in 1 .. (n + 1) : i \in 1 .. n \/ i = n + 1
  OBVIOUS
<1>4. \A i \in 1 .. n : i \in 1 .. (n + 1)
  OBVIOUS
<1>5. Meets(q, S) <=> \E i \in 1 .. (n + 1) : q[i] \in S
  BY <1>2 DEF Meets
<1>6. Meets(s, S) <=> \E i \in 1 .. n : s[i] \in S
  BY DEF Meets
<1>7. Meets(q, S) <=> Meets(s, S) \/ e \in S
  BY <1>2, <1>3, <1>4, <1>5, <1>6, Zenon
<1> QED
  BY <1>1, <1>7

LEMMA MeetsTail ==
  ASSUME NEW E, NEW s \in Seq(E), s # <<>>, NEW S
  PROVE  /\ Head(s) \in E /\ Tail(s) \in Seq(E)
         /\ Meets(s, S) <=> Head(s) \in S \/ Meets(Tail(s), S)
<1> PICK n \in Nat : n = Len(s) /\ n # 0
  BY LenProperties, EmptySeq
<1> PICK q : q = Tail(s)
  OBVIOUS
<1>1. q \in Seq(E) /\ Len(q) = n - 1 /\ (\A i \in 1 .. (n - 1) : q[i] = s[i + 1]) /\ Head(s) = s[1]
  BY HeadTailProperties
<1>2. \A i \in 1 .. n : i = 1 \/ (i - 1 \in 1 .. (n - 1) /\ (i - 1) + 1 = i)
  OBVIOUS
<1>3. 1 \in 1 .. n /\ \A i \in 1 .. (n - 1) : i + 1 \in 1 .. n
  OBVIOUS
<1>4. Meets(q, S) <=> \E i \in 1 .. (n - 1) : q[i] \in S
  BY <1>1 DEF Meets
<1>5. Meets(s, S) <=> \E i \in 1 .. n : s[i] \in S
  BY DEF Meets
<1>6. Meets(s, S) => s[1] \in S \/ Meets(q, S)
  <2> SUFFICES ASSUME NEW i \in 1 .. n, s[i] \in S PROVE s[1] \in S \/ Meets(q, S)
    BY <1>5
  <2>1. CASE i # 1
    <3> PICK j \in 1 .. (n - 1) : j + 1 = i
      BY <1>2, <2>1
    <3> q[j] = s[i]
      BY <1>1
    <3> QED
      BY <1>4
  <2> QED
    BY <2>1
<1>7. s[1] \in S \/ Meets(q, S) => Meets(s, S)
  BY <1>1, <1>3, <1>4, <1>5
<1>8. s[1] \in E
  BY <1>3, ElementOfSeq
<1> QED
  BY <1>1, <1>6, <1>7, <1>8

Leaves(r, t) ==
  /\ r \in Seq(Timers)
  /\ \A i, j \in 1 .. Len(r) : r[i] = r[j] => i = j
  /\ \A u \in Timers : Meets(r, {u}) <=> u # t /\ Meets(timers, {u})

\* What a timer that fires or is set anew leaves of the timers.
LEMMA CancelLeaves ==
  ASSUME TimersOK, NEW t \in Timers, NEW r, r = Cancel(t)
  PROVE  Leaves(r, t)
<1> PICK S : S = Timers \ {t}
  OBVIOUS
<1> PICK E : E = Timers
  OBVIOUS
<1> PICK s : s = timers
  OBVIOUS
<1>1. r = Among(s, S) /\ s \in Seq(E)
  BY DEF Cancel, Timers, TimersOK
<1>2. Filtered(r, E, s, S)
  BY <1>1, AmongProperties
<1>3. r \in Seq(Timers) /\ \A i, j \in 1 .. Len(r) : r[i] = r[j] => i = j
  <2>1. \A i, j \in 1 .. Len(s) : s[i] = s[j] => i = j
    BY Zenon DEF TimersOK
  <2> QED
    BY <1>2, <2>1, Zenon DEF Filtered
<1>4. \A u \in Timers : u \in S <=> u # t
  OBVIOUS
<1>5. ASSUME NEW u \in Timers, Meets(r, {u}) PROVE u # t /\ Meets(s, {u})
  BY <1>2, <1>4, <1>5 DEF Filtered, Meets
<1>6. ASSUME NEW u \in Timers, u # t, Meets(s, {u}) PROVE Meets(r, {u})
  BY <1>2, <1>4, <1>6 DEF Filtered, Meets
<1> QED
  BY <1>3, <1>5, <1>6 DEF Leaves

LEMMA SetTimer ==
  ASSUME TimersOK, NEW t \in Timers, timers' = Append(Cancel(t), t)
  PROVE  /\ TimersOK'
         /\ t = "fit" => Fitting' /\ (Nudging' <=> Nudging)
         /\ t = "nudge" => Nudging' /\ (Fitting' <=> Fitting)
<1> PICK r : r = Cancel(t)
  OBVIOUS
<1> PICK q : q = Append(r, t)
  OBVIOUS
<1> PICK E : E = Timers
  OBVIOUS
<1>1. Leaves(r, t) /\ r \in Seq(E) /\ t \in E
  BY CancelLeaves DEF Leaves
<1> PICK n \in Nat : n = Len(r)
  BY <1>1, LenProperties
<1>2. q \in Seq(E) /\ \A u : Meets(q, {u}) <=> Meets(r, {u}) \/ t \in {u}
  BY <1>1, MeetsAppend, Zenon
<1>3. Len(q) = n + 1 /\ q[n + 1] = t /\ \A i \in 1 .. n : q[i] = r[i]
  BY <1>1, Appended DEF Longer
<1>4. ~ Meets(r, {t})
  BY <1>1 DEF Leaves
<1>5. \A i \in 1 .. n : q[i] # t
  BY <1>3, <1>4 DEF Meets
<1>6. \A i \in 1 .. (n + 1) : i \in 1 .. n \/ i = n + 1
  OBVIOUS
<1>7. \A i, j \in 1 .. (n + 1) : q[i] = q[j] => i = j
  BY <1>1, <1>3, <1>5, <1>6 DEF Leaves
<1>8. \A u \in Timers : Meets(q, {u}) <=> u = t \/ Meets(timers, {u})
  BY <1>1, <1>2 DEF Leaves
<1>9. timers' = q
  OBVIOUS
<1> QED
  BY <1>2, <1>3, <1>7, <1>8, <1>9 DEF TimersOK, Fitting, Nudging, Timers

LEMMA FitFires ==
  ASSUME TimersOK, timers' = Cancel("fit")
  PROVE  TimersOK' /\ ~ Fitting' /\ (Nudging' <=> Nudging)
<1> PICK r : r = Cancel("fit")
  OBVIOUS
<1>1. Leaves(r, "fit")
  BY CancelLeaves DEF Timers
<1>2. timers' = r
  OBVIOUS
<1> QED
  BY <1>1, <1>2 DEF TimersOK, Fitting, Nudging, Timers, Leaves

LEMMA NudgeFires ==
  ASSUME TimersOK, timers # <<>>, Head(timers) = "nudge", timers' = Tail(timers)
  PROVE  TimersOK' /\ ~ Nudging' /\ (Fitting' <=> Fitting) /\ Nudging
<1> PICK s \in Seq(Timers), n \in Nat : s = timers /\ n = Len(s) /\ n # 0
  BY LenProperties, EmptySeq DEF TimersOK
<1> PICK q : q = Tail(s)
  OBVIOUS
<1>1. s[1] = "nudge" /\ Head(s) = "nudge"
  BY HeadTailProperties
<1>2. q \in Seq(Timers) /\ Len(q) = n - 1 /\ \A i \in 1 .. (n - 1) : q[i] = s[i + 1]
  BY HeadTailProperties
<1>3. \A i \in 1 .. (n - 1) : i + 1 \in 1 .. n /\ i + 1 # 1
  OBVIOUS
<1>4. \A i, j \in 1 .. n : s[i] = s[j] => i = j
  BY DEF TimersOK
<1>5. \A i, j \in 1 .. (n - 1) : q[i] = q[j] => i = j
  BY <1>2, <1>3, <1>4
<1>6. 1 \in 1 .. n
  OBVIOUS
<1>7. ~ Meets(q, {"nudge"})
  BY <1>1, <1>2, <1>3, <1>4, <1>6 DEF Meets
<1>8. (Meets(s, {"fit"}) <=> Meets(q, {"fit"})) /\ Meets(s, {"nudge"})
  <2>1. \A u : Meets(s, {u}) <=> Head(s) \in {u} \/ Meets(q, {u})
    BY MeetsTail, Zenon
  <2> QED
    BY <1>1, <2>1
<1>9. timers' = q
  OBVIOUS
<1> QED
  BY <1>2, <1>5, <1>7, <1>8, <1>9 DEF TimersOK, Fitting, Nudging

\* scheduleFit replaces the timer of a fit, and a redraw that is due makes it one at once.
Scheduled(force) ==
  /\ Fitting' /\ (Nudging' <=> Nudging)
  /\ pendingForce' = (pendingForce \/ force)
  /\ pendingForce' => fit'.immediate

LEMMA ScheduleSets ==
  ASSUME ResizeTypes, TimersOK, NEW immediate \in BOOLEAN, NEW force \in BOOLEAN,
         ScheduleFit(immediate, force)
  PROVE  /\ TimersOK' /\ Scheduled(force)
         /\ pendingForce' \in BOOLEAN /\ fit' \in [immediate : BOOLEAN]
<1>1. timers' = Append(Cancel("fit"), "fit") /\ "fit" \in Timers
  BY DEF ScheduleFit, Timers
<1>2. TimersOK' /\ Fitting' /\ (Nudging' <=> Nudging)
  BY <1>1, SetTimer
<1>3. pendingForce' = (pendingForce \/ force) /\ fit' = [immediate |-> immediate \/ pendingForce']
  BY DEF ScheduleFit
<1>4. pendingForce' \in BOOLEAN
  BY <1>3 DEF ResizeTypes
<1>5. fit'.immediate = (immediate \/ pendingForce')
  BY <1>3
<1>6. fit' \in [immediate : BOOLEAN]
  BY <1>3, <1>4
<1>7. pendingForce' => fit'.immediate
  BY <1>5, Zenon
<1> QED
  BY <1>2, <1>3, <1>4, <1>6, <1>7 DEF Scheduled

\* sendResize appends to what is on its way, or is not heard.
Sent(r, record) ==
  \/ /\ Connected /\ deaf' = deaf /\ lastRows' = IF record THEN r ELSE lastRows
     /\ net' # <<>> /\ Last(net') = r
     /\ \A S : Meets(net', S) <=> Meets(net, S) \/ r \in S
  \/ ~ Connected /\ deaf' = TRUE /\ net' = net /\ lastRows' = lastRows

LEMMA SendResizeSends ==
  ASSUME ResizeTypes, NEW r \in Nat, NEW record \in BOOLEAN, SendResize(r, record)
  PROVE  /\ Sent(r, record)
         /\ net' \in Seq(Nat) /\ lastRows' \in Nat /\ deaf' \in BOOLEAN
<1> PICK s \in Seq(Nat) : s = net
  BY DEF ResizeTypes
<1> PICK q : q = Append(s, r)
  OBVIOUS
<1>1. q \in Seq(Nat) /\ \A S : Meets(q, S) <=> Meets(s, S) \/ r \in S
  BY MeetsAppend, Zenon
<1>2. q # <<>> /\ Last(q) = r
  <2> PICK n \in Nat : n = Len(s)
    BY LenProperties
  <2>1. Len(q) = n + 1 /\ q[n + 1] = r
    BY Appended DEF Longer
  <2> QED
    BY <1>1, <2>1, EmptySeq DEF Last
<1>3. CASE Connected
  <2>1. net' = q /\ lastRows' = (IF record THEN r ELSE lastRows) /\ deaf' = deaf
    BY <1>3 DEF SendResize
  <2>2. lastRows' \in Nat /\ deaf' \in BOOLEAN
    BY <2>1 DEF ResizeTypes
  <2> QED
    BY <1>1, <1>2, <1>3, <2>1, <2>2, Zenon DEF Sent
<1>4. CASE ~ Connected
  BY <1>4 DEF SendResize, Sent, ResizeTypes
<1> QED
  BY <1>3, <1>4

\* What was sent last is told, unless it was not heard.
LEMMA SentIsTold ==
  ASSUME NEW r \in Nat, NEW record \in BOOLEAN, Sent(r, record), UNCHANGED pty
  PROVE  /\ deaf' \/ Told' = r
         /\ deaf' \/ Meets(net', Nat \ {pty'}) \/ r = pty'
         /\ deaf' \/ (Meets(net, Nat \ {pty}) => Meets(net', Nat \ {pty'}))
  BY DEF Sent, Told

\* A fit that forces nothing sends the size of the container unless it was sent last.
Fitted ==
  /\ Connected => lastRows' = Proposed
  /\ ~ Connected => net' = net
  /\ \/ net' = net /\ lastRows' = lastRows /\ deaf' = deaf
     \/ deaf'
     \/ deaf' = deaf /\ Told' = lastRows' /\ (Meets(net, Nat \ {pty}) => Meets(net', Nat \ {pty'}))

LEMMA FitSends ==
  ASSUME ResizeTypes, UNCHANGED pty,
         IF Proposed = lastRows THEN UNCHANGED <<lastRows, net, deaf>> ELSE SendResize(Proposed, TRUE)
  PROVE  Fitted /\ net' \in Seq(Nat) /\ lastRows' \in Nat /\ deaf' \in BOOLEAN
<1>0. Proposed \in Nat
  BY RoomsAssumption DEF Proposed, ResizeTypes
<1>1. CASE Proposed = lastRows
  BY <1>1 DEF Fitted, ResizeTypes
<1>2. CASE Proposed # lastRows
  <2>1. SendResize(Proposed, TRUE)
    BY <1>2
  <2>2. Sent(Proposed, TRUE) /\ net' \in Seq(Nat) /\ lastRows' \in Nat /\ deaf' \in BOOLEAN
    BY <1>0, <2>1, SendResizeSends
  <2>3. deaf' \/ (Told' = Proposed /\ (Meets(net, Nat \ {pty}) => Meets(net', Nat \ {pty'})))
    BY <1>0, <2>2, SentIsTold
  <2>4. \/ Connected /\ lastRows' = Proposed /\ deaf' = deaf
        \/ ~ Connected /\ deaf' /\ net' = net
    BY <2>2 DEF Sent
  <2> QED
    BY <2>2, <2>3, <2>4, Zenon DEF Fitted
<1> QED
  BY <1>1, <1>2

\* What stays when the variables it is about do.
LEMMA WritesStay ==
  (UNCHANGED writes => (Painting' <=> Painting) /\ (Releasing' <=> Releasing))
  /\ (UNCHANGED <<room, face>> => Proposed' = Proposed)
  /\ (UNCHANGED sock => (Connected' <=> Connected))
  /\ (UNCHANGED timers => TimersOK' = TimersOK /\ (Fitting' <=> Fitting) /\ (Nudging' <=> Nudging))
  BY DEF Painting, Releasing, Proposed, Connected, TimersOK, Fitting, Nudging, Meets

LEMMA FitTimerKeeps == ASSUME ResizeIInv, FitTimer PROVE ResizeIInv'
<1> USE DEF ResizeIInv
<1>1. /\ UNCHANGED <<budget, room, face, onScreen, fit, nudged, pendingForce, batch, writes, latch>>
      /\ UNCHANGED <<sock, prime, pty, blank, foreign, raced>>
  BY DEF FitTimer, layoutVars, paintVars
<1>2. TimersOK' /\ ~ Fitting' /\ (Nudging' <=> Nudging)
  BY FitFires DEF FitTimer
<1>3. Fitting
  BY DEF FitTimer, Contains, Fitting, Meets
<1>4. /\ fit.immediate => frames' = 2 /\ settle' = pendingForce
      /\ ~ fit.immediate => frames' = frames /\ settle' = settle
  BY DEF FitTimer
<1>5. /\ (Painting' <=> Painting) /\ (Releasing' <=> Releasing)
      /\ Proposed' = Proposed /\ (Connected' <=> Connected)
  BY <1>1, WritesStay
<1>6. RedrawDue' <=> RedrawDue
  BY <1>1, <1>5 DEF RedrawDue
<1>7. /\ Proposed = 0 /\ UNCHANGED <<rows, lastRows, net, deaf>>
      \/ /\ Proposed # 0 /\ rows' = Proposed /\ Fitted
         /\ net' \in Seq(Nat) /\ lastRows' \in Nat /\ deaf' \in BOOLEAN
  BY <1>1, FitSends DEF FitTimer
<1>8. ResizeTypes'
  <2>1. frames' \in 0 .. 2 /\ settle' \in BOOLEAN
    BY <1>4 DEF ResizeTypes
  <2>2. rows' \in Nat /\ net' \in Seq(Nat) /\ lastRows' \in Nat /\ deaf' \in BOOLEAN
    BY <1>7, RoomsAssumption DEF ResizeTypes, Proposed
  <2> QED
    BY <1>1, <2>1, <2>2 DEF ResizeTypes
<1>9. SocketOK'
  BY <1>1, <1>7 DEF SocketOK, Fitted, Connected
<1>10. ForceOK'
  BY <1>1, <1>2, <1>3, <1>4, <1>5 DEF ForceOK
<1>11. RowsFit' /\ SentFits'
  BY <1>5, <1>7 DEF RowsFit, SentFits, Fitted
<1>12. ToldIsLast'
  BY <1>1, <1>2, <1>6, <1>7 DEF ToldIsLast, Fitted, Told
<1>13. BlankIsTold'
  BY <1>1, <1>2, <1>6, <1>7 DEF BlankIsTold, Restless, Fitted
<1>14. LatchOK'
  BY <1>1, <1>5 DEF LatchOK
<1> QED
  BY <1>2, <1>8, <1>9, <1>10, <1>11, <1>12, <1>13, <1>14

\* What a forced redraw sends: another size than the one that is restored.
LEMMA ForceSends ==
  ASSUME ResizeTypes, TimersOK, UNCHANGED pty, Proposed >= 2, ForcePtyRedraw(Proposed)
  PROVE  /\ TimersOK' /\ Nudging' /\ (Fitting' <=> Fitting) /\ nudged' \in Nat
         /\ net' \in Seq(Nat) /\ deaf' \in BOOLEAN /\ lastRows' = lastRows
         /\ deaf' \/ Restless'
         /\ Connected => deaf' = deaf
         /\ ~ Connected => net' = net
<1> PICK p \in Nat, r \in Nat : p = Proposed /\ r = (IF p > 2 THEN p - 1 ELSE p + 1) /\ r # p
  BY RoomsAssumption DEF Proposed, ResizeTypes
<1>1. nudged' = p /\ timers' = Append(Cancel("nudge"), "nudge") /\ SendResize(r, FALSE)
  BY DEF ForcePtyRedraw
<1>2. TimersOK' /\ Nudging' /\ (Fitting' <=> Fitting)
  BY <1>1, SetTimer DEF Timers
<1>3. Sent(r, FALSE) /\ net' \in Seq(Nat) /\ deaf' \in BOOLEAN
  BY <1>1, SendResizeSends
<1>4. deaf' \/ Meets(net', Nat \ {pty'}) \/ r = pty'
  BY <1>3, SentIsTold
<1>5. deaf' \/ Restless'
  BY <1>1, <1>2, <1>4 DEF Restless
<1>6. (Connected => deaf' = deaf) /\ (~ Connected => net' = net) /\ lastRows' = lastRows
  BY <1>3 DEF Sent
<1> QED
  BY <1>1, <1>2, <1>3, <1>5, <1>6

LEMMA FrameKeeps == ASSUME ResizeIInv, Frame PROVE ResizeIInv'
<1> USE DEF ResizeIInv
<1>1. /\ UNCHANGED <<budget, room, face, onScreen, fit, settle, batch, writes, latch>>
      /\ UNCHANGED <<sock, prime, pty, blank, foreign, raced>>
      /\ frames > 0 /\ frames' = frames - 1
  BY DEF Frame, layoutVars, paintVars
<1>2. /\ (Painting' <=> Painting) /\ (Releasing' <=> Releasing)
      /\ Proposed' = Proposed /\ (Connected' <=> Connected)
  BY <1>1, WritesStay
<1>3. Proposed \in Nat /\ frames' \in 0 .. 2
  BY <1>1, RoomsAssumption DEF Proposed, ResizeTypes
<1>4. CASE UNCHANGED <<rows, lastRows, nudged, pendingForce, timers, net, deaf>> /\ frames # 1
  <2>1. TimersOK' /\ (Fitting' <=> Fitting) /\ (Nudging' <=> Nudging)
    BY <1>4, WritesStay
  <2>2. ResizeTypes'
    BY <1>1, <1>3, <1>4 DEF ResizeTypes
  <2>3. frames' > 0
    BY <1>1, <1>4 DEF ResizeTypes
  <2>4. RedrawDue' <=> RedrawDue
    BY <1>1, <1>2, <1>4 DEF RedrawDue
  <2>5. SocketOK' /\ ForceOK' /\ RowsFit' /\ SentFits' /\ LatchOK'
    BY <1>1, <1>2, <1>4, <2>1, <2>3 DEF SocketOK, ForceOK, RowsFit, SentFits, LatchOK
  <2>6. ToldIsLast' /\ BlankIsTold'
    BY <1>1, <1>4, <2>1, <2>4 DEF ToldIsLast, BlankIsTold, Told, Restless
  <2> QED
    BY <2>1, <2>2, <2>5, <2>6
<1>5. CASE UNCHANGED <<rows, lastRows, nudged, pendingForce, timers, net, deaf>> /\ frames = 1 /\ Proposed = 0
  <2>1. TimersOK' /\ (Fitting' <=> Fitting) /\ (Nudging' <=> Nudging)
    BY <1>5, WritesStay
  <2>2. ResizeTypes'
    BY <1>1, <1>3, <1>5 DEF ResizeTypes
  <2>4. RedrawDue' <=> RedrawDue
    BY <1>1, <1>2, <1>5 DEF RedrawDue
  <2>5. SocketOK' /\ ForceOK' /\ RowsFit' /\ SentFits' /\ LatchOK'
    BY <1>1, <1>2, <1>5, <2>1 DEF SocketOK, ForceOK, RowsFit, SentFits, LatchOK
  <2>6. ToldIsLast' /\ BlankIsTold'
    BY <1>1, <1>5, <2>1, <2>4 DEF ToldIsLast, BlankIsTold, Told, Restless
  <2> QED
    BY <2>1, <2>2, <2>5, <2>6
<1>6. CASE /\ frames = 1 /\ Proposed # 0 /\ rows' = Proposed /\ settle /\ Proposed < 2
           /\ UNCHANGED <<lastRows, nudged, pendingForce, timers, net, deaf>>
  <2>1. TimersOK' /\ (Fitting' <=> Fitting) /\ (Nudging' <=> Nudging)
    BY <1>6, WritesStay
  <2>2. ResizeTypes'
    BY <1>1, <1>3, <1>6 DEF ResizeTypes
  <2>4. RedrawDue' <=> RedrawDue
    BY <1>1, <1>2, <1>6 DEF RedrawDue
  <2>5. SocketOK' /\ ForceOK' /\ RowsFit' /\ SentFits' /\ LatchOK'
    BY <1>1, <1>2, <1>3, <1>6, <2>1 DEF SocketOK, ForceOK, RowsFit, SentFits, LatchOK
  <2>6. ToldIsLast' /\ BlankIsTold'
    BY <1>1, <1>6, <2>1, <2>4 DEF ToldIsLast, BlankIsTold, Told, Restless
  <2> QED
    BY <2>1, <2>2, <2>5, <2>6
<1>7. CASE /\ frames = 1 /\ Proposed # 0 /\ rows' = Proposed /\ Proposed >= 2
           /\ ForcePtyRedraw(Proposed) /\ pendingForce' = FALSE
  <2>1. /\ TimersOK' /\ Nudging' /\ (Fitting' <=> Fitting) /\ nudged' \in Nat
        /\ net' \in Seq(Nat) /\ deaf' \in BOOLEAN /\ lastRows' = lastRows
        /\ deaf' \/ Restless'
        /\ Connected => deaf' = deaf
        /\ ~ Connected => net' = net
    BY <1>1, <1>7, ForceSends
  <2>2. ResizeTypes'
    <3>1. rows' \in Nat /\ pendingForce' \in BOOLEAN /\ lastRows' \in Nat
      BY <1>3, <1>7, <2>1 DEF ResizeTypes
    <3> QED
      BY <1>1, <1>3, <2>1, <3>1 DEF ResizeTypes
  <2>3. SocketOK'
    BY <1>1, <2>1 DEF SocketOK, Connected
  <2>4. ForceOK' /\ RowsFit' /\ SentFits' /\ LatchOK'
    BY <1>1, <1>2, <1>7, <2>1 DEF ForceOK, RowsFit, SentFits, LatchOK
  <2>5. ToldIsLast' /\ BlankIsTold'
    BY <2>1 DEF ToldIsLast, BlankIsTold
  <2> QED
    BY <2>1, <2>2, <2>3, <2>4, <2>5
<1>8. CASE /\ frames = 1 /\ Proposed # 0 /\ rows' = Proposed /\ ~ settle
           /\ UNCHANGED <<nudged, pendingForce, timers>>
           /\ IF Proposed = lastRows THEN UNCHANGED <<lastRows, net, deaf>> ELSE SendResize(Proposed, TRUE)
  <2>1. TimersOK' /\ (Fitting' <=> Fitting) /\ (Nudging' <=> Nudging)
    BY <1>8, WritesStay
  <2>2. Fitted /\ net' \in Seq(Nat) /\ lastRows' \in Nat /\ deaf' \in BOOLEAN
    BY <1>1, <1>8, FitSends
  <2>3. ResizeTypes'
    BY <1>1, <1>3, <1>8, <2>2 DEF ResizeTypes
  <2>4. RedrawDue' <=> RedrawDue
    BY <1>1, <1>2, <1>8 DEF RedrawDue
  <2>5. SocketOK' /\ ForceOK' /\ LatchOK'
    BY <1>1, <1>2, <1>8, <2>1, <2>2 DEF SocketOK, ForceOK, LatchOK, Fitted, Connected
  <2>6. RowsFit' /\ SentFits'
    BY <1>2, <1>8, <2>2 DEF RowsFit, SentFits, Fitted
  <2>7. ToldIsLast'
    BY <1>1, <2>1, <2>2, <2>4 DEF ToldIsLast, Told, Fitted
  <2>8. BlankIsTold'
    BY <1>1, <1>8, <2>1, <2>2, <2>4 DEF BlankIsTold, Restless, Fitted
  <2> QED
    BY <2>1, <2>3, <2>5, <2>6, <2>7, <2>8
<1>9. CASE frames # 1
  BY <1>4, <1>9 DEF Frame
<1>10. CASE frames = 1
  <2>1. RunFit(settle)
    BY <1>10 DEF Frame
  <2>2. settle \in BOOLEAN
    BY DEF ResizeTypes
  <2>3. Proposed < 2 \/ Proposed >= 2
    BY <1>3
  <2> QED
    BY <1>5, <1>6, <1>7, <1>8, <1>10, <2>1, <2>2, <2>3, Zenon DEF RunFit
<1> QED
  BY <1>9, <1>10

LEMMA NudgeTimerKeeps == ASSUME ResizeIInv, NudgeTimer PROVE ResizeIInv'
<1> USE DEF ResizeIInv
<1>1. /\ UNCHANGED <<budget, room, face, onScreen, rows, fit, frames, settle, nudged, pendingForce>>
      /\ UNCHANGED <<batch, writes, latch, sock, prime, pty, blank, foreign>>
      /\ raced' = (raced \/ nudged # rows)
  BY DEF NudgeTimer, layoutVars, paintVars
<1>2. TimersOK' /\ ~ Nudging' /\ (Fitting' <=> Fitting) /\ Nudging
  BY NudgeFires DEF NudgeTimer
<1>3. nudged \in Nat /\ SendResize(nudged, TRUE)
  BY DEF NudgeTimer, ResizeTypes
<1>4. Sent(nudged, TRUE) /\ net' \in Seq(Nat) /\ lastRows' \in Nat /\ deaf' \in BOOLEAN
  BY <1>3, SendResizeSends
<1>5. /\ deaf' \/ Told' = nudged
      /\ deaf' \/ Meets(net', Nat \ {pty'}) \/ nudged = pty'
      /\ deaf' \/ (Meets(net, Nat \ {pty}) => Meets(net', Nat \ {pty'}))
  BY <1>1, <1>3, <1>4, SentIsTold
<1>6. /\ (Painting' <=> Painting) /\ (Releasing' <=> Releasing)
      /\ Proposed' = Proposed /\ (Connected' <=> Connected)
  BY <1>1, WritesStay
<1>7. RedrawDue' <=> RedrawDue
  BY <1>1, <1>6 DEF RedrawDue
<1>8. \/ Connected /\ lastRows' = nudged /\ deaf' = deaf
      \/ ~ Connected /\ deaf' /\ net' = net
  BY <1>4 DEF Sent
<1>9. raced' \in BOOLEAN /\ (raced => raced') /\ (raced' \/ nudged = rows)
  BY <1>1 DEF ResizeTypes
<1>10. ResizeTypes'
  BY <1>1, <1>4, <1>9 DEF ResizeTypes
<1>11. SocketOK' /\ ForceOK' /\ LatchOK' /\ RowsFit'
  BY <1>1, <1>2, <1>6, <1>8 DEF SocketOK, ForceOK, LatchOK, RowsFit, Connected
<1>12. SentFits'
  BY <1>1, <1>2, <1>6, <1>8, <1>9 DEF SentFits, RowsFit
<1>13. ToldIsLast'
  BY <1>5, <1>8 DEF ToldIsLast, SocketOK
<1>14. BlankIsTold'
  BY <1>1, <1>5, <1>7, <1>8 DEF BlankIsTold, Restless
<1> QED
  BY <1>2, <1>10, <1>11, <1>12, <1>13, <1>14

\* One of what may still happen happens.
Whats == {"room", "hide", "fonts", "drop", "restart", "other", "output", "remount"}

LEMMA Spent ==
  ASSUME budget \in BudgetType, NEW what \in Whats, Allowed(what) PROVE budget' \in BudgetType
<1>1. CASE what = "room"
  BY <1>1 DEF Allowed, BudgetType
<1>2. CASE what = "hide"
  BY <1>2 DEF Allowed, BudgetType
<1>3. CASE what = "fonts"
  BY <1>3 DEF Allowed, BudgetType
<1>4. CASE what = "drop"
  BY <1>4 DEF Allowed, BudgetType
<1>5. CASE what = "restart"
  BY <1>5 DEF Allowed, BudgetType
<1>6. CASE what = "other"
  BY <1>6 DEF Allowed, BudgetType
<1>7. CASE what = "output"
  BY <1>7 DEF Allowed, BudgetType
<1>8. CASE what = "remount"
  BY <1>8 DEF Allowed, BudgetType
<1> QED
  BY <1>1, <1>2, <1>3, <1>4, <1>5, <1>6, <1>7, <1>8 DEF Whats

LEMMA ResizeKeeps == ASSUME ResizeIInv, NEW r \in Rooms, Resize(r) PROVE ResizeIInv'
<1> USE DEF ResizeIInv
<1>0. budget' \in BudgetType
  BY Spent DEF Whats, Resize, ResizeTypes
<1>1. /\ UNCHANGED <<face, onScreen, rows, lastRows, frames, settle, nudged, batch, writes, latch>>
      /\ UNCHANGED <<sock, prime, net, pty, blank, deaf, foreign>>
      /\ room' = r /\ raced' = FALSE /\ ScheduleFit(FALSE, FALSE)
  BY DEF Resize, paintVars, linkVars
<1>2. TimersOK' /\ Scheduled(FALSE) /\ pendingForce' \in BOOLEAN /\ fit' \in [immediate : BOOLEAN]
  BY <1>1, ScheduleSets
<1>3. (Painting' <=> Painting) /\ (Releasing' <=> Releasing) /\ (Connected' <=> Connected)
  BY <1>1, WritesStay
<1>5. ResizeTypes'
  BY ZenonT(40), <1>0, <1>1, <1>2 DEF ResizeTypes
<1>6. RedrawDue' <=> RedrawDue
  BY <1>1, <1>2, <1>3 DEF RedrawDue, Scheduled
<1>7. SocketOK' /\ ForceOK' /\ RowsFit' /\ SentFits' /\ LatchOK'
  BY <1>1, <1>2, <1>3 DEF SocketOK, ForceOK, RowsFit, SentFits, LatchOK, Scheduled
<1>8. ToldIsLast' /\ BlankIsTold'
  BY <1>1, <1>2, <1>6 DEF ToldIsLast, BlankIsTold, Told, Restless, Scheduled
<1> QED
  BY <1>2, <1>5, <1>7, <1>8

LEMMA RemeasureKeeps == ASSUME ResizeIInv, RemeasureFontsAndFit PROVE ResizeIInv'
<1> USE DEF ResizeIInv
<1>0. budget' \in BudgetType
  BY Spent DEF Whats, RemeasureFontsAndFit, ResizeTypes
<1>1. /\ UNCHANGED <<room, onScreen, rows, frames, settle, nudged, batch, writes, latch>>
      /\ UNCHANGED <<sock, prime, net, pty, blank, deaf, foreign>>
      /\ face' = TRUE /\ lastRows' = 0 /\ raced' = FALSE /\ ScheduleFit(TRUE, TRUE)
  BY DEF RemeasureFontsAndFit, paintVars, linkVars
<1>2. TimersOK' /\ Scheduled(TRUE) /\ pendingForce' \in BOOLEAN /\ fit' \in [immediate : BOOLEAN]
  BY <1>1, ScheduleSets
<1>3. (Painting' <=> Painting) /\ (Releasing' <=> Releasing) /\ (Connected' <=> Connected)
  BY <1>1, WritesStay
<1>5. ResizeTypes'
  BY <1>0, <1>1, <1>2 DEF ResizeTypes
<1>6. RedrawDue'
  BY <1>2 DEF RedrawDue, Scheduled
<1>7. SocketOK' /\ ForceOK' /\ RowsFit' /\ SentFits' /\ LatchOK'
  BY <1>1, <1>2, <1>3 DEF SocketOK, ForceOK, RowsFit, SentFits, LatchOK, Scheduled
<1>8. ToldIsLast' /\ BlankIsTold'
  BY <1>6 DEF ToldIsLast, BlankIsTold
<1> QED
  BY <1>2, <1>5, <1>7, <1>8

\* Show, Hide and what touches only the writes.
LEMMA HideKeeps == ASSUME ResizeIInv, Hide PROVE ResizeIInv'
<1> USE DEF ResizeIInv
<1>0. budget' \in BudgetType
  BY Spent DEF Whats, Hide, ResizeTypes
<1>1. /\ UNCHANGED <<room, face, rows, lastRows, timers, fit, frames, settle, nudged, pendingForce>>
      /\ UNCHANGED <<batch, writes, latch, sock, prime, net, pty, blank, deaf, foreign, raced>>
      /\ onScreen' = FALSE
  BY DEF Hide, fitVars, paintVars, linkVars, ghostVars
<1>3. ResizeTypes'
  <2>1. onScreen' \in BOOLEAN
    BY <1>1
  <2> QED
    BY <1>0, <1>1, <2>1 DEF ResizeTypes
<1>4. (Painting' <=> Painting) /\ (Releasing' <=> Releasing) /\ (Connected' <=> Connected)
      /\ Proposed' = Proposed /\ TimersOK' /\ (Fitting' <=> Fitting) /\ (Nudging' <=> Nudging)
  BY <1>1, WritesStay
<1>5. (RedrawDue' <=> RedrawDue) /\ Told' = Told /\ (Restless' <=> Restless)
  BY <1>1, <1>4 DEF RedrawDue, Told, Restless
<1> QED
  BY <1>1, <1>3, <1>4, <1>5
     DEF SocketOK, ForceOK, RowsFit, SentFits, LatchOK, ToldIsLast, BlankIsTold

\* One more write.
LEMMA Appends ==
  ASSUME ResizeTypes, NEW w \in Writes, writes' = Append(writes, w)
  PROVE  /\ writes' \in Seq(Writes)
         /\ Painting' <=> Painting \/ w \in OfSnapshot
         /\ Releasing' <=> Releasing \/ w = "release"
<1> PICK s, E, q : s = writes /\ E = Writes /\ q = Append(s, w)
  OBVIOUS
<1>1. s \in Seq(E) /\ w \in E
  BY DEF ResizeTypes
<1>2. q \in Seq(E) /\ \A S : Meets(q, S) <=> Meets(s, S) \/ w \in S
  BY <1>1, MeetsAppend, Zenon
<1>3. w \in {"release"} <=> w = "release"
  OBVIOUS
<1>4. writes' = q
  OBVIOUS
<1> QED
  BY <1>2, <1>3, <1>4, Zenon DEF Painting, Releasing

LEMMA ShowKeeps == ASSUME ResizeIInv, Show PROVE ResizeIInv'
<1> USE DEF ResizeIInv
<1>1. /\ UNCHANGED <<budget, room, face, rows, timers, fit, frames, settle, nudged, pendingForce>>
      /\ UNCHANGED <<batch, latch, sock, prime, net, pty, blank, deaf, raced>>
      /\ onScreen' = TRUE /\ lastRows' = 0 /\ foreign' = FALSE /\ writes' = Append(writes, "release")
  BY DEF Show, linkVars
<1>2. writes' \in Seq(Writes) /\ (Painting' <=> Painting) /\ Releasing'
  BY <1>1, Appends DEF Writes, OfSnapshot
<1>3. ResizeTypes'
  <2>1. onScreen' \in BOOLEAN /\ foreign' \in BOOLEAN /\ lastRows' \in Nat
    BY <1>1
  <2> QED
    BY <1>1, <1>2, <2>1 DEF ResizeTypes
<1>4. (Connected' <=> Connected) /\ Proposed' = Proposed
      /\ TimersOK' /\ (Fitting' <=> Fitting) /\ (Nudging' <=> Nudging)
  BY <1>1, WritesStay
<1>5. (RedrawDue' <=> RedrawDue) /\ (Restless' <=> Restless)
  BY <1>1, <1>2, <1>4 DEF RedrawDue, Restless
<1> QED
  BY <1>1, <1>2, <1>3, <1>4, <1>5
     DEF SocketOK, ForceOK, RowsFit, SentFits, LatchOK, ToldIsLast, BlankIsTold

LEMMA ArriveKeeps == ASSUME ResizeIInv, NEW s \in {"normal", "alt"}, Arrive(s) PROVE ResizeIInv'
<1> USE DEF ResizeIInv
<1>1. /\ UNCHANGED <<budget, room, face, onScreen, rows, lastRows, timers, fit, frames, settle, nudged>>
      /\ UNCHANGED <<pendingForce, writes, latch, net, pty, blank, deaf, foreign, raced>>
      /\ sock = "attached" /\ sock' = "open" /\ prime' = FALSE /\ batch' = s
  BY DEF Arrive, layoutVars, fitVars, ghostVars
<1>2. ResizeTypes'
  <2>1. prime' \in BOOLEAN /\ sock' \in {"closed", "attached", "open"}
        /\ batch' \in {"none", "normal", "alt"}
    BY <1>1
  <2> QED
    BY <1>1, <2>1 DEF ResizeTypes
<1>3. (Painting' <=> Painting) /\ (Releasing' <=> Releasing)
      /\ Proposed' = Proposed /\ TimersOK' /\ (Fitting' <=> Fitting) /\ (Nudging' <=> Nudging)
  BY <1>1, WritesStay
<1>4. RedrawDue' /\ Connected
  BY <1>1 DEF RedrawDue, Connected
<1> QED
  BY <1>1, <1>2, <1>3, <1>4
     DEF SocketOK, ForceOK, RowsFit, SentFits, LatchOK, ToldIsLast, BlankIsTold

LEMMA OutputKeeps == ASSUME ResizeIInv, NEW b \in BOOLEAN, Output(b) PROVE ResizeIInv'
<1> USE DEF ResizeIInv
<1>0. budget' \in BudgetType
  BY Spent DEF Whats, Output, ResizeTypes
<1>1. /\ UNCHANGED <<room, face, onScreen, rows, lastRows, timers, fit, frames, settle, nudged>>
      /\ UNCHANGED <<pendingForce, batch, latch, sock, prime, net, pty, blank, deaf, foreign, raced>>
  BY DEF Output, layoutVars, fitVars, ghostVars, linkVars
<1>2. PICK w \in {"begin", "end"} : writes' = Append(writes, w)
  BY DEF Output
<1>3. writes' \in Seq(Writes) /\ (Painting' <=> Painting) /\ (Releasing' <=> Releasing)
  BY <1>2, Appends DEF Writes, OfSnapshot
<1>5. ResizeTypes'
  BY <1>0, <1>1, <1>3 DEF ResizeTypes
<1>6. (Connected' <=> Connected)
      /\ Proposed' = Proposed /\ TimersOK' /\ (Fitting' <=> Fitting) /\ (Nudging' <=> Nudging)
  BY <1>1, WritesStay
<1>7. (RedrawDue' <=> RedrawDue) /\ Told' = Told /\ (Restless' <=> Restless)
  BY <1>1, <1>3, <1>6 DEF RedrawDue, Told, Restless
<1> QED
  BY <1>1, <1>3, <1>5, <1>6, <1>7
     DEF SocketOK, ForceOK, RowsFit, SentFits, LatchOK, ToldIsLast, BlankIsTold

LEMMA FlushKeeps == ASSUME ResizeIInv, Flush PROVE ResizeIInv'
<1> USE DEF ResizeIInv
<1>1. /\ UNCHANGED <<budget, room, face, onScreen, rows, lastRows, timers, fit, frames, settle, nudged>>
      /\ UNCHANGED <<pendingForce, latch, sock, prime, net, pty, blank, deaf, foreign, raced>>
      /\ batch' = "none" /\ batch # "none" /\ writes' = Append(writes, batch)
  BY DEF Flush, layoutVars, fitVars, ghostVars, linkVars
<1>2. batch \in {"normal", "alt"}
  BY <1>1 DEF ResizeTypes
<1>3. writes' \in Seq(Writes) /\ Painting' /\ (Releasing' <=> Releasing)
  BY <1>1, <1>2, Appends DEF Writes, OfSnapshot
<1>4. ResizeTypes'
  BY <1>1, <1>3 DEF ResizeTypes
<1>5. (Connected' <=> Connected)
      /\ Proposed' = Proposed /\ TimersOK' /\ (Fitting' <=> Fitting) /\ (Nudging' <=> Nudging)
  BY <1>1, WritesStay
<1>6. RedrawDue'
  BY <1>3 DEF RedrawDue
<1> QED
  BY <1>1, <1>3, <1>4, <1>5, <1>6
     DEF SocketOK, ForceOK, RowsFit, SentFits, LatchOK, ToldIsLast, BlankIsTold

\* xterm takes a write from the queue and adds the one its callback asks for.
LEMMA Takes ==
  ASSUME ResizeTypes, writes # <<>>, NEW w, w = Head(writes)
  PROVE  /\ w \in Writes /\ Tail(writes) \in Seq(Writes)
         /\ Painting <=> w \in OfSnapshot \/ Meets(Tail(writes), OfSnapshot)
         /\ Releasing <=> w = "release" \/ Meets(Tail(writes), {"release"})
<1> PICK s, E : s = writes /\ E = Writes
  OBVIOUS
<1>1. s \in Seq(E) /\ s # <<>> /\ w = Head(s)
  BY DEF ResizeTypes
<1>2. w \in E /\ Tail(s) \in Seq(E) /\ \A S : Meets(s, S) <=> w \in S \/ Meets(Tail(s), S)
  BY <1>1, MeetsTail, Zenon
<1>3. w \in {"release"} <=> w = "release"
  OBVIOUS
<1> QED
  BY <1>2, <1>3, Zenon DEF Painting, Releasing

LEMMA TakesAppends ==
  ASSUME ResizeTypes, writes # <<>>, NEW e \in Writes, writes' = Append(Tail(writes), e)
  PROVE  /\ writes' \in Seq(Writes)
         /\ Painting' <=> e \in OfSnapshot \/ Meets(Tail(writes), OfSnapshot)
         /\ Releasing' <=> e = "release" \/ Meets(Tail(writes), {"release"})
<1> PICK s, E, q, w : s = Tail(writes) /\ E = Writes /\ q = Append(s, e) /\ w = Head(writes)
  OBVIOUS
<1>1. s \in Seq(E) /\ e \in E
  BY Takes
<1>2. q \in Seq(E) /\ \A S : Meets(q, S) <=> Meets(s, S) \/ e \in S
  BY <1>1, MeetsAppend, Zenon
<1>3. e \in {"release"} <=> e = "release"
  OBVIOUS
<1>4. writes' = q
  OBVIOUS
<1> QED
  BY <1>2, <1>3, <1>4, Zenon DEF Painting, Releasing

\* What a write leaves behind that is due.
LEMMA WriteLeaves ==
  ASSUME ResizeTypes, TimersOK, Written, NEW w, w = Head(writes)
  PROVE  /\ w \in Writes /\ writes' \in Seq(Writes)
         /\ w \in {"alt", "normal", "wipe"} => Painting' /\ Painting /\ (Releasing' <=> Releasing)
         /\ w \in {"begin", "end"} => (Painting' <=> Painting) /\ (Releasing' <=> Releasing)
         /\ w = "close" => Painting /\ (Releasing' <=> Releasing)
         /\ w = "release" => Releasing /\ (Painting' <=> Painting)
<1>0. writes # <<>>
  BY DEF Written
<1>1. /\ w \in Writes /\ Tail(writes) \in Seq(Writes)
      /\ Painting <=> w \in OfSnapshot \/ Meets(Tail(writes), OfSnapshot)
      /\ Releasing <=> w = "release" \/ Meets(Tail(writes), {"release"})
  BY <1>0, Takes
<1>2. CASE w = "alt"
  <2>1. writes' = Append(Tail(writes), "wipe") /\ "wipe" \in Writes
    BY <1>2 DEF Written, Writes
  <2>2. writes' \in Seq(Writes) /\ Painting' /\ (Releasing' <=> Meets(Tail(writes), {"release"}))
    BY <1>0, <2>1, TakesAppends DEF OfSnapshot
  <2> QED
    BY <1>1, <1>2, <2>2 DEF OfSnapshot
<1>3. CASE w \in {"normal", "wipe"}
  <2>1. writes' = Append(Tail(writes), "close") /\ "close" \in Writes
    BY <1>3 DEF Written, Writes
  <2>2. writes' \in Seq(Writes) /\ Painting' /\ (Releasing' <=> Meets(Tail(writes), {"release"}))
    BY <1>0, <2>1, TakesAppends DEF OfSnapshot
  <2> QED
    BY <1>1, <1>3, <2>2 DEF OfSnapshot
<1>4. CASE w \in {"close", "release", "begin", "end"}
  <2>1. writes' = Tail(writes)
    BY <1>4 DEF Written
  <2>2. /\ Painting' <=> Meets(Tail(writes), OfSnapshot)
        /\ Releasing' <=> Meets(Tail(writes), {"release"})
    BY <2>1 DEF Painting, Releasing
  <2>3. CASE w = "close"
    BY <1>1, <2>1, <2>2, <2>3 DEF OfSnapshot
  <2>4. CASE w = "release"
    BY <1>1, <2>1, <2>2, <2>4 DEF OfSnapshot
  <2>5. CASE w \in {"begin", "end"}
    BY <1>1, <2>1, <2>2, <2>5 DEF OfSnapshot
  <2> QED
    BY <1>4, <2>3, <2>4, <2>5
<1> QED
  BY <1>1, <1>2, <1>3, <1>4 DEF Writes

LEMMA WrittenKeeps == ASSUME ResizeIInv, Written PROVE ResizeIInv'
<1> USE DEF ResizeIInv
<1>1. /\ UNCHANGED <<budget, room, face, onScreen, rows, lastRows, frames, settle, nudged, batch>>
      /\ UNCHANGED <<sock, prime, net, pty, foreign, raced>>
  BY DEF Written, layoutVars, linkVars
<1> PICK w : w = Head(writes)
  OBVIOUS
<1>2. /\ w \in Writes /\ writes' \in Seq(Writes)
      /\ w \in {"alt", "normal", "wipe"} => Painting' /\ Painting /\ (Releasing' <=> Releasing)
      /\ w \in {"begin", "end"} => (Painting' <=> Painting) /\ (Releasing' <=> Releasing)
      /\ w = "close" => Painting /\ (Releasing' <=> Releasing)
      /\ w = "release" => Releasing /\ (Painting' <=> Painting)
  BY WriteLeaves
<1>3. /\ w = "close" => ScheduleFit(TRUE, TRUE)
      /\ w = "release" => ScheduleFit(TRUE, FALSE)
      /\ w \notin {"close", "release"} => UNCHANGED <<timers, fit, pendingForce>>
  BY DEF Written
<1>4. /\ blank' = (blank \/ w \in {"alt", "normal", "wipe"})
      /\ deaf' = (deaf /\ w \notin {"alt", "normal"})
      /\ latch' \in CASE w \in {"alt", "normal"} -> {"nobody", "snapshot"}
                      [] w = "begin" -> {"output"}
                      [] w \in {"end", "close", "release"} -> {"nobody"}
                      [] OTHER -> {latch}
  BY DEF Written
<1>5. blank' \in BOOLEAN /\ deaf' \in BOOLEAN /\ latch' \in {"nobody", "snapshot", "output"}
  <2>1. blank' \in BOOLEAN /\ deaf' \in BOOLEAN
    BY <1>4 DEF ResizeTypes
  <2>2. latch' \in {"nobody", "snapshot", "output"}
    <3>1. latch \in {"nobody", "snapshot", "output"}
      BY DEF ResizeTypes
    <3> QED
      BY <1>2, <1>4, <3>1 DEF Writes
  <2> QED
    BY <2>1, <2>2
<1>6. Proposed' = Proposed /\ (Connected' <=> Connected)
  BY <1>1, WritesStay
<1>7. CASE w = "close"
  <2>1. TimersOK' /\ Scheduled(TRUE) /\ pendingForce' \in BOOLEAN /\ fit' \in [immediate : BOOLEAN]
    BY <1>3, <1>7, ScheduleSets
  <2>2. ResizeTypes'
    BY <1>1, <1>2, <1>5, <2>1 DEF ResizeTypes
  <2>3. RedrawDue'
    BY <2>1 DEF RedrawDue, Scheduled
  <2>4. latch' = "nobody"
    BY <1>4, <1>7
  <2>5. SocketOK' /\ ForceOK' /\ RowsFit' /\ SentFits' /\ LatchOK'
    BY <1>1, <1>6, <2>1, <2>4 DEF SocketOK, ForceOK, RowsFit, SentFits, LatchOK, Scheduled
  <2>6. ToldIsLast' /\ BlankIsTold'
    BY <2>3 DEF ToldIsLast, BlankIsTold
  <2> QED
    BY <2>1, <2>2, <2>5, <2>6
<1>8. CASE w = "release"
  <2>1. TimersOK' /\ Scheduled(FALSE) /\ pendingForce' \in BOOLEAN /\ fit' \in [immediate : BOOLEAN]
    BY <1>3, <1>8, ScheduleSets
  <2>2. ResizeTypes'
    BY <1>1, <1>2, <1>5, <2>1 DEF ResizeTypes
  <2>3. RedrawDue' <=> RedrawDue
    BY <1>1, <1>2, <1>8, <2>1 DEF RedrawDue, Scheduled
  <2>4. latch' = "nobody" /\ (blank' <=> blank) /\ (deaf' <=> deaf)
    BY <1>4, <1>8
  <2>5. SocketOK' /\ ForceOK' /\ RowsFit' /\ SentFits' /\ LatchOK'
    BY <1>1, <1>6, <2>1, <2>4 DEF SocketOK, ForceOK, RowsFit, SentFits, LatchOK, Scheduled
  <2>6. Told' = Told /\ (Restless' <=> Restless)
    BY <1>1, <2>1 DEF Told, Restless, Scheduled
  <2>7. Nudging' <=> Nudging
    BY <2>1 DEF Scheduled
  <2>8. ToldIsLast' /\ BlankIsTold'
    BY <1>1, <2>3, <2>4, <2>6, <2>7 DEF ToldIsLast, BlankIsTold
  <2> QED
    BY <2>1, <2>2, <2>5, <2>8
<1>9. CASE w \in {"alt", "normal", "wipe"}
  <2>1. UNCHANGED <<timers, fit, pendingForce>> /\ Painting' /\ Painting /\ (Releasing' <=> Releasing)
    BY <1>2, <1>3, <1>9
  <2>2. TimersOK' /\ (Fitting' <=> Fitting) /\ (Nudging' <=> Nudging)
    BY <2>1, WritesStay
  <2>3. ResizeTypes'
    BY <1>1, <1>2, <1>5, <2>1 DEF ResizeTypes
  <2>4. RedrawDue'
    BY <2>1 DEF RedrawDue
  <2>5. SocketOK' /\ ForceOK' /\ RowsFit' /\ SentFits' /\ LatchOK'
    BY <1>1, <1>6, <2>1, <2>2 DEF SocketOK, ForceOK, RowsFit, SentFits, LatchOK
  <2>6. ToldIsLast' /\ BlankIsTold'
    BY <2>4 DEF ToldIsLast, BlankIsTold
  <2> QED
    BY <2>2, <2>3, <2>5, <2>6
<1>10. CASE w \in {"begin", "end"}
  <2>1. /\ UNCHANGED <<timers, fit, pendingForce>>
        /\ (Painting' <=> Painting) /\ (Releasing' <=> Releasing)
    BY <1>2, <1>3, <1>10
  <2>2. TimersOK' /\ (Fitting' <=> Fitting) /\ (Nudging' <=> Nudging)
    BY <2>1, WritesStay
  <2>3. ResizeTypes'
    BY <1>1, <1>2, <1>5, <2>1 DEF ResizeTypes
  <2>4. latch' # "snapshot" /\ (blank' <=> blank) /\ (deaf' <=> deaf)
    BY <1>4, <1>10
  <2>5. SocketOK' /\ ForceOK' /\ RowsFit' /\ SentFits' /\ LatchOK'
    BY <1>1, <1>6, <2>1, <2>2, <2>4 DEF SocketOK, ForceOK, RowsFit, SentFits, LatchOK
  <2>6. (RedrawDue' <=> RedrawDue) /\ Told' = Told /\ (Restless' <=> Restless)
    BY <1>1, <2>1, <2>2 DEF RedrawDue, Told, Restless
  <2>7. ToldIsLast' /\ BlankIsTold'
    BY <1>1, <2>2, <2>4, <2>6 DEF ToldIsLast, BlankIsTold
  <2> QED
    BY <2>2, <2>3, <2>5, <2>7
<1> QED
  BY <1>2, <1>7, <1>8, <1>9, <1>10 DEF Writes

LEMMA OpenKeeps == ASSUME ResizeIInv, Open PROVE ResizeIInv'
<1> USE DEF ResizeIInv
<1>1. /\ UNCHANGED <<budget, room, face, onScreen, rows, lastRows, frames, settle, nudged, batch>>
      /\ UNCHANGED <<writes, latch, prime, net, pty, blank, deaf, foreign, raced>>
      /\ sock = "closed" /\ ScheduleFit(TRUE, FALSE)
      /\ sock' \in (IF prime THEN {"attached"} ELSE {"open", "attached"})
  BY DEF Open, layoutVars, paintVars, ghostVars
<1>2. TimersOK' /\ Scheduled(FALSE) /\ pendingForce' \in BOOLEAN /\ fit' \in [immediate : BOOLEAN]
  BY <1>1, ScheduleSets
<1>3. (Painting' <=> Painting) /\ (Releasing' <=> Releasing) /\ Proposed' = Proposed
  BY <1>1, WritesStay
<1>4. sock' \in {"closed", "attached", "open"} /\ sock' # "closed" /\ (sock' = "open" => ~ prime')
  BY <1>1
<1>5. ResizeTypes'
  BY <1>1, <1>2, <1>4 DEF ResizeTypes
<1>6. RedrawDue' <=> RedrawDue
  BY <1>1, <1>2, <1>3 DEF RedrawDue, Scheduled
<1>7. SocketOK' /\ ForceOK' /\ RowsFit' /\ SentFits' /\ LatchOK'
  BY <1>1, <1>2, <1>3, <1>4 DEF SocketOK, ForceOK, RowsFit, SentFits, LatchOK, Scheduled
<1>8. ToldIsLast' /\ BlankIsTold'
  BY <1>1, <1>2, <1>6 DEF ToldIsLast, BlankIsTold, Told, Restless, Scheduled
<1> QED
  BY <1>2, <1>5, <1>7, <1>8

LEMMA CutKeeps == ASSUME ResizeIInv, NEW b \in BOOLEAN, Cut(b) PROVE ResizeIInv'
<1> USE DEF ResizeIInv
<1>0. budget' \in BudgetType
  <2> PICK what \in Whats : what = IF b THEN "restart" ELSE "drop"
    BY DEF Whats
  <2> QED
    BY Spent DEF Cut, ResizeTypes
<1>1. /\ UNCHANGED <<room, face, onScreen, rows, lastRows, timers, fit, frames, settle, nudged>>
      /\ UNCHANGED <<pendingForce, batch, writes, latch, blank, foreign, raced>>
      /\ sock' = "closed" /\ net' = <<>> /\ deaf' = (deaf \/ net # <<>>)
      /\ prime' = (prime \/ b) /\ pty' = (IF b THEN SpawnRows ELSE pty)
  BY DEF Cut, layoutVars, fitVars, paintVars
<1>2. ResizeTypes'
  <2>1. prime' \in BOOLEAN /\ deaf' \in BOOLEAN
    BY <1>1 DEF ResizeTypes
  <2>2. net' \in Seq(Nat) /\ pty' \in Nat
    BY <1>1, RoomsAssumption, EmptySeq DEF ResizeTypes
  <2> QED
    BY <1>0, <1>1, <2>1, <2>2 DEF ResizeTypes
<1>3. (Painting' <=> Painting) /\ (Releasing' <=> Releasing)
      /\ Proposed' = Proposed /\ TimersOK' /\ (Fitting' <=> Fitting) /\ (Nudging' <=> Nudging)
  BY <1>1, WritesStay
<1>4. ~ Connected'
  BY <1>1 DEF Connected
<1>5. SocketOK' /\ ForceOK' /\ RowsFit' /\ SentFits' /\ LatchOK'
  BY <1>1, <1>3, <1>4 DEF SocketOK, ForceOK, RowsFit, SentFits, LatchOK
<1>6. CASE deaf' \/ prime'
  <2>1. ToldIsLast' /\ BlankIsTold'
    BY <1>6 DEF ToldIsLast, BlankIsTold, RedrawDue
  <2> QED
    BY <1>2, <1>3, <1>5, <2>1
<1>7. CASE ~ deaf' /\ ~ prime'
  <2>1. /\ UNCHANGED <<deaf, prime, net, pty>>
    BY <1>1, <1>7 DEF ResizeTypes
  <2>2. RedrawDue' <=> RedrawDue
    BY <1>1, <1>3, <2>1 DEF RedrawDue
  <2>3. Told' = Told
    BY <2>1 DEF Told
  <2>4. Restless' <=> Restless
    BY <1>1, <1>3, <2>1 DEF Restless
  <2>5. ToldIsLast' /\ BlankIsTold'
    BY <1>1, <1>3, <2>1, <2>2, <2>3, <2>4 DEF ToldIsLast, BlankIsTold
  <2> QED
    BY <1>2, <1>3, <1>5, <2>5
<1> QED
  BY <1>6, <1>7

\* A resize arrives: what it does not do to the size is still on its way.
LEMMA ResizeArrives ==
  ASSUME ResizeTypes, net # <<>>, NEW r, r = Head(net), net' = Tail(net), pty' = r
  PROVE  /\ r \in Nat /\ net' \in Seq(Nat) /\ Told' = Told
         /\ pty = r /\ Meets(net, Nat \ {pty}) => Meets(net', Nat \ {pty'})
<1>0. net \in Seq(Nat)
  BY DEF ResizeTypes
<1> PICK s \in Seq(Nat) : s = net
  BY <1>0
<1> PICK q : q = Tail(s)
  OBVIOUS
<1>1. r \in Nat /\ q \in Seq(Nat)
  BY MeetsTail
<1>2. \A S : Meets(s, S) <=> r \in S \/ Meets(q, S)
  BY MeetsTail, Zenon
<1>3. pty = r /\ Meets(net, Nat \ {pty}) => Meets(net', Nat \ {pty'})
  BY <1>2
<1>4. (IF q = <<>> THEN r ELSE Last(q)) = Last(s)
  <2> PICK n \in Nat : n = Len(s) /\ n # 0
    BY LenProperties, EmptySeq
  <2>1. Len(q) = n - 1 /\ (\A i \in 1 .. (n - 1) : q[i] = s[i + 1]) /\ r = s[1]
    BY HeadTailProperties
  <2>2. q = <<>> <=> n = 1
    <3>1. Len(<<>>) = 0 /\ (q # <<>> => Len(q) # 0)
      BY <1>1, EmptySeq
    <3> PICK k : k = Len(q)
      OBVIOUS
    <3>2. k = n - 1
      BY <2>1
    <3>3. q = <<>> <=> k = 0
      BY <3>1
    <3>4. k = 0 <=> n = 1
      BY <3>2
    <3> QED
      BY <3>3, <3>4
  <2>3. n # 1 => q[n - 1] = s[n]
    BY <2>1
  <2>4. Last(s) = s[n] /\ Last(q) = q[n - 1]
    BY <2>1 DEF Last
  <2> QED
    BY <2>1, <2>2, <2>3, <2>4
<1>5. Told' = (IF q = <<>> THEN r ELSE Last(q)) /\ Told = Last(s)
  BY DEF Told
<1> QED
  BY <1>1, <1>3, <1>4, <1>5

LEMMA DeliverKeeps == ASSUME ResizeIInv, Deliver PROVE ResizeIInv'
<1> USE DEF ResizeIInv
<1>1. /\ UNCHANGED <<budget, room, face, onScreen, rows, lastRows, timers, fit, frames, settle, nudged>>
      /\ UNCHANGED <<pendingForce, batch, writes, latch, sock, prime, deaf, raced>>
      /\ net # <<>> /\ net' = Tail(net) /\ pty' = Head(net) /\ foreign' = FALSE
      /\ blank' = (blank /\ pty = pty')
  BY DEF Deliver, layoutVars, fitVars, paintVars
<1>2. /\ pty' \in Nat /\ net' \in Seq(Nat) /\ Told' = Told
      /\ pty = pty' /\ Meets(net, Nat \ {pty}) => Meets(net', Nat \ {pty'})
  <2> PICK r : r = Head(net)
    OBVIOUS
  <2>1. net # <<>> /\ net' = Tail(net) /\ pty' = r
    BY <1>1
  <2>2. /\ r \in Nat /\ net' \in Seq(Nat) /\ Told' = Told
        /\ pty = r /\ Meets(net, Nat \ {pty}) => Meets(net', Nat \ {pty'})
    BY <2>1, ResizeArrives
  <2> QED
    BY <2>1, <2>2
<1>3. ResizeTypes'
  <2>1. blank' \in BOOLEAN /\ foreign' \in BOOLEAN
    BY <1>1 DEF ResizeTypes
  <2> QED
    BY <1>1, <1>2, <2>1 DEF ResizeTypes
<1>4. (Painting' <=> Painting) /\ (Releasing' <=> Releasing) /\ (Connected' <=> Connected)
      /\ Proposed' = Proposed /\ TimersOK' /\ (Fitting' <=> Fitting) /\ (Nudging' <=> Nudging)
  BY <1>1, WritesStay
<1>5. RedrawDue' <=> RedrawDue
  BY <1>1, <1>4 DEF RedrawDue
<1>6. sock # "closed"
  BY <1>1 DEF SocketOK
<1>7. SocketOK' /\ ForceOK' /\ RowsFit' /\ SentFits' /\ LatchOK'
  BY <1>1, <1>4, <1>6 DEF SocketOK, ForceOK, RowsFit, SentFits, LatchOK
<1>8. ToldIsLast' /\ BlankIsTold'
  BY <1>1, <1>2, <1>4, <1>5 DEF ToldIsLast, BlankIsTold, Restless
<1> QED
  BY <1>3, <1>4, <1>7, <1>8

LEMMA OtherResizesKeeps == ASSUME ResizeIInv, NEW r \in Rooms, OtherResizes(r) PROVE ResizeIInv'
<1> USE DEF ResizeIInv
<1>0. budget' \in BudgetType
  BY Spent DEF Whats, OtherResizes, ResizeTypes
<1>1. /\ UNCHANGED <<room, face, onScreen, rows, lastRows, timers, fit, frames, settle, nudged>>
      /\ UNCHANGED <<pendingForce, batch, writes, latch, sock, prime, net, deaf, raced>>
      /\ pty' = r /\ foreign' = TRUE /\ blank' = FALSE
  BY DEF OtherResizes, layoutVars, fitVars, paintVars
<1>2. ResizeTypes'
  <2>1. pty' \in Nat /\ foreign' \in BOOLEAN /\ blank' \in BOOLEAN
    BY <1>1, RoomsAssumption
  <2> QED
    BY <1>0, <1>1, <2>1 DEF ResizeTypes
<1>3. (Painting' <=> Painting) /\ (Releasing' <=> Releasing) /\ (Connected' <=> Connected)
      /\ Proposed' = Proposed /\ TimersOK' /\ (Fitting' <=> Fitting) /\ (Nudging' <=> Nudging)
  BY <1>1, WritesStay
<1>4. (RedrawDue' <=> RedrawDue) /\ (net # <<>> => Told' = Told)
  BY <1>1, <1>3 DEF RedrawDue, Told
<1>5. SocketOK' /\ ForceOK' /\ RowsFit' /\ SentFits' /\ LatchOK'
  BY <1>1, <1>3 DEF SocketOK, ForceOK, RowsFit, SentFits, LatchOK
<1>6. ToldIsLast' /\ BlankIsTold'
  BY <1>1, <1>3, <1>4 DEF ToldIsLast, BlankIsTold
<1> QED
  BY <1>2, <1>3, <1>5, <1>6

\* Before the first fit, and lists of which nothing is left.
LEMMA NoFit == [immediate |-> FALSE] \in [immediate : BOOLEAN]
  OBVIOUS

LEMMA NoneMeet == \A S : ~ Meets(<<>>, S)
<1> Len(<<>>) = 0
  OBVIOUS
<1> QED
  BY DEF Meets

LEMMA NoTimers == timers = <<>> => TimersOK /\ ~ Fitting /\ ~ Nudging
<1> SUFFICES ASSUME timers = <<>> PROVE TimersOK /\ ~ Fitting /\ ~ Nudging
  OBVIOUS
<1>1. timers \in Seq(Timers) /\ Len(timers) = 0
  BY EmptySeq
<1>2. TimersOK
  BY <1>1 DEF TimersOK
<1>3. ~ Fitting /\ ~ Nudging
  BY NoneMeet DEF Fitting, Nudging
<1> QED
  BY <1>2, <1>3

LEMMA NoWrites == writes = <<>> => writes \in Seq(Writes) /\ ~ Painting /\ ~ Releasing
<1> SUFFICES ASSUME writes = <<>> PROVE writes \in Seq(Writes) /\ ~ Painting /\ ~ Releasing
  OBVIOUS
<1>1. writes \in Seq(Writes)
  BY EmptySeq
<1>2. ~ Painting /\ ~ Releasing
  BY NoneMeet DEF Painting, Releasing
<1> QED
  BY <1>1, <1>2

LEMMA RemountKeeps == ASSUME ResizeIInv, Remount PROVE ResizeIInv'
<1> USE DEF ResizeIInv
<1>0. budget' \in BudgetType
  BY Spent DEF Whats, Remount, ResizeTypes
<1>1. /\ UNCHANGED <<room, face, onScreen, prime, pty, foreign>>
      /\ rows' = 0 /\ lastRows' = 0 /\ timers' = <<>> /\ frames' = 0 /\ settle' = FALSE
      /\ nudged' = 0 /\ pendingForce' = FALSE /\ fit' = [immediate |-> FALSE]
      /\ batch' = "none" /\ writes' = <<>> /\ latch' = "nobody"
      /\ sock' = "closed" /\ net' = <<>>
      /\ blank' = FALSE /\ deaf' = FALSE /\ raced' = FALSE
  BY DEF Remount, layoutVars
<1>2. TimersOK' /\ ~ Fitting' /\ ~ Nudging' /\ writes' \in Seq(Writes) /\ net' \in Seq(Nat)
  <2>1. TimersOK' /\ ~ Fitting' /\ ~ Nudging'
    <3> Len(<<>>) = 0 /\ <<>> \in Seq(Timers)
      BY EmptySeq
    <3>1. TimersOK'
      BY <1>1 DEF TimersOK
    <3>2. ~ Fitting' /\ ~ Nudging'
      BY <1>1, NoneMeet DEF Fitting, Nudging
    <3> QED
      BY <3>1, <3>2
  <2> QED
    BY <1>1, <2>1, EmptySeq
<1>3. ResizeTypes'
  <2>1. rows' \in Nat /\ lastRows' \in Nat /\ nudged' \in Nat /\ frames' \in 0 .. 2
    <3>1. rows' = 0 /\ lastRows' = 0 /\ nudged' = 0 /\ frames' = 0
      BY <1>1, Zenon
    <3> QED
      BY <3>1
  <2>5. settle' \in BOOLEAN /\ pendingForce' \in BOOLEAN
    BY <1>1, Zenon
  <2>4. fit' \in [immediate : BOOLEAN]
    BY <1>1, NoFit
  <2>2. blank' \in BOOLEAN /\ deaf' \in BOOLEAN /\ raced' \in BOOLEAN
    BY <1>1
  <2>3. /\ batch' \in {"none", "normal", "alt"} /\ latch' \in {"nobody", "snapshot", "output"}
        /\ sock' \in {"closed", "attached", "open"}
    BY <1>1
  <2> QED
    BY <1>0, <1>1, <1>2, <2>1, <2>2, <2>3, <2>4, <2>5 DEF ResizeTypes
<1>4. ~ Connected'
  BY <1>1 DEF Connected
<1> QED
  BY <1>1, <1>2, <1>3, <1>4
     DEF SocketOK, ForceOK, RowsFit, SentFits, LatchOK, ToldIsLast, BlankIsTold

LEMMA ResizeInitially == ResizeInit => ResizeIInv
<1> SUFFICES ASSUME ResizeInit PROVE ResizeIInv
  OBVIOUS
<1>1. /\ budget \in Budgets /\ room \in Rooms /\ face = FALSE /\ onScreen = TRUE
      /\ rows = 0 /\ lastRows = 0 /\ timers = <<>> /\ fit = [immediate |-> FALSE]
      /\ frames = 0 /\ settle = FALSE /\ nudged = 0 /\ pendingForce = FALSE
      /\ batch = "none" /\ writes = <<>> /\ latch = "nobody"
      /\ sock = "closed" /\ prime = TRUE /\ net = <<>> /\ pty = SpawnRows
      /\ blank = FALSE /\ deaf = FALSE /\ foreign = FALSE /\ raced = FALSE
  BY DEF ResizeInit
<1>2. TimersOK /\ ~ Fitting /\ ~ Nudging /\ writes \in Seq(Writes) /\ net \in Seq(Nat)
  BY <1>1, NoTimers, NoWrites, EmptySeq
<1>3. ResizeTypes
  <2>1. budget \in BudgetType /\ pty \in Nat
    BY <1>1, BudgetsAssumption, RoomsAssumption
  <2>2. rows \in Nat /\ lastRows \in Nat /\ nudged \in Nat /\ frames \in 0 .. 2
    <3>1. rows = 0 /\ lastRows = 0 /\ nudged = 0 /\ frames = 0
      BY <1>1, Zenon
    <3> QED
      BY <3>1
  <2>6. settle \in BOOLEAN /\ pendingForce \in BOOLEAN
    BY <1>1, Zenon
  <2>5. fit \in [immediate : BOOLEAN]
    BY <1>1, NoFit
  <2>3. /\ blank \in BOOLEAN /\ deaf \in BOOLEAN /\ raced \in BOOLEAN /\ foreign \in BOOLEAN
        /\ face \in BOOLEAN /\ onScreen \in BOOLEAN /\ prime \in BOOLEAN
    BY <1>1
  <2>4. /\ batch \in {"none", "normal", "alt"} /\ latch \in {"nobody", "snapshot", "output"}
        /\ sock \in {"closed", "attached", "open"}
    BY <1>1
  <2> QED
    BY <1>1, <1>2, <2>1, <2>2, <2>3, <2>4, <2>5, <2>6 DEF ResizeTypes
<1>4. ~ Connected
  BY <1>1 DEF Connected
<1> QED
  BY <1>1, <1>2, <1>3, <1>4
     DEF ResizeIInv, SocketOK, ForceOK, RowsFit, SentFits, LatchOK, ToldIsLast, BlankIsTold

LEMMA ResizeImplied == ResizeIInv => ResizeInv
<1> SUFFICES ASSUME ResizeIInv PROVE ResizeInv
  OBVIOUS
<1> USE DEF ResizeIInv
<1>1. ResizeTypeOK
  <2>1. Range(timers) \subseteq {"fit", "nudge"}
    BY DEF TimersOK, Timers, Range
  <2>2. IsInjective(timers)
    BY DEF TimersOK, IsInjective
  <2>3. Range(writes) \subseteq {"normal", "alt", "wipe", "close", "release", "begin", "end"}
    BY DEF ResizeTypes, Writes, Range
  <2> QED
    BY <2>1, <2>2, <2>3 DEF ResizeTypeOK, ResizeTypes
<1>2. timers = <<>> => ~ Fitting /\ ~ Nudging
  BY NoTimers
<1>3. writes = <<>> => ~ Painting /\ ~ Releasing
  BY NoWrites
<1>4. net = <<>> => ~ Meets(net, Nat \ {pty})
  BY NoneMeet
<1>5. Proposed \in Nat /\ (Proposed = 0 <=> room = 0)
  BY RoomsAssumption DEF Proposed, ResizeTypes
<1>6. Settled => ~ Fitting /\ ~ Nudging /\ ~ Painting /\ ~ Releasing /\ Connected /\ Proposed # 0
  BY <1>2, <1>3, <1>5 DEF Settled, Connected
<1>7. Settled => net = <<>> /\ ~ Restless /\ (RedrawDue <=> pendingForce) /\ Told = pty
  BY <1>2, <1>3, <1>4 DEF Settled, Restless, RedrawDue, Told, SocketOK
<1>8. SettledFits
  BY <1>5, <1>6, <1>7 DEF SettledFits, RowsFit, SentFits, ToldIsLast
<1>9. ForceIsComing
  BY DEF ForceIsComing, ForceOK, Contains, Fitting, Meets
<1>10. SnapshotUnlatches
  <2> SUFFICES ASSUME latch = "snapshot" PROVE Range(writes) \cap OfSnapshot # {}
    BY DEF SnapshotUnlatches, OfSnapshot
  <2>1. PICK i \in 1 .. Len(writes) : writes[i] \in OfSnapshot
    BY DEF LatchOK, Painting, Meets
  <2>2. writes[i] \in Range(writes)
    BY DEF Range, ResizeTypes
  <2> QED
    BY <2>1, <2>2
<1>11. SnapshotIsRedrawn
  <2>1. Settled /\ Proposed >= 2 => ~ pendingForce
    BY <1>6 DEF ForceOK, Settled
  <2> QED
    BY <1>7, <2>1 DEF SnapshotIsRedrawn, BlankIsTold
<1> QED
  BY <1>1, <1>8, <1>9, <1>10, <1>11 DEF ResizeInv

LEMMA ResizeStays == ASSUME ResizeIInv, UNCHANGED resizeVars PROVE ResizeIInv'
<1>1. /\ UNCHANGED <<budget, room, face, onScreen, rows, lastRows, timers, fit, frames, settle, nudged>>
      /\ UNCHANGED <<pendingForce, batch, writes, latch, sock, prime, net, pty>>
      /\ UNCHANGED <<blank, deaf, foreign, raced>>
  BY DEF resizeVars, layoutVars, fitVars, paintVars, linkVars, ghostVars
<1>2. (Painting' <=> Painting) /\ (Releasing' <=> Releasing) /\ (Connected' <=> Connected)
      /\ Proposed' = Proposed /\ (TimersOK => TimersOK') /\ (Fitting' <=> Fitting) /\ (Nudging' <=> Nudging)
  BY <1>1, WritesStay
<1>3. (RedrawDue' <=> RedrawDue) /\ Told' = Told /\ (Restless' <=> Restless)
  BY <1>1, <1>2 DEF RedrawDue, Told, Restless
<1>4. ResizeTypes'
  BY <1>1 DEF ResizeTypes, ResizeIInv
<1> QED
  BY <1>1, <1>2, <1>3, <1>4
     DEF ResizeIInv, SocketOK, ForceOK, RowsFit, SentFits, LatchOK, ToldIsLast, BlankIsTold

LEMMA ResizeStep == ResizeIInv /\ [ResizeNext]_resizeVars => ResizeIInv'
  BY FitTimerKeeps, FrameKeeps, NudgeTimerKeeps, ResizeKeeps, HideKeeps, ShowKeeps, RemeasureKeeps,
     ArriveKeeps, OutputKeeps, FlushKeeps, WrittenKeeps, OpenKeeps, CutKeeps, DeliverKeeps,
     OtherResizesKeeps, RemountKeeps, ResizeStays, Zenon DEF ResizeNext

-----------------------------------------------------------------------------
(* TermClipboard *)

\* What is staged is the latest copy, and the latest copy is staged unless it landed.
ClipIInv ==
  /\ copied \in Seq(Payloads)
  /\ pendingOsc52 # NoText => copied # <<>> /\ pendingOsc52 = Latest
  /\ copied # <<>> => landed \/ pendingOsc52 = Latest

LEMMA ClipStep == ClipIInv /\ [ClipNext]_clipVars => ClipIInv'
<1> SUFFICES ASSUME ClipIInv, [ClipNext]_clipVars PROVE ClipIInv'
  OBVIOUS
<1> USE DEF ClipIInv
<1>1. ASSUME NEW t \in Payloads, NEW e \in BOOLEAN, Osc52(t, e) PROVE ClipIInv'
  <2>1. copied' = Append(copied, t)
    BY <1>1 DEF Osc52
  <2>2. copied' \in Seq(Payloads) /\ copied' # <<>> /\ Latest' = t
    <3> PICK s \in Seq(Payloads), n \in Nat : s = copied /\ n = Len(s)
      BY LenProperties
    <3> PICK q : q = Append(s, t)
      OBVIOUS
    <3>1. q \in Seq(Payloads)
      BY AppendProperties
    <3>2. Len(q) = n + 1 /\ q[n + 1] = t
      BY Appended DEF Longer
    <3>3. q # <<>> /\ q[Len(q)] = t
      BY <3>2, EmptySeq
    <3>4. copied' = q
      BY <2>1
    <3> QED
      BY <3>1, <3>3, <3>4 DEF Latest
  <2>3. (pendingOsc52' = NoText /\ landed') \/ pendingOsc52' = t
    BY <1>1 DEF Osc52
  <2> QED
    BY <2>2, <2>3
<1>2. ASSUME NEW e \in BOOLEAN, NEW r \in BOOLEAN, Gesture(e, r) PROVE ClipIInv'
  <2>1. UNCHANGED copied /\ pendingOsc52 # NoText
    BY <1>2 DEF Gesture
  <2>2. \/ pendingOsc52' = NoText /\ landed' = (landed \/ pendingOsc52 = Latest)
        \/ UNCHANGED <<pendingOsc52, landed>>
    BY <1>2 DEF Gesture, Lands, Stays
  <2>3. UNCHANGED Latest
    BY <2>1 DEF Latest
  <2> QED
    BY <2>1, <2>2, <2>3
<1>3. CASE Compose
  <2>1. UNCHANGED <<copied, pendingOsc52, landed>>
    BY <1>3 DEF Compose
  <2>2. UNCHANGED Latest
    BY <2>1 DEF Latest
  <2> QED
    BY <2>1, <2>2
<1>4. ASSUME NEW c \in asks, NEW ok \in BOOLEAN, Answered(c, ok) PROVE ClipIInv'
  <2>1. UNCHANGED copied
    BY <1>4 DEF Answered
  <2>2. UNCHANGED Latest
    BY <2>1 DEF Latest
  <2>3. \/ UNCHANGED pendingOsc52 /\ (landed => landed')
        \/ /\ pendingOsc52' = NoText /\ pendingOsc52 = c.text
           /\ landed' = (landed \/ c.text = Latest)
    BY <1>4 DEF Answered, Lands, Stays
  <2> QED
    BY <2>1, <2>2, <2>3
<1>5. CASE UNCHANGED clipVars
  <2>1. UNCHANGED <<copied, pendingOsc52, landed>>
    BY <1>5 DEF clipVars
  <2>2. UNCHANGED Latest
    BY <2>1 DEF Latest
  <2> QED
    BY <2>1, <2>2
<1> QED
  BY <1>1, <1>2, <1>3, <1>4, <1>5 DEF ClipNext

\* A terminal owes the size of its container and the screen of its program, and what a program
\* copied last.
THEOREM TerminalCorrect == Spec => []TerminalInv
<1>1. Init => ResizeIInv /\ ClipIInv
  <2> SUFFICES ASSUME Init PROVE ResizeIInv /\ ClipIInv
    OBVIOUS
  <2>1. ResizeInit /\ ClipInit
    BY Zenon DEF Init, StillPanes, StillResize, StillClip
  <2>2. ClipIInv
    BY <2>1, EmptySeq DEF ClipInit, ClipIInv
  <2> QED
    BY <2>1, <2>2, ResizeInitially
<1>2. ResizeIInv /\ ClipIInv /\ [Next]_vars => (ResizeIInv /\ ClipIInv)'
  <2> SUFFICES ASSUME ResizeIInv, ClipIInv, [Next]_vars PROVE (ResizeIInv /\ ClipIInv)'
    OBVIOUS
  <2>1. [ResizeNext]_resizeVars /\ [ClipNext]_clipVars
    <3>1. CASE OfResize
      BY <3>1 DEF OfResize
    <3>2. CASE OfClip
      BY <3>2 DEF OfClip
    <3>3. CASE OfViewer \/ OfWeb
      BY <3>3 DEF OfViewer, OfWeb
    <3>4. CASE OfDesk \/ OfConfig \/ OfForm \/ OfPick \/ OfCards \/ OfSheet
      <4>1. UNCHANGED paneVars
        BY <3>4, Zenon DEF OfDesk, OfConfig, OfForm, OfPick, OfCards, OfSheet
      <4> QED
        BY <4>1 DEF paneVars
    <3>5. CASE UNCHANGED vars
      BY <3>5 DEF vars, paneVars
    <3> QED
      BY <3>1, <3>2, <3>3, <3>4, <3>5 DEF Next
  <2> QED
    BY <2>1, ResizeStep, ClipStep
<1>3. ResizeIInv /\ ClipIInv => TerminalInv
  <2>1. ClipIInv => NewestNotLost
    BY DEF ClipIInv, NewestNotLost
  <2> QED
    BY <2>1, ResizeImplied DEF TerminalInv
<1> QED
  BY <1>1, <1>2, <1>3, PTL DEF Spec

-----------------------------------------------------------------------------
(* Lists without repetitions *)

Once(s) == \A i, j \in 1 .. Len(s) : s[i] = s[j] => i = j
Listing(s, E) == s \in Seq(E) /\ Once(s)

\* What is left of a list without repetitions, and what one more entry makes of it.
Pruned(r, E, s, S) ==
  /\ Listing(r, E) /\ Len(r) <= Len(s)
  /\ \A e : Contains(r, e) <=> Contains(s, e) /\ e \in S

LEMMA AmongPrunes ==
  ASSUME NEW E, NEW s, Listing(s, E), NEW S, NEW r, r = Among(s, S)
  PROVE  Pruned(r, E, s, S)
<1>1. s \in Seq(E) /\ \A i, j \in 1 .. Len(s) : s[i] = s[j] => i = j
  BY DEF Listing, Once
<1>2. Filtered(r, E, s, S)
  BY <1>1, AmongProperties
<1>3. Listing(r, E) /\ Len(r) <= Len(s)
  BY <1>1, <1>2, Zenon DEF Filtered, Listing, Once
<1>4. ASSUME NEW e PROVE Contains(r, e) <=> Contains(s, e) /\ e \in S
  <2>1. Contains(r, e) => Contains(s, e) /\ e \in S
    <3> SUFFICES ASSUME NEW i \in 1 .. Len(r), r[i] = e PROVE Contains(s, e) /\ e \in S
      BY DEF Contains
    <3>1. r[i] \in S /\ \E k \in 1 .. Len(s) : s[k] = r[i]
      BY <1>2 DEF Filtered
    <3> QED
      BY <3>1 DEF Contains
  <2>2. Contains(s, e) /\ e \in S => Contains(r, e)
    <3> SUFFICES ASSUME NEW k \in 1 .. Len(s), s[k] = e, e \in S PROVE Contains(r, e)
      BY DEF Contains
    <3>1. \E i \in 1 .. Len(r) : r[i] = s[k]
      BY <1>2 DEF Filtered
    <3> QED
      BY <3>1 DEF Contains
  <2> QED
    BY <2>1, <2>2
<1> QED
  BY <1>3, <1>4 DEF Pruned

Added(r, E, s, e) ==
  /\ Listing(r, E) /\ Len(r) = Len(s) + 1
  /\ \A x : Contains(r, x) <=> Contains(s, x) \/ x = e

LEMMA AppendAdds ==
  ASSUME NEW E, NEW s, Listing(s, E), NEW e \in E, ~ Contains(s, e), NEW r, r = Append(s, e)
  PROVE  Added(r, E, s, e)
<1>0. s \in Seq(E) /\ Once(s)
  BY DEF Listing
<1> PICK n \in Nat : n = Len(s)
  BY <1>0, LenProperties
<1>1. Len(r) = n + 1 /\ r[n + 1] = e /\ \A i \in 1 .. n : r[i] = s[i]
  BY <1>0, Appended DEF Longer
<1>2. r \in Seq(E)
  BY <1>0, AppendProperties
<1>3. \A i \in 1 .. (n + 1) : i \in 1 .. n \/ i = n + 1
  OBVIOUS
<1>4. n + 1 \in 1 .. (n + 1) /\ \A i \in 1 .. n : i \in 1 .. (n + 1)
  OBVIOUS
<1>5. \A i \in 1 .. n : s[i] # e
  BY DEF Contains
<1>6. Once(r)
  <2> SUFFICES ASSUME NEW i \in 1 .. (n + 1), NEW j \in 1 .. (n + 1), r[i] = r[j] PROVE i = j
    BY <1>1 DEF Once
  <2>1. CASE i \in 1 .. n /\ j \in 1 .. n
    BY <1>0, <1>1, <2>1 DEF Once
  <2>2. CASE i = n + 1 /\ j \in 1 .. n
    BY <1>1, <1>5, <2>2
  <2>3. CASE i \in 1 .. n /\ j = n + 1
    BY <1>1, <1>5, <2>3
  <2> QED
    BY <1>3, <2>1, <2>2, <2>3
<1>7. ASSUME NEW x PROVE Contains(r, x) <=> Contains(s, x) \/ x = e
  BY <1>1, <1>3, <1>4 DEF Contains
<1> QED
  BY <1>1, <1>2, <1>6, <1>7 DEF Added, Listing

\* A list without one of its entries is one shorter, at most.
LEMMA OneLess ==
  ASSUME NEW E, NEW s, Listing(s, E), NEW x, NEW S,
         \A i \in 1 .. Len(s) : s[i] \in S \/ s[i] = x
  PROVE  Len(Among(s, S)) >= Len(s) - 1 /\ (~ Contains(s, x) => Len(Among(s, S)) = Len(s))
<1>0. s \in Seq(E) /\ Once(s)
  BY DEF Listing
<1> PICK n \in Nat : n = Len(s)
  BY <1>0, LenProperties
<1>1. \E f : Filtering(f, E, s, S, n)
  BY <1>0, AmongSteps
<1> PICK f : Filtering(f, E, s, S, n)
  BY <1>1
<1>2. /\ f \in [0 .. n -> Seq(E)] /\ f[0] = <<>> /\ f[n] = Among(s, S)
      /\ \A i \in 1 .. n : f[i] = IF s[i] \in S THEN Append(f[i - 1], s[i]) ELSE f[i - 1]
  BY DEF Filtering
<1>3. \A i \in 1 .. n : s[i] \in E
  BY <1>0, ElementOfSeq
<1> DEFINE Seen(k) == \E i \in 1 .. k : s[i] = x
           Long(k) == Len(f[k]) \in Nat /\ Len(f[k]) >= k - 1 /\ (~ Seen(k) => Len(f[k]) = k)
<1>4. Long(0)
  BY <1>2, EmptySeq
<1>5. ASSUME NEW k \in 1 .. n, Long(k - 1) PROVE Long(k)
  <2>0. k - 1 \in 0 .. n
    OBVIOUS
  <2> PICK r \in Seq(E) : r = f[k - 1]
    BY <1>2, <2>0
  <2> PICK m \in Nat : m = Len(r)
    BY LenProperties
  <2>1. CASE s[k] \in S
    <3>1. Len(f[k]) = m + 1
      <4> PICK e \in E : e = s[k]
        BY <1>3
      <4>1. Len(Append(r, e)) = m + 1
        BY Appended DEF Longer
      <4> QED
        BY <1>2, <2>1, <4>1
    <3>2. Seen(k - 1) => Seen(k)
      OBVIOUS
    <3> QED
      BY <1>5, <3>1, <3>2
  <2>2. CASE s[k] \notin S
    <3>1. f[k] = r
      BY <1>2, <2>2
    <3>2. s[k] = x
      BY <2>2
    <3>3. ~ Seen(k - 1)
      <4> SUFFICES ASSUME NEW i \in 1 .. (k - 1), s[i] = x PROVE FALSE
        OBVIOUS
      <4>1. i \in 1 .. n /\ i # k
        OBVIOUS
      <4> QED
        BY <1>0, <3>2, <4>1 DEF Once
    <3>4. Seen(k)
      BY <3>2
    <3> QED
      BY <1>5, <3>1, <3>3, <3>4
  <2> QED
    BY <2>1, <2>2
<1> HIDE DEF Long
<1> DEFINE T == {k \in 0 .. n : ~ Long(k)}
<1>6. ASSUME T # {} PROVE FALSE
  <2>1. T \in SUBSET Nat
    OBVIOUS
  <2> HIDE DEF T
  <2>2. PICK k \in T : \A j \in T : k <= j
    BY <1>6, <2>1, LeastNat
  <2>3. k \in 0 .. n /\ ~ Long(k)
    BY <2>2 DEF T
  <2>4. k \in 1 .. n /\ k - 1 \in 0 .. n /\ ~ (k <= k - 1)
    BY <1>4, <2>3
  <2>5. Long(k - 1)
    BY <2>2, <2>4 DEF T
  <2> QED
    BY <1>5, <2>3, <2>4, <2>5
<1>7. Long(n)
  BY <1>6
<1> QED
  BY <1>2, <1>7 DEF Long, Contains

-----------------------------------------------------------------------------
(* UserConfig *)

\* One more entry in front of a list.
LEMMA InFront ==
  ASSUME NEW m \in Nat, NEW a, NEW q, NEW x,
         q[1] = x, \A i \in 1 .. m : q[i + 1] = a[i], \A i \in 1 .. m : a[i] # x,
         \A i, j \in 1 .. m : a[i] = a[j] => i = j
  PROVE  \A i, j \in 1 .. (m + 1) : q[i] = q[j] => i = j
<1>1. ASSUME NEW i \in 1 .. (m + 1), i # 1 PROVE i - 1 \in 1 .. m /\ q[i] = a[i - 1]
  <2>1. i - 1 \in 1 .. m /\ (i - 1) + 1 = i
    BY <1>1
  <2> QED
    BY <2>1
<1>2. ASSUME NEW i \in 1 .. (m + 1), i # 1 PROVE q[i] # x
  BY <1>1, <1>2
<1> SUFFICES ASSUME NEW i \in 1 .. (m + 1), NEW j \in 1 .. (m + 1), q[i] = q[j] PROVE i = j
  OBVIOUS
<1>3. CASE i = 1 \/ j = 1
  BY <1>2, <1>3
<1>4. CASE i # 1 /\ j # 1
  <2>1. i - 1 \in 1 .. m /\ j - 1 \in 1 .. m /\ a[i - 1] = a[j - 1]
    BY <1>1, <1>4
  <2>2. i - 1 = j - 1
    BY <2>1
  <2> QED
    BY <2>2
<1> QED
  BY <1>3, <1>4

Fronted(q, E, a, x, m) ==
  /\ Listing(q, E) /\ Len(q) = m + 1 /\ q[1] = x
  /\ \A i \in 1 .. m : i + 1 \in 1 .. (m + 1) /\ q[i + 1] = a[i]

LEMMA FrontAdds ==
  ASSUME NEW E, NEW a, Listing(a, E), NEW x \in E, ~ Contains(a, x), NEW m \in Nat, m = Len(a),
         NEW q, q = <<x>> \o a
  PROVE  Fronted(q, E, a, x, m)
<1>0. a \in Seq(E) /\ Once(a)
  BY DEF Listing
<1>1. PICK w : w = <<x>>
  OBVIOUS
<1>2. w \in Seq(E) /\ Len(w) = 1 /\ w[1] = x
  BY <1>1
<1>3. /\ q \in Seq(E) /\ Len(q) = 1 + m
      /\ \A i \in 1 .. (1 + m) : q[i] = IF i <= 1 THEN w[i] ELSE a[i - 1]
  BY <1>0, <1>1, <1>2, ConcatProperties
<1>4. 1 \in 1 .. (1 + m) /\ 1 <= 1 /\ 1 + m = m + 1
  OBVIOUS
<1>5. q[1] = x
  BY <1>2, <1>3, <1>4
<1>6. ASSUME NEW i \in 1 .. m PROVE i + 1 \in 1 .. (m + 1) /\ q[i + 1] = a[i]
  <2>1. i + 1 \in 1 .. (1 + m) /\ ~ (i + 1 <= 1) /\ (i + 1) - 1 = i
    OBVIOUS
  <2> QED
    BY <1>3, <1>4, <2>1
<1>7. \A i \in 1 .. m : a[i] # x
  BY DEF Contains
<1>8. \A i, j \in 1 .. (m + 1) : q[i] = q[j] => i = j
  BY <1>0, <1>5, <1>6, <1>7, InFront DEF Once
<1> QED
  BY <1>3, <1>4, <1>5, <1>6, <1>8 DEF Fronted, Listing, Once

PrefixOf(r, E, q, k) ==
  Listing(r, E) /\ Len(r) = k /\ \A i \in 1 .. k : r[i] = q[i]

LEMMA PrefixKeeps ==
  ASSUME NEW E, NEW q, Listing(q, E), NEW n \in Nat, n = Len(q), NEW k \in Nat, k <= n,
         NEW r, r = SubSeq(q, 1, k)
  PROVE  PrefixOf(r, E, q, k)
<1>0. q \in Seq(E) /\ Once(q)
  BY DEF Listing
<1>1. \A i \in 1 .. k : i \in 1 .. n
  OBVIOUS
<1>2. \A i \in 1 .. k : q[i] \in E
  BY <1>0, <1>1, ElementOfSeq
<1>3. r \in Seq(E)
  BY <1>2, SubSeqProperties
<1>4. Len(r) = k
  BY <1>2, SubSeqProperties
<1>5. ASSUME NEW i \in 1 .. k PROVE r[i] = q[i]
  BY <1>0, SubSeqProperties, <1>2
<1>6. Once(r)
  BY <1>0, <1>1, <1>4, <1>5 DEF Once
<1> QED
  BY <1>3, <1>4, <1>5, <1>6 DEF PrefixOf, Listing

RecentLists(E) == {s \in Seq(E) : Once(s) /\ Len(s) <= MaxRecent}

RecentlyIn(r, E, s, x) ==
  /\ r \in RecentLists(E) /\ Contains(r, x)
  /\ \A c : Contains(s, c) => Contains(r, c) \/ Len(r) = MaxRecent
  /\ \A c : Contains(r, c) => c = x \/ Contains(s, c)
  /\ Len(s) = MaxRecent => Len(r) = MaxRecent

\* What a recent list keeps.
LEMMA RecentKeeps ==
  ASSUME NEW E, NEW s \in RecentLists(E), NEW x \in E, NEW r, r = Recent(x, s)
  PROVE  RecentlyIn(r, E, s, x)
<1>0. s \in Seq(E) /\ Once(s) /\ Listing(s, E) /\ Len(s) <= MaxRecent
  BY DEF RecentLists, Listing
<1>1. PICK n \in Nat : n = Len(s)
  BY <1>0, LenProperties
<1>2. PICK S : S = Range(s) \ {x}
  OBVIOUS
<1>3. PICK a : a = Among(s, S)
  OBVIOUS
<1>4. Pruned(a, E, s, S)
  BY <1>0, <1>3, AmongPrunes
<1>5. Listing(a, E) /\ a \in Seq(E)
  BY <1>4 DEF Pruned, Listing
<1>6. PICK m \in Nat : m = Len(a)
  BY <1>5, LenProperties
<1>7. ~ Contains(a, x)
  BY <1>2, <1>4 DEF Pruned
<1>8. \A i \in 1 .. Len(s) : s[i] \in S \/ s[i] = x
  <2> SUFFICES ASSUME NEW i \in 1 .. Len(s), s[i] # x PROVE s[i] \in S
    OBVIOUS
  <2>1. s[i] \in Range(s)
    BY <1>0 DEF Range
  <2> QED
    BY <1>2, <2>1
<1>9. Len(Among(s, S)) >= Len(s) - 1
  BY <1>0, <1>8, OneLess
<1>10. m >= n - 1
  BY <1>1, <1>3, <1>6, <1>9
<1>11. ASSUME NEW c, Contains(s, c), c # x PROVE Contains(a, c)
  <2>1. c \in S
    BY <1>8, <1>11 DEF Contains
  <2> QED
    BY <1>4, <1>11, <2>1 DEF Pruned
<1>12. PICK q : q = <<x>> \o a
  OBVIOUS
<1>13. Fronted(q, E, a, x, m)
  BY <1>5, <1>6, <1>7, <1>12, FrontAdds
<1>14. Listing(q, E) /\ Len(q) = m + 1 /\ q[1] = x
  BY <1>13 DEF Fronted
<1>15. PICK k \in Nat : k = IF m + 1 < MaxRecent THEN m + 1 ELSE MaxRecent
  BY <1>6, RecentAssumption
<1>16. k <= m + 1 /\ 1 \in 1 .. k /\ k <= MaxRecent /\ (k = m + 1 \/ k = MaxRecent)
  BY <1>6, <1>15, RecentAssumption
<1>17. r = SubSeq(q, 1, k)
  BY <1>2, <1>3, <1>12, <1>14, <1>15 DEF Recent
<1>18. m + 1 \in Nat
  BY <1>6
<1>19. PrefixOf(r, E, q, k)
  BY <1>14, <1>15, <1>16, <1>17, <1>18, PrefixKeeps
<1>20. Listing(r, E) /\ Len(r) = k /\ \A i \in 1 .. k : r[i] = q[i]
  BY <1>19 DEF PrefixOf
<1>21. Contains(r, x)
  BY <1>14, <1>16, <1>20 DEF Contains
<1>22. ASSUME NEW c, Contains(s, c) PROVE Contains(r, c) \/ k = MaxRecent
  <2>1. CASE c = x
    BY <1>21, <2>1
  <2>2. CASE c # x /\ k = m + 1
    <3>1. PICK i \in 1 .. m : a[i] = c
      BY <1>6, <1>11, <1>22, <2>2 DEF Contains
    <3>2. i + 1 \in 1 .. k /\ q[i + 1] = c
      BY <1>13, <2>2, <3>1 DEF Fronted
    <3> QED
      BY <1>20, <3>2 DEF Contains
  <2> QED
    BY <1>16, <2>1, <2>2
<1>23. n = MaxRecent => k = MaxRecent
  BY <1>1, <1>6, <1>10, <1>15, RecentAssumption
<1>24. r \in RecentLists(E)
  BY <1>16, <1>20 DEF RecentLists, Listing
<1>25. ASSUME NEW c, Contains(r, c) PROVE c = x \/ Contains(s, c)
  <2>1. PICK i \in 1 .. k : q[i] = c
    BY <1>20, <1>25 DEF Contains
  <2>2. CASE i = 1
    BY <1>14, <2>1, <2>2
  <2>3. CASE i # 1
    <3>1. i - 1 \in 1 .. m /\ (i - 1) + 1 = i
      BY <1>6, <1>15, <1>16, <2>3
    <3>2. a[i - 1] = c
      BY <1>13, <2>1, <3>1 DEF Fronted
    <3>3. Contains(a, c)
      BY <1>6, <3>1, <3>2 DEF Contains
    <3> QED
      BY <1>4, <3>3 DEF Pruned
  <2> QED
    BY <2>2, <2>3
<1> QED
  BY <1>1, <1>20, <1>21, <1>22, <1>23, <1>24, <1>25 DEF RecentlyIn

\* Documents whose lists have nothing twice and whose recent lists are cut.
TidyLists(E) == {s \in Seq(E) : Once(s)}
Docs == [focused : TidyLists(Agents), ports : TidyLists(Ports),
         commands : RecentLists(Commands), files : RecentLists(Paths)]

LEMMA StoredAreTidy == StoredDocs \subseteq Docs
<1> SUFFICES ASSUME NEW d \in StoredDocs PROVE d \in Docs
  OBVIOUS
<1>1. /\ d \in Doc /\ \A f \in DOMAIN d : IsInjective(d[f])
      /\ Len(d.commands) <= MaxRecent /\ Len(d.files) <= MaxRecent
  BY ConfigAssumption
<1>2. ASSUME NEW E, NEW s \in Seq(E), IsInjective(s) PROVE Once(s)
  BY <1>2 DEF IsInjective, Once
<1>3. /\ d.focused \in Seq(Agents) /\ d.ports \in Seq(Ports)
      /\ d.commands \in Seq(Commands) /\ d.files \in Seq(Paths)
      /\ DOMAIN d = {"focused", "ports", "commands", "files"}
  BY <1>1 DEF Doc
<1>4. /\ IsInjective(d.focused) /\ IsInjective(d.ports)
      /\ IsInjective(d.commands) /\ IsInjective(d.files)
  BY <1>1, <1>3
<1>5. Once(d.focused) /\ Once(d.ports) /\ Once(d.commands) /\ Once(d.files)
  BY <1>2, <1>3, <1>4
<1>6. d = [focused |-> d.focused, ports |-> d.ports, commands |-> d.commands, files |-> d.files]
  BY <1>1 DEF Doc
<1> QED
  BY <1>1, <1>3, <1>5, <1>6 DEF Docs, TidyLists, RecentLists

LEMMA TidyDocs ==
  ASSUME NEW d \in Docs
  PROVE  d \in Doc /\ (\A f \in DOMAIN d : IsInjective(d[f]))
         /\ \A f \in {"commands", "files"} : Len(d[f]) <= MaxRecent
<1>1. ASSUME NEW E, NEW s \in Seq(E), Once(s) PROVE IsInjective(s)
  BY <1>1 DEF IsInjective, Once
<1>2. /\ d.focused \in Seq(Agents) /\ d.ports \in Seq(Ports)
      /\ d.commands \in Seq(Commands) /\ d.files \in Seq(Paths)
      /\ Once(d.focused) /\ Once(d.ports) /\ Once(d.commands) /\ Once(d.files)
      /\ Len(d.commands) <= MaxRecent /\ Len(d.files) <= MaxRecent
  BY DEF Docs, TidyLists, RecentLists
<1>3. /\ IsInjective(d.focused) /\ IsInjective(d.ports)
      /\ IsInjective(d.commands) /\ IsInjective(d.files)
  BY <1>1, <1>2
<1>4. /\ d = [focused |-> d.focused, ports |-> d.ports, commands |-> d.commands, files |-> d.files]
      /\ DOMAIN d = {"focused", "ports", "commands", "files"}
  BY DEF Docs
<1>5. d \in Doc
  BY <1>2, <1>4 DEF Doc
<1> QED
  BY <1>2, <1>3, <1>4, <1>5

\* What the effect makes of a document: it drops the agents that are gone, and no more.
SettledDoc(next, doc, live, once, up) ==
  /\ next \in Docs /\ next.commands = doc.commands
  /\ once /\ up => Range(next.focused) \subseteq live
  /\ \A a : Contains(doc.focused, a) => Contains(next.focused, a) \/ (once /\ up /\ a \notin live)

LEMMA SettleKeeps ==
  ASSUME NEW doc \in Docs, NEW live, NEW once \in BOOLEAN, NEW up \in BOOLEAN,
         NEW next, next = Settle(doc, live, once, up)
  PROVE  SettledDoc(next, doc, live, once, up)
<1>1. CASE ~ once \/ ~ up
  BY <1>1 DEF Settle, SettledDoc
<1>2. CASE once /\ up
  <2>1. PICK s : s = doc.focused
    OBVIOUS
  <2>2. PICK r : r = Among(s, live)
    OBVIOUS
  <2>3. Listing(s, Agents)
    BY <2>1 DEF Docs, TidyLists, Listing
  <2>4. Pruned(r, Agents, s, live)
    BY <2>2, <2>3, AmongPrunes
  <2>5. r \in TidyLists(Agents) /\ r \in Seq(Agents)
    BY <2>4 DEF Pruned, Listing, TidyLists
  <2>6. next = [doc EXCEPT !.focused = r]
    BY <1>2, <2>1, <2>2 DEF Settle, PruneFocus
  <2>7. next \in Docs /\ next.commands = doc.commands /\ next.focused = r
    BY <2>5, <2>6 DEF Docs
  <2>8. Range(r) \subseteq live
    <3> SUFFICES ASSUME NEW e \in Range(r) PROVE e \in live
      OBVIOUS
    <3>1. Contains(r, e)
      BY <2>5 DEF Range, Contains
    <3> QED
      BY <2>4, <3>1 DEF Pruned
  <2>9. \A a : Contains(s, a) => Contains(r, a) \/ a \notin live
    BY <2>4 DEF Pruned
  <2> QED
    BY <1>2, <2>1, <2>7, <2>8, <2>9 DEF SettledDoc
<1> QED
  BY <1>1, <1>2

\* Documents that the user's changes make of a document.
LEMMA ChangesAreDocs ==
  ASSUME NEW d \in Docs
  PROVE  /\ \A a \in Agents : [d EXCEPT !.focused = ToggleFocus(@, a)] \in Docs
         /\ \A p \in Ports : ~ Contains(d.ports, p) => [d EXCEPT !.ports = Append(@, p)] \in Docs
         /\ \A p \in Ports : [d EXCEPT !.ports = Among(@, Ports \ {p})] \in Docs
         /\ \A f \in Paths : [d EXCEPT !.files = Recent(f, @)] \in Docs
<1>1. Listing(d.focused, Agents) /\ Listing(d.ports, Ports) /\ d.files \in RecentLists(Paths)
  BY DEF Docs, TidyLists, Listing
<1>2. ASSUME NEW E, NEW s, Listing(s, E), NEW S PROVE Among(s, S) \in TidyLists(E)
  <2>1. PICK r : r = Among(s, S)
    OBVIOUS
  <2>2. Pruned(r, E, s, S)
    BY <1>2, <2>1, AmongPrunes
  <2> QED
    BY <2>1, <2>2 DEF Pruned, Listing, TidyLists
<1>3. ASSUME NEW E, NEW s, Listing(s, E), NEW e \in E, ~ Contains(s, e)
      PROVE  Append(s, e) \in TidyLists(E)
  <2>1. PICK r : r = Append(s, e)
    OBVIOUS
  <2>2. Added(r, E, s, e)
    BY <1>3, <2>1, AppendAdds
  <2> QED
    BY <2>1, <2>2 DEF Added, Listing, TidyLists
<1>4. ASSUME NEW a \in Agents PROVE ToggleFocus(d.focused, a) \in TidyLists(Agents)
  BY <1>1, <1>2, <1>3 DEF ToggleFocus
<1>5. ASSUME NEW f \in Paths PROVE Recent(f, d.files) \in RecentLists(Paths)
  <2>1. PICK r : r = Recent(f, d.files)
    OBVIOUS
  <2>2. RecentlyIn(r, Paths, d.files, f)
    BY <1>1, <2>1, RecentKeeps
  <2> QED
    BY <2>1, <2>2 DEF RecentlyIn
<1>6. ASSUME NEW s \in TidyLists(Agents) PROVE [d EXCEPT !.focused = s] \in Docs
  BY DEF Docs
<1>7. ASSUME NEW s \in TidyLists(Ports) PROVE [d EXCEPT !.ports = s] \in Docs
  BY DEF Docs
<1>8. ASSUME NEW s \in RecentLists(Paths) PROVE [d EXCEPT !.files = s] \in Docs
  BY DEF Docs
<1> QED
  BY <1>1, <1>2, <1>3, <1>4, <1>5, <1>6, <1>7, <1>8

ConfigTypes ==
  /\ store \in Docs /\ config \in Docs /\ saves \in Seq(Docs)
  /\ loading \in [served : BOOLEAN, doc : Docs]
  /\ launches \subseteq [command : Commands, recent : RecentLists(Commands)]
  /\ launched \in RecentLists(Commands)
  /\ loaded \in BOOLEAN /\ aliveOnce \in BOOLEAN /\ online \in BOOLEAN
  /\ early \in BOOLEAN /\ crowded \in BOOLEAN
  /\ alive \subseteq Agents /\ newest \in Whereabouts

\* The newest save has all of what the page shows.
SavedLast == newest = "sent" => saves # <<>> /\ config = saves[Len(saves)]

\* As long as nothing was saved, the document that comes is the server's.
Unloaded == newest = "none" => saves = <<>> /\ (loading.served => loading.doc = store)

\* Launches that do not overlap, of a page that has its document, see the recent commands.
OneLaunch ==
  ~ early /\ ~ crowded =>
    /\ ~ loaded => launches = {} /\ \A c : ~ Contains(launched, c)
    /\ \A l \in launches : l.recent = config.commands /\ \A k \in launches : k = l

ConfigIInv ==
  /\ ConfigTypes /\ SavedLast /\ Unloaded /\ OneLaunch
  /\ StoredIsShown /\ FocusedAlive /\ LaunchedIsRecent

EndsWith(q, d) == q \in Seq(Docs) /\ q # <<>> /\ q[Len(q)] = d

LEMMA SaveIsLast ==
  ASSUME NEW s \in Seq(Docs), NEW d \in Docs, NEW q, q = Append(s, d)
  PROVE  EndsWith(q, d)
<1>1. PICK n \in Nat : n = Len(s)
  BY LenProperties
<1>2. q \in Seq(Docs)
  BY AppendProperties
<1>3. Len(q) = n + 1 /\ q[n + 1] = d
  BY <1>1, Appended DEF Longer
<1>4. q # <<>>
  BY <1>1, <1>3, EmptySeq
<1> QED
  BY <1>1, <1>2, <1>3, <1>4 DEF EndsWith

\* A change is shown and saved as a whole.
Updated(doc) ==
  /\ config' \in Docs /\ config'.commands = doc.commands
  /\ EndsWith(saves', config') /\ newest' = "sent"
  /\ early' = (early \/ ~ loaded)
  /\ FocusedAlive'

LEMMA UpdateKeeps ==
  ASSUME ConfigTypes, NEW doc \in Docs, Update(doc), UNCHANGED aliveVars
  PROVE  Updated(doc)
<1>1. PICK next : next = Settle(doc, alive, aliveOnce, online)
  OBVIOUS
<1>2. SettledDoc(next, doc, alive, aliveOnce, online)
  BY <1>1, SettleKeeps DEF ConfigTypes
<1>3. /\ config' = next /\ early' = (early \/ ~ loaded) /\ newest' = "sent"
      /\ saves' = IF next = doc THEN Append(saves, doc) ELSE Append(Append(saves, doc), next)
  BY <1>1 DEF Update
<1>4. next \in Docs /\ saves \in Seq(Docs)
  BY <1>2 DEF SettledDoc, ConfigTypes
<1>5. PICK q : q = Append(saves, doc)
  OBVIOUS
<1>6. EndsWith(q, doc) /\ q \in Seq(Docs)
  BY <1>4, <1>5, SaveIsLast DEF EndsWith
<1>7. PICK r : r = Append(q, next)
  OBVIOUS
<1>8. EndsWith(r, next)
  BY <1>4, <1>6, <1>7, SaveIsLast
<1>9. saves' = IF next = doc THEN q ELSE r
  BY <1>3, <1>5, <1>7
<1>10. EndsWith(saves', next)
  BY <1>6, <1>8, <1>9
<1>11. FocusedAlive'
  BY <1>2, <1>3 DEF FocusedAlive, SettledDoc, aliveVars
<1> QED
  BY <1>2, <1>3, <1>10, <1>11 DEF Updated, SettledDoc

ChangeOf(doc) ==
  /\ Update(doc) /\ doc.commands = config.commands
  /\ UNCHANGED <<store, loaded, loading, launches, aliveVars, launched, crowded>>

\* What the user changes of the document, other than by a launch.
LEMMA ChangeKeeps ==
  ASSUME ConfigIInv, NEW doc \in Docs, ChangeOf(doc)
  PROVE  ConfigIInv'
<1>0. /\ UNCHANGED <<store, loaded, loading, alive, aliveOnce, online, crowded>>
      /\ UNCHANGED <<launches, launched>>
      /\ UNCHANGED aliveVars
  BY DEF ChangeOf, aliveVars
<1>1. Updated(doc) /\ config'.commands = config.commands
  BY <1>0, UpdateKeeps DEF ConfigIInv, ChangeOf, Updated
<1>2. ConfigTypes'
  BY <1>0, <1>1 DEF Updated, EndsWith, ConfigTypes, ConfigIInv, Whereabouts
<1>3. SavedLast' /\ Unloaded' /\ StoredIsShown'
  BY <1>1 DEF Updated, EndsWith, SavedLast, Unloaded, StoredIsShown
<1>4. OneLaunch'
  BY <1>0, <1>1 DEF Updated, OneLaunch, ConfigIInv
<1>5. LaunchedIsRecent'
  BY <1>0, <1>1 DEF Updated, LaunchedIsRecent, ConfigIInv
<1> QED
  BY <1>1, <1>2, <1>3, <1>4, <1>5 DEF Updated, ConfigIInv

\* A launch ends: what it adds to is what the page shows, unless launches overlapped.
LEMMA CreatedKeeps ==
  ASSUME ConfigIInv, NEW l \in launches, NEW ok \in BOOLEAN, Created(l, ok)
  PROVE  ConfigIInv'
<1>0. /\ UNCHANGED <<store, loaded, loading, alive, aliveOnce, online, crowded>>
      /\ launches' = launches \ {l}
      /\ UNCHANGED aliveVars
  BY DEF Created, aliveVars
<1>1. l.command \in Commands /\ l.recent \in RecentLists(Commands)
  BY DEF ConfigIInv, ConfigTypes
<1>2. CASE ~ ok
  <2>1. UNCHANGED <<config, saves, newest, early, launched>>
    BY <1>2 DEF Created, saveVars
  <2>2. ConfigTypes'
    BY <1>0, <2>1 DEF ConfigTypes, ConfigIInv
  <2>3. SavedLast' /\ Unloaded' /\ StoredIsShown' /\ FocusedAlive' /\ LaunchedIsRecent'
    BY <1>0, <2>1 DEF SavedLast, Unloaded, StoredIsShown, FocusedAlive, LaunchedIsRecent, ConfigIInv
  <2>4. OneLaunch'
    BY <1>0, <2>1 DEF OneLaunch, ConfigIInv
  <2> QED
    BY <2>2, <2>3, <2>4 DEF ConfigIInv
<1>3. CASE ok
  <2>1. PICK r : r = Recent(l.command, l.recent)
    OBVIOUS
  <2>2. PICK t : t = Recent(l.command, launched)
    OBVIOUS
  <2>3. RecentlyIn(r, Commands, l.recent, l.command)
    BY <1>1, <2>1, RecentKeeps
  <2>4. RecentlyIn(t, Commands, launched, l.command)
    BY <1>1, <2>2, RecentKeeps DEF ConfigIInv, ConfigTypes
  <2>5. r \in RecentLists(Commands) /\ t \in RecentLists(Commands)
    BY <2>3, <2>4 DEF RecentlyIn
  <2>6. PICK doc : doc = [config EXCEPT !.commands = r]
    OBVIOUS
  <2>7. doc \in Docs /\ doc.commands = r
    BY <2>5, <2>6 DEF Docs, ConfigIInv, ConfigTypes
  <2>8. Update(doc) /\ launched' = t
    BY <1>3, <2>1, <2>2, <2>6 DEF Created
  <2>9. Updated(doc)
    BY <1>0, <2>7, <2>8, UpdateKeeps DEF ConfigIInv
  <2>10. ConfigTypes'
    BY <1>0, <2>5, <2>8, <2>9 DEF Updated, EndsWith, ConfigTypes, ConfigIInv, Whereabouts
  <2>11. SavedLast' /\ Unloaded' /\ StoredIsShown'
    BY <2>9 DEF Updated, EndsWith, SavedLast, Unloaded, StoredIsShown
  <2>12. OneLaunch'
    BY <1>0, <2>9 DEF Updated, OneLaunch, ConfigIInv
  <2>13. LaunchedIsRecent'
    <3> SUFFICES ASSUME loaded', ~ early', ~ crowded', NEW c \in Range(launched')
                 PROVE  Contains(config'.commands, c) \/ Len(config'.commands) = MaxRecent
      BY DEF LaunchedIsRecent
    <3>1. loaded /\ ~ early /\ ~ crowded
      BY <1>0, <2>9 DEF Updated
    <3>2. config'.commands = r
      BY <2>7, <2>9 DEF Updated
    <3>3. l.recent = config.commands
      BY <3>1 DEF OneLaunch, ConfigIInv
    <3>4. c \in Range(t)
      BY <2>8
    <3>5. Contains(t, c)
      BY <2>5, <3>4 DEF Range, Contains, RecentLists
    <3>6. CASE c = l.command
      BY <2>3, <3>2, <3>6 DEF RecentlyIn
    <3>7. CASE Contains(launched, c)
      <4>1. c \in Range(launched)
        BY <3>7 DEF Range, Contains, ConfigIInv, ConfigTypes, RecentLists
      <4>2. Contains(config.commands, c) \/ Len(config.commands) = MaxRecent
        BY <3>1, <4>1 DEF LaunchedIsRecent, ConfigIInv
      <4> QED
        BY <2>3, <3>2, <3>3, <4>2 DEF RecentlyIn
    <3> QED
      BY <2>4, <3>5, <3>6, <3>7 DEF RecentlyIn
  <2> QED
    BY <2>9, <2>10, <2>11, <2>12, <2>13 DEF Updated, ConfigIInv
<1> QED
  BY <1>2, <1>3

LEMMA ListedKeeps ==
  ASSUME ConfigIInv, NEW live \in SUBSET Agents, NEW up \in BOOLEAN, Listed(live, up)
  PROVE  ConfigIInv'
<1>0. /\ UNCHANGED <<store, loaded, loading, crowded>> /\ UNCHANGED <<launches, launched>>
      /\ alive' = (IF up THEN live ELSE alive) /\ aliveOnce' = (aliveOnce \/ up) /\ online' = up
  BY DEF Listed
<1>1. alive' \subseteq Agents /\ aliveOnce' \in BOOLEAN /\ online' \in BOOLEAN
  BY <1>0 DEF ConfigIInv, ConfigTypes
<1>2. PICK next : next = Settle(config, alive', aliveOnce', up)
  OBVIOUS
<1>3. /\ config' = next /\ saves' = (IF next = config THEN saves ELSE Append(saves, next))
      /\ newest' = (IF next = config THEN newest ELSE "sent")
      /\ early' = (early \/ (next # config /\ ~ loaded))
  BY <1>2 DEF Listed
<1>4. SettledDoc(next, config, alive', aliveOnce', up)
  BY <1>1, <1>2, SettleKeeps DEF ConfigIInv, ConfigTypes
<1>5. next \in Docs /\ next.commands = config.commands
  BY <1>4 DEF SettledDoc
<1>6. PICK q : q = Append(saves, next)
  OBVIOUS
<1>7. EndsWith(q, next) /\ q \in Seq(Docs)
  <2>1. saves \in Seq(Docs)
    BY DEF ConfigIInv, ConfigTypes
  <2>2. EndsWith(q, next)
    BY <1>5, <1>6, <2>1, SaveIsLast
  <2> QED
    BY <2>2 DEF EndsWith
<1>8. saves' = (IF next = config THEN saves ELSE q)
  BY <1>3, <1>6
<1>9. ConfigTypes'
  <2>1. saves' \in Seq(Docs) /\ early' \in BOOLEAN /\ newest' \in Whereabouts
    BY <1>3, <1>7, <1>8 DEF ConfigIInv, ConfigTypes, Whereabouts
  <2> QED
    BY <1>0, <1>1, <1>3, <1>5, <2>1 DEF ConfigIInv, ConfigTypes
<1>10. SavedLast' /\ StoredIsShown'
  BY <1>0, <1>3, <1>7, <1>8 DEF ConfigIInv, SavedLast, StoredIsShown, EndsWith
<1>11. Unloaded'
  BY <1>0, <1>3, <1>8 DEF ConfigIInv, Unloaded
<1>12. OneLaunch'
  BY <1>0, <1>3, <1>5 DEF ConfigIInv, OneLaunch
<1>13. FocusedAlive'
  BY <1>0, <1>3, <1>4 DEF FocusedAlive, SettledDoc
<1>14. LaunchedIsRecent'
  BY <1>0, <1>3, <1>5 DEF ConfigIInv, LaunchedIsRecent
<1> QED
  BY <1>9, <1>10, <1>11, <1>12, <1>13, <1>14 DEF ConfigIInv

\* The document comes: nothing of the page is lost, since nothing was there.
LEMMA LoadedKeeps ==
  ASSUME ConfigIInv, Loaded
  PROVE  ConfigIInv'
<1>0. /\ UNCHANGED <<store, loading, crowded, early>> /\ UNCHANGED <<launches, launched>>
      /\ UNCHANGED <<alive, aliveOnce, online>> /\ loaded' = TRUE /\ ~ loaded /\ loading.served
  BY DEF Loaded, aliveVars
<1>1. PICK doc : doc = loading.doc
  OBVIOUS
<1>2. PICK next : next = Settle(doc, alive, aliveOnce, online)
  OBVIOUS
<1>3. doc \in Docs
  BY <1>1 DEF ConfigIInv, ConfigTypes
<1>4. SettledDoc(next, doc, alive, aliveOnce, online)
  BY <1>2, <1>3, SettleKeeps DEF ConfigIInv, ConfigTypes
<1>5. next \in Docs
  BY <1>4 DEF SettledDoc
<1>6. PICK q : q = Append(saves, next)
  OBVIOUS
<1>7. EndsWith(q, next) /\ q \in Seq(Docs)
  <2>1. saves \in Seq(Docs)
    BY DEF ConfigIInv, ConfigTypes
  <2>2. EndsWith(q, next)
    BY <1>5, <1>6, <2>1, SaveIsLast
  <2> QED
    BY <2>2 DEF EndsWith
<1>8. /\ config' = next /\ saves' = (IF next = doc THEN saves ELSE q)
      /\ newest' = (IF next # doc THEN "sent" ELSE IF newest = "none" THEN "stored" ELSE "unsaved")
  BY <1>1, <1>2, <1>6 DEF Loaded
<1>9. ConfigTypes'
  <2>1. saves' \in Seq(Docs) /\ config' \in Docs /\ newest' \in Whereabouts
    BY <1>5, <1>7, <1>8 DEF ConfigIInv, ConfigTypes, Whereabouts
  <2> QED
    BY <1>0, <2>1 DEF ConfigIInv, ConfigTypes
<1>10. SavedLast'
  BY <1>7, <1>8 DEF SavedLast, EndsWith
<1>11. Unloaded' /\ StoredIsShown'
  <2>1. newest' = "stored" => newest = "none" /\ next = doc
    BY <1>8
  <2>2. newest = "none" => doc = store
    BY <1>0, <1>1 DEF ConfigIInv, Unloaded
  <2> QED
    BY <1>0, <1>8, <2>1, <2>2 DEF Unloaded, StoredIsShown
<1>12. OneLaunch'
  BY <1>0 DEF ConfigIInv, OneLaunch
<1>13. FocusedAlive'
  BY <1>0, <1>4, <1>8 DEF FocusedAlive, SettledDoc
<1>14. LaunchedIsRecent'
  <2> SUFFICES ASSUME ~ early, ~ crowded, NEW c \in Range(launched) PROVE FALSE
    BY <1>0 DEF LaunchedIsRecent
  <2>1. Contains(launched, c)
    BY DEF Range, Contains, ConfigIInv, ConfigTypes, RecentLists
  <2> QED
    BY <1>0, <2>1 DEF ConfigIInv, OneLaunch
<1> QED
  BY <1>9, <1>10, <1>11, <1>12, <1>13, <1>14 DEF ConfigIInv

\* Saves that are on their way no more: the newest is still the last of them, or it was
\* one of these.
SaveGone(r) ==
  /\ UNCHANGED <<config, loaded, loading, launches>> /\ UNCHANGED <<alive, aliveOnce, online>>
  /\ UNCHANGED <<early, launched, crowded>>
  /\ saves # <<>> /\ saves' = r /\ r \in Seq(Docs) /\ store' \in Docs /\ newest' \in Whereabouts
  /\ newest' = "none" => newest = "none"
  /\ newest' = "sent" => newest = "sent" /\ r # <<>> /\ r[Len(r)] = saves[Len(saves)]
  /\ newest' = "stored" => \/ newest = "stored" /\ store' = store
                           \/ newest = "sent" /\ store' = saves[Len(saves)]

LEMMA SaveGoneKeeps == ASSUME ConfigIInv, NEW r, SaveGone(r) PROVE ConfigIInv'
<1>0. /\ UNCHANGED <<config, loaded, loading, launches>> /\ UNCHANGED <<alive, aliveOnce, online>>
      /\ UNCHANGED <<early, launched, crowded>>
      /\ saves # <<>> /\ saves' = r /\ r \in Seq(Docs) /\ store' \in Docs /\ newest' \in Whereabouts
  BY DEF SaveGone
<1>1. ConfigTypes'
  BY <1>0 DEF ConfigIInv, ConfigTypes
<1>2. SavedLast' /\ Unloaded' /\ StoredIsShown'
  BY DEF SaveGone, ConfigIInv, SavedLast, Unloaded, StoredIsShown
<1>3. OneLaunch'
  BY <1>0 DEF ConfigIInv, OneLaunch
<1>4. FocusedAlive' /\ LaunchedIsRecent'
  BY <1>0 DEF ConfigIInv, FocusedAlive, LaunchedIsRecent
<1> QED
  BY <1>1, <1>2, <1>3, <1>4 DEF ConfigIInv

\* What is left of the saves without the k-th.
SavesLeft(r, k) ==
  /\ r \in Seq(Docs) /\ Len(r) = Len(saves) - 1 /\ saves # <<>> /\ saves[k] \in Docs
  /\ k # Len(saves) => r # <<>> /\ r[Len(r)] = saves[Len(saves)]

LEMMA SaveRemoved ==
  ASSUME ConfigIInv, NEW k \in DOMAIN saves, NEW r, r = RemoveAt(saves, k)
  PROVE  SavesLeft(r, k) /\ newest \in Whereabouts
<1>1. saves \in Seq(Docs) /\ newest \in Whereabouts
  BY DEF ConfigIInv, ConfigTypes
<1>2. PICK n \in Nat : n = Len(saves)
  BY <1>1, LenProperties
<1>3. k \in 1 .. n /\ saves[k] \in Docs /\ saves # <<>>
  BY <1>1, <1>2, LenProperties, ElementOfSeq, EmptySeq
<1>4. r \in Seq(Docs) /\ ClosedUp(r, saves, k, n)
  BY <1>1, <1>2, <1>3, RemovedAt
<1>5. k # n => r # <<>> /\ r[Len(r)] = saves[n]
  BY <1>2, <1>3, <1>4, LastStays
<1> QED
  BY <1>1, <1>2, <1>3, <1>4, <1>5 DEF ClosedUp, SavesLeft

\* A save arrives, whichever it is.
LEMMA SaveArrivesKeeps ==
  ASSUME ConfigIInv, NEW k \in DOMAIN saves, SaveArrives(k)
  PROVE  ConfigIInv'
<1>1. PICK r : r = RemoveAt(saves, k)
  OBVIOUS
<1>2. SavesLeft(r, k) /\ newest \in Whereabouts
  BY <1>1, SaveRemoved
<1>3. /\ newest' \in Whereabouts /\ (newest' = "none" => newest = "none")
      /\ newest' = "sent" => newest = "sent" /\ k # Len(saves)
      /\ newest' = "stored" => newest = "sent" /\ k = Len(saves)
  BY <1>2 DEF SaveArrives, AfterArrival, Whereabouts
<1>4. SaveGone(r)
  BY <1>1, <1>2, <1>3 DEF SaveArrives, SavesLeft, SaveGone, pageVars, aliveVars
<1> QED
  BY <1>4, SaveGoneKeeps

LEMMA SaveFailsKeeps ==
  ASSUME ConfigIInv, NEW k \in DOMAIN saves, SaveFails(k)
  PROVE  ConfigIInv'
<1>1. PICK r : r = RemoveAt(saves, k)
  OBVIOUS
<1>2. SavesLeft(r, k) /\ newest \in Whereabouts /\ store \in Docs
  BY <1>1, SaveRemoved DEF ConfigIInv, ConfigTypes
<1>3. /\ newest' \in Whereabouts /\ (newest' = "none" => newest = "none")
      /\ newest' = "sent" => newest = "sent" /\ k # Len(saves)
      /\ newest' = "stored" => newest = "stored"
  BY <1>2 DEF SaveFails, AfterFailure, Whereabouts
<1>4. SaveGone(r)
  BY <1>1, <1>2, <1>3 DEF SaveFails, SavesLeft, SaveGone, pageVars, aliveVars
<1> QED
  BY <1>4, SaveGoneKeeps

\* Two of them are written at once.
LEMMA SavesMixKeeps ==
  ASSUME ConfigIInv, NEW j \in DOMAIN saves, NEW k \in DOMAIN saves, SavesMix(j, k), NoDoc \in Docs
  PROVE  ConfigIInv'
<1>1. PICK q : q = RemoveAt(saves, k)
  OBVIOUS
<1>2. PICK r : r = RemoveAt(q, j)
  OBVIOUS
<1>3. /\ j < k /\ store' = NoDoc /\ saves' = r
      /\ newest' = IF newest = "sent" /\ k = Len(saves) THEN "unsaved" ELSE AfterArrival(newest, saves, j)
  BY <1>1, <1>2 DEF SavesMix
<1>4. PICK n \in Nat : n = Len(saves)
  BY LenProperties DEF ConfigIInv, ConfigTypes
<1>5. /\ q \in Seq(Docs) /\ Len(q) = n - 1 /\ saves # <<>> /\ newest \in Whereabouts
      /\ k # n => q # <<>> /\ q[Len(q)] = saves[n]
  BY <1>1, <1>4, SaveRemoved DEF SavesLeft
<1>6. k \in 1 .. n /\ j \in 1 .. n /\ n - 1 \in Nat /\ j \in 1 .. (n - 1) /\ (k # n => j # n - 1) /\ j # n
  <2>1. DOMAIN saves = 1 .. n
    BY <1>4, LenProperties DEF ConfigIInv, ConfigTypes
  <2> QED
    BY <1>3, <2>1
<1>7. r \in Seq(Docs) /\ ClosedUp(r, q, j, n - 1)
  BY <1>2, <1>5, <1>6, RemovedAt
<1>8. k # n => r # <<>> /\ r[Len(r)] = saves[n]
  <2>1. j # n - 1 => r # <<>> /\ r[Len(r)] = q[n - 1]
    BY <1>5, <1>6, <1>7, LastStays
  <2> QED
    BY <1>5, <1>6, <2>1
<1>9. /\ newest' \in Whereabouts /\ (newest' = "none" => newest = "none")
      /\ newest' = "sent" => newest = "sent" /\ k # n
      /\ newest' # "stored"
  BY <1>3, <1>4, <1>5, <1>6 DEF AfterArrival, Whereabouts
<1>10. SaveGone(r)
  BY <1>3, <1>4, <1>5, <1>7, <1>8, <1>9 DEF SavesMix, SaveGone, pageVars, aliveVars
<1> QED
  BY <1>10, SaveGoneKeeps

LEMMA EmptyLists == \A E : <<>> \in TidyLists(E) /\ <<>> \in RecentLists(E) /\ \A c : ~ Contains(<<>>, c)
<1>1. PICK e : e = <<>>
  OBVIOUS
<1>2. \A E : e \in Seq(E) /\ Len(e) = 0
  BY <1>1, EmptySeq
<1>3. Once(e) /\ \A c : ~ Contains(e, c)
  BY <1>2 DEF Once, Contains
<1> QED
  BY <1>1, <1>2, <1>3, RecentAssumption DEF TidyLists, RecentLists

LEMMA EmptyIsDoc == NoDoc \in Docs
<1>1. PICK e : e = <<>>
  OBVIOUS
<1> QED
  BY <1>1, EmptyLists DEF NoDoc, Docs

LEMMA ConfigStep == ConfigIInv /\ [ConfigNext]_configVars => ConfigIInv'
<1> SUFFICES ASSUME ConfigIInv, [ConfigNext]_configVars PROVE ConfigIInv'
  OBVIOUS
<1>0. config \in Docs /\ ConfigTypes
  BY DEF ConfigIInv, ConfigTypes
<1>1. CASE ServeConfig
  <2>0. /\ UNCHANGED <<store, config, loaded, saves, newest>> /\ UNCHANGED <<launches, launched>>
        /\ UNCHANGED <<alive, aliveOnce, online>> /\ UNCHANGED <<early, crowded>>
        /\ loading' = [served |-> TRUE, doc |-> store]
    BY <1>1 DEF ServeConfig, aliveVars, saveVars
  <2>1. ConfigTypes'
    BY <1>0, <2>0 DEF ConfigTypes
  <2>2. SavedLast' /\ Unloaded' /\ StoredIsShown'
    BY <2>0 DEF ConfigIInv, SavedLast, Unloaded, StoredIsShown
  <2>3. OneLaunch' /\ FocusedAlive' /\ LaunchedIsRecent'
    BY <2>0 DEF ConfigIInv, OneLaunch, FocusedAlive, LaunchedIsRecent
  <2> QED
    BY <2>1, <2>2, <2>3 DEF ConfigIInv
<1>2. CASE LoadFails
  <2>0. /\ UNCHANGED <<store, loading, saves>> /\ UNCHANGED <<launches, launched>>
        /\ UNCHANGED <<alive, aliveOnce, online>> /\ UNCHANGED crowded
        /\ loaded' = TRUE /\ early' = TRUE
        /\ config' \in {config, NoDoc} /\ newest' = IF config' = config THEN newest ELSE "unsaved"
    BY <1>2 DEF LoadFails, aliveVars
  <2>1. ConfigTypes'
    <3>1. config' \in Docs /\ newest' \in Whereabouts
      BY <1>0, <2>0, EmptyIsDoc DEF ConfigTypes, Whereabouts
    <3> QED
      BY <1>0, <2>0, <3>1 DEF ConfigTypes
  <2>2. SavedLast' /\ Unloaded' /\ StoredIsShown'
    BY <2>0 DEF ConfigIInv, SavedLast, Unloaded, StoredIsShown
  <2>3. FocusedAlive'
    <3>1. Range(NoDoc.focused) = {}
      BY DEF NoDoc, Range
    <3> QED
      BY <2>0, <3>1 DEF ConfigIInv, FocusedAlive
  <2>4. OneLaunch' /\ LaunchedIsRecent'
    BY <2>0 DEF OneLaunch, LaunchedIsRecent
  <2> QED
    BY <2>1, <2>2, <2>3, <2>4 DEF ConfigIInv
<1>3. ASSUME NEW a \in Agents, Focus(a) PROVE ConfigIInv'
  <2>1. PICK doc : doc = [config EXCEPT !.focused = ToggleFocus(@, a)]
    OBVIOUS
  <2>2. doc \in Docs
    BY <1>0, <2>1, ChangesAreDocs
  <2>3. doc.commands = config.commands
    BY <1>0, <2>1 DEF Docs
  <2>4. ChangeOf(doc)
    BY <1>3, <2>1, <2>3 DEF Focus, ChangeOf
  <2> QED
    BY <2>2, <2>4, ChangeKeeps
<1>4. ASSUME NEW p \in Ports, AddPort(p) PROVE ConfigIInv'
  <2>1. PICK doc : doc = [config EXCEPT !.ports = Append(@, p)]
    OBVIOUS
  <2>2. doc \in Docs
    BY <1>0, <1>4, <2>1, ChangesAreDocs DEF AddPort
  <2>3. doc.commands = config.commands
    BY <1>0, <2>1 DEF Docs
  <2>4. ChangeOf(doc)
    BY <1>4, <2>1, <2>3 DEF AddPort, ChangeOf
  <2> QED
    BY <2>2, <2>4, ChangeKeeps
<1>5. ASSUME NEW p \in Ports, RemovePort(p) PROVE ConfigIInv'
  <2>1. PICK doc : doc = [config EXCEPT !.ports = Among(@, Ports \ {p})]
    OBVIOUS
  <2>2. doc \in Docs
    BY <1>0, <2>1, ChangesAreDocs
  <2>3. doc.commands = config.commands
    BY <1>0, <2>1 DEF Docs
  <2>4. ChangeOf(doc)
    BY <1>5, <2>1, <2>3 DEF RemovePort, ChangeOf
  <2> QED
    BY <2>2, <2>4, ChangeKeeps
<1>6. ASSUME NEW f \in Paths, OpenPath(f) PROVE ConfigIInv'
  <2>1. PICK doc : doc = [config EXCEPT !.files = Recent(f, @)]
    OBVIOUS
  <2>2. doc \in Docs
    BY <1>0, <2>1, ChangesAreDocs
  <2>3. doc.commands = config.commands
    BY <1>0, <2>1 DEF Docs
  <2>4. ChangeOf(doc)
    BY <1>6, <2>1, <2>3 DEF OpenPath, ChangeOf
  <2> QED
    BY <2>2, <2>4, ChangeKeeps
<1>7. ASSUME NEW c \in Commands, Launch(c) PROVE ConfigIInv'
  <2>0. /\ UNCHANGED <<store, config, loaded, loading, saves, newest>> /\ UNCHANGED launched
        /\ UNCHANGED <<alive, aliveOnce, online>> /\ UNCHANGED early
        /\ launches' = launches \cup {[command |-> c, recent |-> config.commands]}
        /\ crowded' = (crowded \/ launches # {} \/ ~ loaded)
    BY <1>7 DEF Launch, aliveVars, saveVars
  <2>1. config.commands \in RecentLists(Commands)
    BY <1>0 DEF Docs
  <2>2. launches' \subseteq [command : Commands, recent : RecentLists(Commands)]
    BY <1>0, <2>0, <2>1 DEF ConfigTypes
  <2>3. crowded' \in BOOLEAN
    BY <2>0
  <2>4. ConfigTypes'
    BY <1>0, <2>0, <2>2, <2>3 DEF ConfigTypes
  <2>5. SavedLast' /\ Unloaded' /\ StoredIsShown' /\ FocusedAlive'
    BY <2>0 DEF ConfigIInv, SavedLast, Unloaded, StoredIsShown, FocusedAlive
  <2>6. LaunchedIsRecent'
    BY <2>0 DEF ConfigIInv, LaunchedIsRecent
  <2>7. OneLaunch'
    <3> SUFFICES ASSUME ~ early', ~ crowded'
                 PROVE  /\ ~ loaded' => launches' = {} /\ \A e : ~ Contains(launched', e)
                        /\ \A l \in launches' : /\ l.recent = config'.commands
                                                /\ \A k \in launches' : k = l
      BY DEF OneLaunch
    <3>1. launches = {} /\ loaded'
      BY <2>0
    <3>2. launches' = {[command |-> c, recent |-> config'.commands]}
      BY <2>0, <3>1
    <3> QED
      BY <3>1, <3>2
  <2> QED
    BY <2>4, <2>5, <2>6, <2>7 DEF ConfigIInv
<1>8. CASE UNCHANGED configVars
  <2>0. /\ UNCHANGED <<store, config, loaded, loading, saves, newest>> /\ UNCHANGED <<launches, launched>>
        /\ UNCHANGED <<alive, aliveOnce, online>> /\ UNCHANGED <<early, crowded>>
    BY <1>8 DEF configVars, pageVars, aliveVars, saveVars
  <2>1. ConfigTypes'
    BY <1>0, <2>0 DEF ConfigTypes
  <2>2. SavedLast' /\ Unloaded' /\ StoredIsShown'
    BY <2>0 DEF ConfigIInv, SavedLast, Unloaded, StoredIsShown
  <2>3. OneLaunch' /\ FocusedAlive' /\ LaunchedIsRecent'
    BY <2>0 DEF ConfigIInv, OneLaunch, FocusedAlive, LaunchedIsRecent
  <2> QED
    BY <2>1, <2>2, <2>3 DEF ConfigIInv
<1> QED
  BY <1>1, <1>2, <1>3, <1>4, <1>5, <1>6, <1>7, <1>8, LoadedKeeps, SaveArrivesKeeps, SaveFailsKeeps,
     SavesMixKeeps, EmptyIsDoc, ListedKeeps, CreatedKeeps DEF ConfigNext

LEMMA ConfigInitially == ConfigInit => ConfigIInv
<1> SUFFICES ASSUME ConfigInit PROVE ConfigIInv
  OBVIOUS
<1>1. PICK e : e = <<>>
  OBVIOUS
<1>2. e \in RecentLists(Commands) /\ \A c : ~ Contains(e, c)
  BY <1>1, EmptyLists
<1>3. NoDoc \in Docs /\ <<>> \in Seq(Docs)
  BY EmptyIsDoc, EmptySeq
<1>4. store \in Docs
  BY StoredAreTidy DEF ConfigInit
<1>5. ConfigTypes
  BY <1>1, <1>2, <1>3, <1>4 DEF ConfigInit, ConfigTypes, Whereabouts
<1>6. SavedLast /\ Unloaded /\ StoredIsShown /\ FocusedAlive /\ LaunchedIsRecent
  BY DEF ConfigInit, SavedLast, Unloaded, StoredIsShown, FocusedAlive, LaunchedIsRecent
<1>7. OneLaunch
  BY <1>1, <1>2 DEF ConfigInit, OneLaunch
<1> QED
  BY <1>5, <1>6, <1>7 DEF ConfigIInv

LEMMA ConfigImplied == ConfigIInv => ConfigInv
<1> SUFFICES ASSUME ConfigIInv PROVE ConfigInv
  OBVIOUS
<1>1. ConfigTypes
  BY DEF ConfigIInv
<1>2. Range(saves) \subseteq Docs
  BY <1>1, RangeOfSeq DEF ConfigTypes
<1>3. \A d \in Docs : d \in Doc
  BY TidyDocs
<1>4. {store, config} \cup Range(saves) \subseteq Doc
  BY <1>1, <1>2, <1>3 DEF ConfigTypes
<1>5. (\A f \in DOMAIN config : IsInjective(config[f]))
      /\ \A f \in {"commands", "files"} : Len(config[f]) <= MaxRecent
  BY <1>1, TidyDocs DEF ConfigTypes
<1>6. {loaded, aliveOnce, online, early, crowded, loading.served} \subseteq BOOLEAN
      /\ alive \subseteq Agents /\ newest \in Whereabouts
  BY <1>1 DEF ConfigTypes
<1>7. StoredIsShown
  BY DEF ConfigIInv
<1> QED
  BY <1>4, <1>5, <1>6, <1>7 DEF ConfigIInv, ConfigInv, ConfigTypeOK

\* What a step keeps of the agents that are watched.
WatchedHold ==
  \A a \in Range(Watched) :
    loaded' /\ ~ early' /\ ~ Contains(config'.focused, a) =>
      (aliveOnce' /\ online' /\ a \notin alive') \/ Focus(a)

\* What became of the watched agents that doc has.
StillWatched(doc) ==
  \A a : Contains(doc.focused, a) =>
    Contains(config'.focused, a) \/ (aliveOnce' /\ online' /\ a \notin alive')

LEMMA UpdateWatches ==
  ASSUME ConfigTypes, NEW doc \in Docs, Update(doc), UNCHANGED aliveVars
  PROVE  StillWatched(doc)
<1>1. PICK next : next = Settle(doc, alive, aliveOnce, online)
  OBVIOUS
<1>2. SettledDoc(next, doc, alive, aliveOnce, online)
  BY <1>1, SettleKeeps DEF ConfigTypes
<1>3. config' = next /\ UNCHANGED <<alive, aliveOnce, online>>
  BY <1>1 DEF Update, aliveVars
<1> QED
  BY <1>2, <1>3 DEF SettledDoc, StillWatched

\* Who clicks on an agent clicks on no other.
LEMMA OthersStayFocused ==
  ASSUME NEW s \in TidyLists(Agents), NEW a, NEW b, a # b, Contains(s, b)
  PROVE  Contains(ToggleFocus(s, a), b)
<1>1. s \in Seq(Agents)
  BY DEF TidyLists
<1>2. PICK n \in Nat : n = Len(s)
  BY <1>1, LenProperties
<1>3. b \in Agents
  BY <1>1, <1>2, ElementOfSeq DEF Contains
<1>4. CASE Contains(s, a)
  <2>1. PICK r : r = Among(s, Agents \ {a})
    OBVIOUS
  <2>2. Contains(r, b)
    <3>1. Filtered(r, Agents, s, Agents \ {a})
      BY <1>1, <2>1, AmongProperties
    <3>2. PICK i \in 1 .. n : s[i] = b
      BY <1>2 DEF Contains
    <3>3. s[i] \in Agents \ {a}
      BY <1>3, <3>2
    <3>4. \E j \in 1 .. Len(r) : r[j] = b
      BY <1>2, <3>1, <3>2, <3>3 DEF Filtered
    <3> QED
      BY <3>4 DEF Contains
  <2> QED
    BY <1>4, <2>1, <2>2 DEF ToggleFocus
<1>5. CASE ~ Contains(s, a)
  <2>1. Contains(Append(s, a), b)
    <3>1. PICK i \in 1 .. n : s[i] = b
      BY <1>2 DEF Contains
    <3>2. i \in 1 .. Len(Append(s, a)) /\ Append(s, a)[i] = b
      BY <1>1, <1>2, <3>1
    <3> QED
      BY <3>2 DEF Contains
  <2> QED
    BY <1>5, <2>1 DEF ToggleFocus
<1> QED
  BY <1>4, <1>5

LEMMA WatchedStep == ConfigIInv /\ [ConfigNext]_configVars => [WatchedHold]_configVars
<1> SUFFICES ASSUME ConfigIInv, ConfigNext PROVE WatchedHold
  OBVIOUS
<1>0. /\ ConfigTypes /\ config \in Docs /\ config.focused \in Seq(Agents)
      /\ config.focused \in TidyLists(Agents)
  BY DEF ConfigIInv, ConfigTypes, Docs, TidyLists
<1>1. loaded => \A a \in Range(Watched) : Contains(config.focused, a)
  BY <1>0 DEF Watched, Range, Contains
<1>2. CASE ServeConfig
  BY <1>2 DEF ServeConfig, WatchedHold
<1>3. ASSUME NEW k \in DOMAIN saves,
             SaveArrives(k) \/ SaveFails(k) \/ \E j \in DOMAIN saves : SavesMix(j, k)
      PROVE  WatchedHold
  <2>1. UNCHANGED <<config, loaded>>
    BY <1>3 DEF SaveArrives, SaveFails, SavesMix, pageVars
  <2> QED
    BY <1>1, <2>1 DEF WatchedHold
<1>4. CASE Loaded
  <2>1. PICK doc : doc = loading.doc
    OBVIOUS
  <2>2. PICK next : next = Settle(doc, alive, aliveOnce, online)
    OBVIOUS
  <2>3. doc \in Docs
    BY <2>1 DEF ConfigIInv, ConfigTypes
  <2>4. SettledDoc(next, doc, alive, aliveOnce, online)
    BY <2>2, <2>3, SettleKeeps DEF ConfigIInv, ConfigTypes
  <2>5. config' = next /\ UNCHANGED <<alive, aliveOnce, online>> /\ ~ loaded
    BY <1>4, <2>1, <2>2 DEF Loaded, aliveVars
  <2>6. doc.focused \in Seq(Agents)
    BY <2>3 DEF Docs, TidyLists
  <2>7. \A a \in Range(Watched) : Contains(doc.focused, a)
    BY <2>1, <2>5, <2>6 DEF Watched, Range, Contains
  <2> QED
    BY <2>4, <2>5, <2>7 DEF SettledDoc, WatchedHold
<1>5. ASSUME NEW l \in launches, NEW ok \in BOOLEAN, Created(l, ok) PROVE WatchedHold
  <2>1. UNCHANGED aliveVars /\ UNCHANGED loaded
    BY <1>5 DEF Created
  <2>2. CASE ~ ok
    <3>1. UNCHANGED config
      BY <1>5, <2>2 DEF Created
    <3> QED
      BY <1>1, <2>1, <3>1 DEF WatchedHold
  <2>3. CASE ok
    <3>1. l.command \in Commands /\ l.recent \in RecentLists(Commands)
      BY DEF ConfigIInv, ConfigTypes
    <3>2. PICK r : r = Recent(l.command, l.recent)
      OBVIOUS
    <3>3. RecentlyIn(r, Commands, l.recent, l.command)
      BY <3>1, <3>2, RecentKeeps
    <3>4. PICK doc : doc = [config EXCEPT !.commands = r]
      OBVIOUS
    <3>5. doc \in Docs /\ doc.focused = config.focused
      BY <1>0, <3>3, <3>4 DEF Docs, RecentlyIn
    <3>6. Update(doc)
      BY <1>5, <2>3, <3>2, <3>4 DEF Created
    <3>7. StillWatched(doc)
      BY <1>0, <2>1, <3>5, <3>6, UpdateWatches
    <3> QED
      BY <1>1, <2>1, <3>5, <3>7 DEF StillWatched, WatchedHold
  <2> QED
    BY <2>2, <2>3
<1>6. CASE LoadFails
  BY <1>6 DEF LoadFails, WatchedHold
<1>7. ASSUME NEW live \in SUBSET Agents, NEW up \in BOOLEAN, Listed(live, up) PROVE WatchedHold
  <2>1. /\ alive' = (IF up THEN live ELSE alive) /\ aliveOnce' = (aliveOnce \/ up) /\ online' = up
        /\ UNCHANGED loaded
    BY <1>7 DEF Listed
  <2>2. PICK next : next = Settle(config, alive', aliveOnce', up)
    OBVIOUS
  <2>3. alive' \subseteq Agents /\ aliveOnce' \in BOOLEAN
    BY <2>1 DEF ConfigIInv, ConfigTypes
  <2>4. SettledDoc(next, config, alive', aliveOnce', up)
    BY <1>0, <2>2, <2>3, SettleKeeps
  <2>5. config' = next
    BY <1>7, <2>2 DEF Listed
  <2> QED
    BY <1>1, <2>1, <2>4, <2>5 DEF SettledDoc, WatchedHold
<1>8. ASSUME NEW a \in Agents, Focus(a) PROVE WatchedHold
  <2>1. PICK doc : doc = [config EXCEPT !.focused = ToggleFocus(@, a)]
    OBVIOUS
  <2>2. doc \in Docs
    BY <1>0, <2>1, ChangesAreDocs
  <2>3. doc.focused = ToggleFocus(config.focused, a)
    BY <1>0, <2>1 DEF Docs
  <2>4. Update(doc) /\ UNCHANGED aliveVars /\ UNCHANGED loaded
    BY <1>8, <2>1 DEF Focus
  <2>5. StillWatched(doc)
    BY <1>0, <2>2, <2>4, UpdateWatches
  <2>6. loaded => \A b \in Range(Watched) : b = a \/ Contains(doc.focused, b)
    BY <1>0, <1>1, <2>3, OthersStayFocused
  <2> QED
    BY <1>8, <2>4, <2>5, <2>6 DEF StillWatched, WatchedHold
<1>9. ASSUME NEW doc \in Docs, doc.focused = config.focused, Update(doc), UNCHANGED aliveVars, UNCHANGED loaded
      PROVE  WatchedHold
  <2>1. StillWatched(doc)
    BY <1>0, <1>9, UpdateWatches
  <2> QED
    BY <1>1, <1>9, <2>1 DEF StillWatched, WatchedHold
<1>10. ASSUME NEW p \in Ports, AddPort(p) PROVE WatchedHold
  <2>1. PICK doc : doc = [config EXCEPT !.ports = Append(@, p)]
    OBVIOUS
  <2>2. doc \in Docs
    BY <1>0, <1>10, <2>1, ChangesAreDocs DEF AddPort
  <2>3. doc.focused = config.focused
    BY <1>0, <2>1 DEF Docs
  <2> QED
    BY <1>9, <1>10, <2>1, <2>2, <2>3 DEF AddPort
<1>11. ASSUME NEW p \in Ports, RemovePort(p) PROVE WatchedHold
  <2>1. PICK doc : doc = [config EXCEPT !.ports = Among(@, Ports \ {p})]
    OBVIOUS
  <2>2. doc \in Docs
    BY <1>0, <2>1, ChangesAreDocs
  <2>3. doc.focused = config.focused
    BY <1>0, <2>1 DEF Docs
  <2> QED
    BY <1>9, <1>11, <2>1, <2>2, <2>3 DEF RemovePort
<1>12. ASSUME NEW f \in Paths, OpenPath(f) PROVE WatchedHold
  <2>1. PICK doc : doc = [config EXCEPT !.files = Recent(f, @)]
    OBVIOUS
  <2>2. doc \in Docs
    BY <1>0, <2>1, ChangesAreDocs
  <2>3. doc.focused = config.focused
    BY <1>0, <2>1 DEF Docs
  <2> QED
    BY <1>9, <1>12, <2>1, <2>2, <2>3 DEF OpenPath
<1>13. ASSUME NEW c \in Commands, Launch(c) PROVE WatchedHold
  <2>1. UNCHANGED <<config, loaded>>
    BY <1>13 DEF Launch
  <2> QED
    BY <1>1, <2>1 DEF WatchedHold
<1> QED
  BY <1>2, <1>3, <1>4, <1>5, <1>6, <1>7, <1>8, <1>10, <1>11, <1>12, <1>13 DEF ConfigNext

-----------------------------------------------------------------------------
(* CardStack *)

\* What indexOf finds.
LEMMA PlaceIs ==
  ASSUME NEW E, NEW s \in Seq(E), NEW e, NEW n \in Nat, n = Len(s), NEW p, p = Place(s, e)
  PROVE  IF Contains(s, e) THEN p \in 1 .. n /\ s[p] = e ELSE p = 0
<1>1. PICK at : at = {i \in 1 .. n : s[i] = e}
  OBVIOUS
<1>2. p = IF at = {} THEN 0 ELSE CHOOSE i \in at : \A j \in at : i <= j
  BY <1>1 DEF Place
<1>3. CASE at = {}
  BY <1>1, <1>2, <1>3 DEF Contains
<1>4. CASE at # {}
  <2>1. at \in SUBSET Nat
    BY <1>1
  <2>2. \E i \in at : \A j \in at : i <= j
    BY <1>4, <2>1, LeastNat
  <2>3. p \in at
    BY <1>2, <1>4, <2>2
  <2> QED
    BY <1>1, <2>3 DEF Contains
<1> QED
  BY <1>3, <1>4

\* Without one entry, those behind it move up.
LEMMA OneOut ==
  ASSUME NEW E, NEW s \in Seq(E), NEW n \in Nat, n = Len(s), NEW g \in 1 .. n, NEW S,
         s[g] \notin S, \A i \in 1 .. n : i # g => s[i] \in S, NEW r, r = Among(s, S)
  PROVE  ClosedUp(r, s, g, n)
<1>1. \E f : Filtering(f, E, s, S, n)
  BY AmongSteps
<1>2. PICK f : Filtering(f, E, s, S, n)
  BY <1>1
<1>3. /\ f \in [0 .. n -> Seq(E)] /\ f[0] = <<>> /\ f[n] = r
      /\ \A i \in 1 .. n : f[i] = IF s[i] \in S THEN Append(f[i - 1], s[i]) ELSE f[i - 1]
  BY <1>2 DEF Filtering
<1>4. \A i \in 1 .. n : s[i] \in E
  BY ElementOfSeq
<1> DEFINE Early(k) == Len(f[k]) = k /\ \A i \in 1 .. k : f[k][i] = s[i]
           Late(k)  == ClosedUp(f[k], s, g, k)
           Done(k)  == (k < g => Early(k)) /\ (g <= k => Late(k))
<1>5. Done(0)
  <2>1. Len(f[0]) = 0
    BY <1>3, EmptySeq
  <2> QED
    BY <2>1
<1>6. ASSUME NEW k \in 1 .. n, Done(k - 1) PROVE Done(k)
  <2>0. k - 1 \in 0 .. n /\ k \in 0 .. n
    OBVIOUS
  <2>1. PICK q \in Seq(E) : q = f[k - 1]
    BY <1>3, <2>0
  <2>2. PICK t : t = f[k]
    OBVIOUS
  <2>3. PICK e \in E : e = s[k]
    BY <1>4
  <2>4. PICK m \in Nat : m = Len(q)
    BY <2>1, LenProperties
  <2>5. k # g => t = Append(q, e)
    BY <1>3, <2>1, <2>2, <2>3
  <2>6. k # g => Longer(t, q, e, m)
    BY <2>1, <2>3, <2>4, <2>5, Appended
  <2>7. CASE k < g
    <3>1. m = k - 1 /\ \A i \in 1 .. (k - 1) : q[i] = s[i]
      BY <1>6, <2>1, <2>4, <2>7
    <3>2. Len(t) = k /\ t[k] = e /\ \A i \in 1 .. (k - 1) : t[i] = s[i]
      <4>1. m + 1 = k /\ k # g
        BY <2>7, <3>1
      <4>2. Len(t) = k /\ t[k] = e /\ \A i \in 1 .. (k - 1) : t[i] = q[i]
        BY <2>6, <3>1, <4>1 DEF Longer
      <4> QED
        BY <3>1, <4>2
    <3>3. \A i \in 1 .. k : i = k \/ i \in 1 .. (k - 1)
      OBVIOUS
    <3>4. Early(k)
      BY <2>2, <2>3, <3>2, <3>3
    <3> QED
      BY <2>7, <3>4
  <2>8. CASE k = g
    <3>1. t = q /\ k - 1 < g
      BY <1>3, <2>1, <2>2, <2>8
    <3>2. Early(k - 1)
      BY <1>6, <3>1
    <3>3. Len(t) = k - 1 /\ \A i \in 1 .. (k - 1) : t[i] = s[i]
      BY <2>1, <3>1, <3>2
    <3>4. \A i \in 1 .. (k - 1) : i < g
      BY <2>8
    <3>5. Late(k)
      BY <2>2, <3>3, <3>4 DEF ClosedUp
    <3> QED
      BY <2>8, <3>5
  <2>9. CASE g < k
    <3>1. m = k - 2 /\ \A i \in 1 .. (k - 2) : q[i] = IF i < g THEN s[i] ELSE s[i + 1]
      <4>1. Late(k - 1)
        BY <1>6, <2>9
      <4>2. (k - 1) - 1 = k - 2
        OBVIOUS
      <4> QED
        BY <2>1, <2>4, <4>1, <4>2 DEF ClosedUp
    <3>2. m + 1 = k - 1 /\ k # g
      BY <2>9, <3>1
    <3>3. Len(t) = k - 1 /\ t[k - 1] = e /\ \A i \in 1 .. (k - 2) : t[i] = q[i]
      BY <2>6, <3>1, <3>2 DEF Longer
    <3>4. \A i \in 1 .. (k - 1) : (i = k - 1 /\ ~ (i < g) /\ i + 1 = k) \/ i \in 1 .. (k - 2)
      BY <2>9
    <3>5. Late(k)
      BY <2>2, <2>3, <3>1, <3>3, <3>4 DEF ClosedUp
    <3> QED
      BY <2>9, <3>5
  <2> QED
    BY <2>7, <2>8, <2>9
<1> HIDE DEF Done
<1> DEFINE T == {k \in 0 .. n : ~ Done(k)}
<1>7. ASSUME T # {} PROVE FALSE
  <2>1. T \in SUBSET Nat
    OBVIOUS
  <2> HIDE DEF T
  <2>2. PICK k \in T : \A j \in T : k <= j
    BY <1>7, <2>1, LeastNat
  <2>3. k \in 0 .. n /\ ~ Done(k)
    BY <2>2 DEF T
  <2>4. k \in 1 .. n /\ k - 1 \in 0 .. n /\ ~ (k <= k - 1)
    BY <1>5, <2>3
  <2>5. Done(k - 1)
    BY <2>2, <2>4 DEF T
  <2> QED
    BY <1>6, <2>3, <2>4, <2>5
<1>8. Done(n)
  BY <1>7
<1> QED
  BY <1>3, <1>8 DEF Done

\* A stack that a page can have: some card is active as long as there are any.
Stacked(deck, i) ==
  /\ deck \in Seq(Cards) /\ Once(deck)
  /\ i \in 0 .. Len(deck) /\ (i = 0 <=> deck = <<>>)

Removal(w, deck, i, c) ==
  /\ Stacked(w.cards, w.active) /\ Len(w.cards) <= Len(deck)
  /\ \A e \in Cards : Contains(w.cards, e) <=> Contains(deck, e) /\ e # c
  /\ LET now == ActiveCard(deck, i)
     IN now # NoCard /\ Contains(w.cards, now) /\ Len(w.cards) < Len(deck)
          => ActiveCard(w.cards, w.active) = now

\* What is left in front of the user when a card is taken off.
LEMMA RemovalKeeps ==
  ASSUME Stacked(cards, active), NEW c \in Cards, NEW w, w = WithoutCard(c)
  PROVE  Removal(w, cards, active, c)
<1>0. PICK s \in Seq(Cards) : s = cards
  BY DEF Stacked
<1>1. PICK n \in Nat : n = Len(s)
  BY <1>0, LenProperties
<1>2. PICK a \in 0 .. n : a = active
  BY <1>0, <1>1 DEF Stacked
<1>3. Listing(s, Cards) /\ (a = 0 <=> n = 0)
  BY <1>0, <1>1, <1>2, EmptySeq DEF Stacked, Listing
<1>4. PICK g : g = Place(s, c)
  OBVIOUS
<1>5. IF Contains(s, c) THEN g \in 1 .. n /\ s[g] = c ELSE g = 0
  BY <1>0, <1>1, <1>4, PlaceIs
<1>6. PICK S : S = Cards \ {c}
  OBVIOUS
<1>7. PICK r : r = Among(s, S)
  OBVIOUS
<1>8. Pruned(r, Cards, s, S)
  BY <1>3, <1>7, AmongPrunes
<1>9. Listing(r, Cards) /\ r \in Seq(Cards) /\ Once(r)
  BY <1>8 DEF Pruned, Listing
<1>10. PICK m \in Nat : m = Len(r)
  BY <1>9, LenProperties
<1>11. r = <<>> <=> m = 0
  BY <1>9, <1>10, EmptySeq
<1>12. PICK b : b = w.active
  OBVIOUS
<1>13. /\ w.cards = r
       /\ b = IF g = 0 THEN a
              ELSE IF m = 0 THEN 0
              ELSE IF g < a THEN a - 1
              ELSE IF g = a /\ a > m THEN m
              ELSE a
  BY <1>0, <1>2, <1>4, <1>6, <1>7, <1>10, <1>11, <1>12 DEF WithoutCard
<1>14. \A i \in 1 .. n : s[i] \in Cards
  BY <1>0, <1>1, ElementOfSeq
<1>15. \A e \in Cards : Contains(r, e) <=> Contains(s, e) /\ e # c
  BY <1>6, <1>8 DEF Pruned
<1>16. CASE g = 0
  <2>1. ~ Contains(s, c)
    BY <1>5, <1>16
  <2>2. m = n
    <3>1. \A i \in 1 .. Len(s) : s[i] \in S \/ s[i] = c
      BY <1>1, <1>6, <1>14
    <3> QED
      BY <1>1, <1>3, <1>7, <1>10, <2>1, <3>1, OneLess
  <2>3. Stacked(r, b)
    BY <1>2, <1>3, <1>9, <1>10, <1>11, <1>13, <1>16, <2>2 DEF Stacked
  <2> QED
    BY <1>0, <1>1, <1>10, <1>12, <1>13, <1>15, <2>2, <2>3 DEF Removal
<1>17. CASE g # 0
  <2>1. g \in 1 .. n /\ s[g] = c
    BY <1>5, <1>17
  <2>2. \A i \in 1 .. n : i # g => s[i] \in S
    BY <1>3, <1>6, <1>14, <1>1, <2>1 DEF Listing, Once
  <2>3. ClosedUp(r, s, g, n)
    BY <1>0, <1>1, <1>6, <1>7, <2>1, <2>2, OneOut
  <2>4. m = n - 1 /\ \A i \in 1 .. (n - 1) : r[i] = IF i < g THEN s[i] ELSE s[i + 1]
    BY <1>10, <2>3 DEF ClosedUp
  <2>5. b \in 0 .. m /\ (b = 0 <=> m = 0)
    BY <1>1, <1>2, <1>3, <1>13, <1>17, <2>1, <2>4
  <2>6. Stacked(r, b)
    BY <1>9, <1>10, <1>11, <2>5 DEF Stacked
  <2>7. ASSUME a \in 1 .. n, s[a] # c, m # 0 PROVE b \in 1 .. m /\ r[b] = s[a]
    <3>1. a # g
      BY <2>1, <2>7
    <3>2. CASE g < a
      <4>1. b = a - 1 /\ b \in 1 .. (n - 1) /\ ~ (b < g) /\ b + 1 = a
        BY <1>13, <1>17, <2>1, <2>7, <3>2
      <4> QED
        BY <2>4, <4>1
    <3>3. CASE a < g
      <4>1. b = a /\ b \in 1 .. (n - 1) /\ b < g
        BY <1>13, <1>17, <2>1, <2>7, <3>3
      <4> QED
        BY <2>4, <4>1
    <3> QED
      BY <1>2, <2>1, <3>1, <3>2, <3>3
  <2>8. PICK now : now = ActiveCard(s, a)
    OBVIOUS
  <2>9. ASSUME now # NoCard, Contains(r, now) PROVE ActiveCard(r, b) = now
    <3>1. a \in 1 .. n /\ now = s[a]
      BY <1>0, <1>1, <2>8, <2>9 DEF ActiveCard
    <3>2. s[a] # c
      BY <1>14, <1>15, <2>9, <3>1
    <3>3. m # 0
      BY <1>10, <2>9 DEF Contains
    <3>4. b \in 1 .. m /\ r[b] = s[a]
      BY <2>7, <3>1, <3>2, <3>3
    <3>5. b \in DOMAIN r
      BY <1>9, <1>10, <3>4
    <3> QED
      BY <3>1, <3>4, <3>5 DEF ActiveCard
  <2>10. Len(r) <= Len(s)
    BY <1>1, <1>10, <2>4
  <2> QED
    BY <1>0, <1>2, <1>12, <1>13, <1>15, <2>6, <2>8, <2>9, <2>10 DEF Removal
<1> QED
  BY <1>16, <1>17

\* The stack and the counts of its cards.
StackShown ==
  /\ Stacked(cards, active)
  /\ view \in {"card", "overview"}
  /\ unread \in [Cards -> Nat] /\ bursts \subseteq Cards
  /\ Viewed # NoCard => unread[Viewed] = 0
  /\ \A c \in Cards : c \in bursts \/ unread[c] > 0 => Contains(cards, c)

StackRest ==
  /\ listed \subseteq Cards /\ running \subseteq Cards /\ menu \in Cards \cup {NoCard}
  /\ \A m \in making : m.id \in Cards
  /\ \A d \in deleting : d.id \in Cards

\* A finger has opened one thing at most, and nothing as long as it may still open the other.
Touched ==
  /\ touch.on \in Cards \cup {NoCard}
  /\ touch.timer => ~ touch.fired
  /\ touch.on # NoCard /\ ~ touch.fired => touch.opened = {}
  /\ touch = [on |-> touch.on, timer |-> touch.timer, fired |-> touch.fired, opened |-> touch.opened]
  /\ touch.opened = {} \/ touch.opened = {"card"} \/ touch.opened = {"menu"}

StackIInv == StackShown /\ StackRest /\ Touched

\* What the page shows when it shows one card or all of them: its card is read.
LEMMA LookKeeps ==
  ASSUME StackShown, NEW deck, NEW i, NEW v \in {"card", "overview"}, Stacked(deck, i),
         \A c \in Cards : Contains(cards, c) => Contains(deck, c),
         Look(deck, i, v), UNCHANGED bursts
  PROVE  StackShown'
<1>1. PICK viewed : viewed = IF v = "card" THEN ActiveCard(deck, i) ELSE NoCard
  OBVIOUS
<1>2. /\ cards' = deck /\ active' = i /\ view' = v
      /\ unread' = [c \in Cards |-> IF c = viewed THEN 0 ELSE unread[c]]
  BY <1>1 DEF Look
<1>3. Viewed' = viewed
  BY <1>1, <1>2 DEF Viewed, Current
<1>4. viewed # NoCard => viewed \in Cards
  <2> SUFFICES ASSUME viewed # NoCard PROVE viewed \in Cards
    OBVIOUS
  <2>1. i \in DOMAIN deck /\ viewed = deck[i] /\ deck \in Seq(Cards)
    BY <1>1 DEF ActiveCard, Stacked
  <2> QED
    BY <2>1
<1>5. Viewed' # NoCard => unread'[Viewed'] = 0
  BY <1>2, <1>3, <1>4
<1>6. unread' \in [Cards -> Nat] /\ \A c \in Cards : unread'[c] > 0 => unread[c] > 0
  BY <1>2 DEF StackShown
<1>7. Stacked(cards', active')
  BY <1>2
<1> QED
  BY <1>2, <1>5, <1>6, <1>7 DEF StackShown

LEMMA AddKeeps ==
  ASSUME StackShown, NEW c \in Cards, AddCard(c), UNCHANGED bursts
  PROVE  StackShown'
<1>0. PICK s \in Seq(Cards) : s = cards
  BY DEF StackShown, Stacked
<1>1. PICK n \in Nat : n = Len(s)
  BY <1>0, LenProperties
<1>2. Listing(s, Cards) /\ Once(s)
  BY <1>0 DEF StackShown, Stacked, Listing
<1>3. "card" \in {"card", "overview"}
  OBVIOUS
<1>4. CASE Contains(cards, c)
  <2>1. PICK p : p = Place(s, c)
    OBVIOUS
  <2>2. p \in 1 .. n /\ s[p] = c
    BY <1>0, <1>1, <1>4, <2>1, PlaceIs
  <2>3. p \in 0 .. n /\ p # 0 /\ n # 0
    BY <2>2
  <2>4. s # <<>>
    BY <1>1, <2>3, EmptySeq
  <2>5. Stacked(s, p)
    BY <1>0, <1>1, <1>2, <2>3, <2>4 DEF Stacked
  <2>6. Look(s, p, "card")
    BY <1>0, <1>4, <2>1 DEF AddCard
  <2> QED
    BY <1>0, <1>3, <2>5, <2>6, LookKeeps
<1>5. CASE ~ Contains(cards, c)
  <2>1. PICK q : q = Append(s, c)
    OBVIOUS
  <2>2. Added(q, Cards, s, c)
    BY <1>0, <1>2, <1>5, <2>1, AppendAdds
  <2>3. PICK k \in Nat : k = n + 1
    OBVIOUS
  <2>4. Listing(q, Cards) /\ Len(q) = k /\ \A x : Contains(s, x) => Contains(q, x)
    BY <1>1, <2>2, <2>3 DEF Added
  <2>5. k \in 0 .. k /\ k # 0
    BY <2>3
  <2>6. q # <<>>
    BY <2>4, <2>5, EmptySeq
  <2>7. Stacked(q, k)
    BY <2>4, <2>5, <2>6 DEF Stacked, Listing
  <2>8. Look(q, k, "card")
    BY <1>0, <1>1, <1>5, <2>1, <2>3 DEF AddCard
  <2> QED
    BY <1>0, <1>3, <2>4, <2>7, <2>8, LookKeeps
<1> QED
  BY <1>4, <1>5

LEMMA RemoveKeeps ==
  ASSUME StackShown, NEW c \in Cards, RemoveCard(c)
  PROVE  StackShown'
<1>1. PICK w : w = WithoutCard(c)
  OBVIOUS
<1>2. Removal(w, cards, active, c)
  BY <1>1, RemovalKeeps DEF StackShown
<1>3. PICK viewed : viewed = IF view = "card" THEN ActiveCard(w.cards, w.active) ELSE NoCard
  OBVIOUS
<1>4. /\ cards' = w.cards /\ active' = w.active /\ view' = view /\ bursts' = bursts \ {c}
      /\ unread' = [d \in Cards |-> IF d \in {c, viewed} THEN 0 ELSE unread[d]]
  BY <1>1, <1>3 DEF RemoveCard
<1>5. Viewed' = viewed
  BY <1>3, <1>4 DEF Viewed, Current
<1>6. Stacked(w.cards, w.active)
  BY <1>2 DEF Removal
<1>7. viewed # NoCard => viewed \in Cards
  <2> SUFFICES ASSUME viewed # NoCard PROVE viewed \in Cards
    OBVIOUS
  <2>1. w.active \in DOMAIN w.cards /\ viewed = w.cards[w.active] /\ w.cards \in Seq(Cards)
    BY <1>3, <1>6 DEF ActiveCard, Stacked
  <2> QED
    BY <2>1
<1>8. Viewed' # NoCard => unread'[Viewed'] = 0
  BY <1>4, <1>5, <1>7
<1>9. unread' \in [Cards -> Nat] /\ \A d \in Cards : unread'[d] > 0 => unread[d] > 0 /\ d # c
  BY <1>4 DEF StackShown
<1>10. \A d \in Cards : d \in bursts' \/ unread'[d] > 0 => Contains(cards', d)
  <2>1. \A d \in Cards : d \in bursts' => d \in bursts /\ d # c
    BY <1>4
  <2>2. \A d \in Cards : Contains(cards, d) /\ d # c => Contains(cards', d)
    BY <1>2, <1>4 DEF Removal
  <2> QED
    BY <1>9, <2>1, <2>2 DEF StackShown
<1>11. Stacked(cards', active')
  BY <1>4, <1>6
<1> QED
  BY <1>4, <1>8, <1>9, <1>10, <1>11 DEF StackShown

\* A step that leaves the stack and the counts alone.
LEMMA ShownStays == ASSUME StackShown, UNCHANGED <<stackVars, countVars>> PROVE StackShown'
<1>1. UNCHANGED <<cards, active, view, unread, bursts>>
  BY DEF stackVars, countVars
<1>2. UNCHANGED Viewed
  BY <1>1 DEF Viewed, Current
<1> QED
  BY <1>1, <1>2 DEF StackShown

\* A set as a list.
LEMMA ListOfSet ==
  ASSUME NEW E, IsFiniteSet(E), NEW S \in SUBSET E, NEW q, q = SetToSeq(S)
  PROVE  /\ Listing(q, E) /\ \A c \in S : Contains(q, c)
         /\ \A i \in 1 .. Len(q) : q[i] \in S
<1>1. IsFiniteSet(S)
  BY FS_Subset
<1>2. PICK n \in Nat : n = Cardinality(S)
  BY <1>1, FS_CardinalityType
<1>3. ExistsBijection(1 .. n, S)
  BY <1>1, <1>2, FS_CardinalityType
<1>4. PICK f \in [1 .. n -> S] : IsInjective(f)
  BY <1>3 DEF ExistsBijection, Bijection, Injection
<1>5. q \in [1 .. n -> S] /\ IsInjective(q)
  BY <1>2, <1>4 DEF SetToSeq
<1>6. \A c \in S : \E i \in 1 .. n : q[i] = c
  <2>1. q \in Injection(1 .. n, S)
    BY <1>5 DEF Injection
  <2>2. IsFiniteSet(1 .. n) /\ Cardinality(1 .. n) = n
    BY <1>2, FS_Interval
  <2>3. q \in Surjection(1 .. n, S)
    BY <1>1, <1>2, <2>1, <2>2, FS_Injection
  <2> QED
    BY <2>3 DEF Surjection
<1>7. q \in Seq(E) /\ Len(q) = n
  BY <1>5
<1>8. Once(q)
  BY <1>5, <1>7 DEF IsInjective, Once
<1>9. \A i \in 1 .. n : q[i] \in S
  BY <1>5
<1> QED
  BY <1>2, <1>6, <1>7, <1>8, <1>9 DEF Listing, Contains

\* Two lists that share nothing, one behind the other.
Joined(q, s, t, E) ==
  /\ Listing(q, E) /\ Len(q) = Len(s) + Len(t)
  /\ \A e : Contains(q, e) <=> Contains(s, e) \/ Contains(t, e)

LEMMA JoinKeeps ==
  ASSUME NEW E, NEW s, NEW t, Listing(s, E), Listing(t, E), \A e : ~ (Contains(s, e) /\ Contains(t, e)),
         NEW q, q = s \o t
  PROVE  Joined(q, s, t, E)
<1>0. s \in Seq(E) /\ t \in Seq(E) /\ Once(s) /\ Once(t)
  BY DEF Listing
<1>1. PICK n \in Nat : n = Len(s)
  BY <1>0, LenProperties
<1>2. PICK m \in Nat : m = Len(t)
  BY <1>0, LenProperties
<1>3. q \in Seq(E) /\ Len(q) = n + m
  BY <1>0, <1>1, <1>2, ConcatProperties
<1>4. \A i \in 1 .. (n + m) : q[i] = IF i <= n THEN s[i] ELSE t[i - n]
  BY <1>0, <1>1, <1>2, ConcatProperties
<1>5. \A i \in 1 .. (n + m) : (i \in 1 .. n /\ q[i] = s[i]) \/ (i - n \in 1 .. m /\ ~ (i <= n) /\ q[i] = t[i - n])
  BY <1>1, <1>2, <1>4
<1>6. \A i \in 1 .. n, j \in 1 .. m : s[i] # t[j]
  BY <1>1, <1>2 DEF Contains
<1>7. ASSUME NEW i \in 1 .. (n + m), NEW j \in 1 .. (n + m), q[i] = q[j] PROVE i = j
  <2>1. CASE i \in 1 .. n /\ j \in 1 .. n
    BY <1>0, <1>1, <1>4, <1>7, <2>1 DEF Once
  <2>2. CASE i - n \in 1 .. m /\ ~ (i <= n) /\ j - n \in 1 .. m /\ ~ (j <= n)
    <3>1. t[i - n] = t[j - n]
      BY <1>4, <1>7, <2>2
    <3>2. i - n = j - n
      BY <1>0, <1>2, <2>2, <3>1 DEF Once
    <3> QED
      BY <1>1, <3>2
  <2>3. ~ (i \in 1 .. n /\ q[i] = s[i] /\ j - n \in 1 .. m /\ q[j] = t[j - n])
    BY <1>6, <1>7
  <2>4. ~ (j \in 1 .. n /\ q[j] = s[j] /\ i - n \in 1 .. m /\ q[i] = t[i - n])
    BY <1>6, <1>7
  <2> QED
    BY <1>5, <2>1, <2>2, <2>3, <2>4
<1>8. Once(q)
  BY <1>3, <1>7 DEF Once
<1>9. ASSUME NEW e PROVE Contains(q, e) <=> Contains(s, e) \/ Contains(t, e)
  <2>1. ASSUME NEW i \in 1 .. n, s[i] = e PROVE Contains(q, e)
    <3>1. i \in 1 .. (n + m) /\ i <= n
      OBVIOUS
    <3> QED
      BY <1>3, <1>4, <2>1, <3>1 DEF Contains
  <2>2. ASSUME NEW i \in 1 .. m, t[i] = e PROVE Contains(q, e)
    <3>1. n + i \in 1 .. (n + m) /\ ~ (n + i <= n) /\ (n + i) - n = i
      OBVIOUS
    <3> QED
      BY <1>3, <1>4, <2>2, <3>1 DEF Contains
  <2>3. ASSUME NEW i \in 1 .. (n + m), q[i] = e PROVE Contains(s, e) \/ Contains(t, e)
    BY <1>1, <1>2, <1>5, <2>3 DEF Contains
  <2> QED
    BY <1>1, <1>2, <1>3, <2>1, <2>2, <2>3 DEF Contains
<1> QED
  BY <1>1, <1>2, <1>3, <1>8, <1>9 DEF Listing, Joined

LEMMA PickAllKeeps ==
  ASSUME StackShown, StackRest, PickAll
  PROVE  StackShown'
<1>0. PICK s \in Seq(Cards) : s = cards
  BY DEF StackShown, Stacked
<1>1. Listing(s, Cards)
  BY <1>0 DEF StackShown, Stacked, Listing
<1>2. PICK S \in SUBSET Cards : S = listed \ Range(s)
  BY DEF StackRest
<1>3. PICK t : t = SetToSeq(S)
  OBVIOUS
<1>4. Listing(t, Cards) /\ \A i \in 1 .. Len(t) : t[i] \in S
  BY <1>3, ListOfSet, CardsAssumption
<1>5. \A e : ~ (Contains(s, e) /\ Contains(t, e))
  <2> SUFFICES ASSUME NEW e, Contains(s, e), Contains(t, e) PROVE FALSE
    OBVIOUS
  <2>1. e \in S
    BY <1>4 DEF Contains
  <2>2. e \in Range(s)
    BY <1>0 DEF Contains, Range
  <2> QED
    BY <1>2, <2>1, <2>2
<1>6. PICK q : q = s \o t
  OBVIOUS
<1>7. Listing(q, Cards) /\ Len(q) = Len(s) + Len(t) /\ \A e : Contains(s, e) => Contains(q, e)
  <2>1. Joined(q, s, t, Cards)
    BY <1>1, <1>4, <1>5, <1>6, JoinKeeps
  <2> QED
    BY <2>1, Zenon DEF Joined
<1>8. Look(q, Len(q), "card") /\ UNCHANGED bursts /\ Cardinality(S) > 1
  BY <1>0, <1>2, <1>3, <1>6 DEF PickAll
<1>9. Len(t) # 0
  <2>1. ASSUME S = {} PROVE FALSE
    <3>1. Cardinality(S) = 0
      BY <2>1, FS_EmptySet
    <3> QED
      BY <1>8, <3>1
  <2>2. PICK c \in S : Contains(t, c)
    BY <1>3, <2>1, ListOfSet, CardsAssumption
  <2> QED
    BY <2>2 DEF Contains
<1>10. PICK n \in Nat : n = Len(q)
  BY <1>7, LenProperties DEF Listing
<1>11. n # 0
  <2>1. Len(s) \in Nat /\ Len(t) \in Nat
    BY <1>0, <1>4, LenProperties DEF Listing
  <2> QED
    BY <1>7, <1>9, <1>10, <2>1
<1>12. q # <<>>
  BY <1>10, <1>11, EmptySeq
<1>13. Stacked(q, n)
  BY <1>7, <1>10, <1>11, <1>12 DEF Stacked, Listing
<1>14. "card" \in {"card", "overview"}
  OBVIOUS
<1> QED
  BY <1>0, <1>7, <1>8, <1>10, <1>13, <1>14, LookKeeps

LEMMA ShownStep == StackShown /\ StackRest /\ Touched /\ StackNext => StackShown'
<1> SUFFICES ASSUME StackShown, StackRest, Touched, StackNext PROVE StackShown'
  OBVIOUS
<1>0. /\ Stacked(cards, active) /\ view \in {"card", "overview"}
      /\ listed \subseteq Cards /\ \A m \in making : m.id \in Cards
      /\ \A d \in deleting : d.id \in Cards
  BY DEF StackShown, StackRest
<1>1. ASSUME NEW c \in Cards, PickExisting(c) PROVE StackShown'
  BY <1>1, AddKeeps DEF PickExisting
<1>2. ASSUME NEW c \in Cards, Cross(c) PROVE StackShown'
  BY <1>2, RemoveKeeps DEF Cross
<1>3. ASSUME NEW c \in Cards, CardOutput(c) PROVE StackShown'
  <2>1. /\ UNCHANGED <<cards, active, view, unread>> /\ bursts' = bursts \cup {c}
    BY <1>3 DEF CardOutput, stackVars
  <2>2. Contains(cards, c)
    <3>1. c \in Range(cards) /\ cards \in Seq(Cards)
      BY <1>3 DEF CardOutput, Panes, StackShown, Stacked
    <3> QED
      BY <3>1 DEF Range, Contains
  <2>3. UNCHANGED Viewed
    BY <2>1 DEF Viewed, Current
  <2> QED
    BY <2>1, <2>2, <2>3 DEF StackShown
<1>4. ASSUME NEW c \in Cards, BurstEnds(c) PROVE StackShown'
  <2>1. /\ UNCHANGED <<cards, active, view>> /\ bursts' = bursts \ {c} /\ c \in bursts
        /\ unread' = [unread EXCEPT ![c] = IF c = Viewed THEN @ ELSE @ + 1]
    BY <1>4 DEF BurstEnds, stackVars
  <2>2. UNCHANGED Viewed
    BY <2>1 DEF Viewed, Current
  <2>3. unread' \in [Cards -> Nat] /\ \A d \in Cards : d # c => unread'[d] = unread[d]
    BY <2>1 DEF StackShown
  <2>4. Viewed = c => unread'[c] = unread[c]
    BY <2>1 DEF StackShown
  <2>5. Viewed # NoCard => Viewed \in Cards
    BY <1>0 DEF Viewed, Current, ActiveCard, Stacked
  <2>6. Viewed' # NoCard => unread'[Viewed'] = 0
    BY <2>2, <2>3, <2>4, <2>5 DEF StackShown
  <2>7. \A d \in Cards : d \in bursts' \/ unread'[d] > 0 => Contains(cards, d)
    <3>1. Contains(cards, c)
      BY <2>1 DEF StackShown
    <3> QED
      BY <2>1, <2>3, <3>1 DEF StackShown
  <2>8. bursts' \subseteq Cards
    BY <2>1 DEF StackShown
  <2> QED
    BY <1>0, <2>1, <2>3, <2>6, <2>7, <2>8 DEF StackShown
<1>5. ASSUME NEW c \in Cards, TouchCard(c) \/ CreateCard(c) \/ OthersDelete(c) PROVE StackShown'
  BY <1>5, ShownStays DEF TouchCard, CreateCard, OthersDelete
<1>6. CASE PickAll
  BY <1>6, PickAllKeeps
<1>7. ASSUME NEW i, NEW v \in {"card", "overview"}, Look(cards, i, v), Stacked(cards, i), UNCHANGED bursts
      PROVE  StackShown'
  BY <1>7, LookKeeps
<1>8. CASE ShowOverview
  BY <1>0, <1>7, <1>8 DEF ShowOverview
<1>9. ASSUME NEW by \in Int, Cycle(by) PROVE StackShown'
  <2>1. PICK n \in Nat : n = Len(cards)
    BY <1>0, LenProperties DEF Stacked
  <2>2. PICK base \in Int : base = IF active = 0 THEN 0 ELSE active - 1
    BY <1>0, <2>1 DEF Stacked
  <2>3. n > 1
    BY <1>9, <2>1 DEF Cycle
  <2>4. PICK i \in Int : i = ((base + by) % n) + 1
    BY <2>2, <2>3
  <2>5. i \in 0 .. n /\ i # 0
    <3>1. (base + by) % n \in 0 .. (n - 1)
      BY <2>1, <2>2, <2>3
    <3> QED
      BY <2>1, <2>4, <3>1
  <2>6. Look(cards, i, "card") /\ UNCHANGED bursts
    BY <1>9, <2>1, <2>2, <2>4 DEF Cycle
  <2>7. cards # <<>>
    BY <2>1, <2>3, EmptySeq
  <2>8. Stacked(cards, i)
    BY <1>0, <2>1, <2>5, <2>7 DEF Stacked
  <2> QED
    BY <1>7, <2>6, <2>8
<1>10. CASE MoveFinger \/ LongPress \/ OpenSheet \/ CloseSheets \/ ConfirmDeletion \/ PollList
  BY <1>10, ShownStays DEF MoveFinger, LongPress, OpenSheet, CloseSheets, ConfirmDeletion, PollList
<1>11. CASE LiftFinger
  <2>1. CASE touch.fired \/ ~ Contains(cards, touch.on) \/ touch.on \notin listed
    BY <1>11, <2>1, ShownStays DEF LiftFinger, countVars
  <2>2. CASE ~ (touch.fired \/ ~ Contains(cards, touch.on) \/ touch.on \notin listed)
    <3>1. AddCard(touch.on) /\ UNCHANGED bursts
      BY <1>11, <2>2 DEF LiftFinger, AddCard
    <3>2. touch.on \in Cards
      BY <1>0, <2>2
    <3> QED
      BY <3>1, <3>2, AddKeeps
  <2> QED
    BY <2>1, <2>2
<1>12. ASSUME NEW ok \in BOOLEAN, NEW m \in making, CardMade(m, ok) PROVE StackShown'
  BY <1>12, ShownStays DEF CardMade
<1>13. ASSUME NEW ok \in BOOLEAN, NEW m \in making, CreatedShown(m, ok) PROVE StackShown'
  BY <1>0, <1>13, AddKeeps DEF CreatedShown
<1>14. ASSUME NEW ok \in BOOLEAN, NEW d \in deleting, Deleted(d, ok) PROVE StackShown'
  BY <1>0, <1>14, RemoveKeeps, ShownStays DEF Deleted
<1>15. ASSUME NEW ok \in BOOLEAN, NEW d \in deleting, DeletedShown(d, ok) PROVE StackShown'
  BY <1>15, ShownStays DEF DeletedShown
<1>16. CASE ReloadPage
  <2>1. /\ UNCHANGED <<cards, active>> /\ unread' = [c \in Cards |-> 0] /\ bursts' = {}
        /\ view' = IF cards = <<>> THEN "overview" ELSE "card"
    BY <1>16 DEF ReloadPage
  <2>2. Viewed' # NoCard => Viewed' \in Cards
    BY <1>0, <2>1 DEF Viewed, Current, ActiveCard, Stacked
  <2> QED
    BY <1>0, <2>1, <2>2 DEF StackShown
<1>17. 1 \in Int /\ Len(cards) - 1 \in Int
  BY <1>0, LenProperties DEF Stacked
<1> QED
  BY <1>1, <1>2, <1>3, <1>4, <1>5, <1>6, <1>8, <1>9, <1>10, <1>11, <1>12, <1>13, <1>14, <1>15, <1>16,
     <1>17 DEF StackNext

LEMMA OthersStep == StackRest /\ StackNext => StackRest'
<1> SUFFICES ASSUME StackRest, StackNext PROVE StackRest'
  OBVIOUS
<1>1. ASSUME NEW c \in Cards,
             PickExisting(c) \/ Cross(c) \/ CardOutput(c) \/ BurstEnds(c) \/ TouchCard(c)
      PROVE  StackRest'
  BY <1>1 DEF PickExisting, Cross, CardOutput, BurstEnds, TouchCard, StackRest
<1>2. ASSUME NEW c \in Cards, CreateCard(c) PROVE StackRest'
  BY <1>2 DEF CreateCard, StackRest
<1>3. ASSUME NEW c \in Cards, OthersDelete(c) PROVE StackRest'
  BY <1>3 DEF OthersDelete, StackRest
<1>4. CASE PickAll \/ ShowOverview \/ Cycle(1) \/ Cycle(Len(cards) - 1)
  BY <1>4 DEF PickAll, ShowOverview, Cycle, StackRest
<1>5. CASE MoveFinger \/ LiftFinger \/ OpenSheet \/ CloseSheets
  BY <1>5 DEF MoveFinger, LiftFinger, OpenSheet, CloseSheets, StackRest
<1>6. CASE LongPress
  BY <1>6 DEF LongPress, StackRest
<1>7. ASSUME NEW ok \in BOOLEAN, NEW m \in making, CardMade(m, ok) \/ CreatedShown(m, ok) PROVE StackRest'
  <2>1. m.id \in Cards
    BY DEF StackRest
  <2>2. [m EXCEPT !.stage = "made"].id = m.id
    OBVIOUS
  <2> QED
    BY <1>7, <2>1, <2>2 DEF CardMade, CreatedShown, StackRest
<1>8. ASSUME NEW ok \in BOOLEAN, NEW d \in deleting, Deleted(d, ok) \/ DeletedShown(d, ok) PROVE StackRest'
  <2>1. d.id \in Cards
    BY DEF StackRest
  <2>2. [d EXCEPT !.stage = "done"].id = d.id
    OBVIOUS
  <2> QED
    BY <1>8, <2>1, <2>2 DEF Deleted, DeletedShown, StackRest
<1>9. CASE ConfirmDeletion
  BY <1>9 DEF ConfirmDeletion, StackRest
<1>10. CASE PollList
  BY <1>10 DEF PollList, StackRest
<1>11. CASE ReloadPage
  <2>1. running' \subseteq Cards
    <3>1. {m.id : m \in making} \subseteq Cards
      BY DEF StackRest
    <3> QED
      BY <1>11, <3>1 DEF ReloadPage, StackRest
  <2> QED
    BY <1>11, <2>1 DEF ReloadPage, StackRest
<1> QED
  BY <1>1, <1>2, <1>3, <1>4, <1>5, <1>6, <1>7, <1>8, <1>9, <1>10, <1>11 DEF StackNext

LEMMA TouchedStep == Touched /\ StackNext => Touched'
<1> SUFFICES ASSUME Touched, StackNext PROVE Touched'
  OBVIOUS
<1>1. UNCHANGED touch => Touched'
  BY DEF Touched
<1>2. ASSUME NEW c \in Cards,
             \/ PickExisting(c) \/ Cross(c) \/ CardOutput(c) \/ BurstEnds(c) \/ CreateCard(c)
             \/ OthersDelete(c)
      PROVE  UNCHANGED touch
  BY <1>2 DEF PickExisting, Cross, CardOutput, BurstEnds, CreateCard, OthersDelete
<1>3. ASSUME NEW c \in Cards, TouchCard(c) PROVE Touched'
  BY <1>3 DEF TouchCard, Touched
<1>4. CASE PickAll \/ ShowOverview \/ Cycle(1) \/ Cycle(Len(cards) - 1)
  BY <1>1, <1>4 DEF PickAll, ShowOverview, Cycle
<1>5. CASE OpenSheet \/ CloseSheets \/ ConfirmDeletion \/ PollList
  BY <1>1, <1>5 DEF OpenSheet, CloseSheets, ConfirmDeletion, PollList
<1>6. CASE MoveFinger
  BY <1>6 DEF MoveFinger, Touched
<1>7. CASE LongPress
  <2>1. touch.opened = {}
    BY <1>7 DEF LongPress, Touched
  <2>2. touch' = [touch EXCEPT !.timer = FALSE, !.fired = TRUE, !.opened = {"menu"}]
    BY <1>7, <2>1 DEF LongPress
  <2> QED
    BY <2>2 DEF Touched
<1>8. CASE LiftFinger
  <2>1. CASE touch' = [touch EXCEPT !.on = NoCard, !.timer = FALSE]
    BY <2>1 DEF Touched
  <2>2. CASE ~ (touch' = [touch EXCEPT !.on = NoCard, !.timer = FALSE])
    <3>1. touch.opened = {}
      BY <1>8, <2>2 DEF LiftFinger, Touched
    <3>2. touch' = [touch EXCEPT !.on = NoCard, !.timer = FALSE, !.opened = {"card"}]
      BY <1>8, <2>2, <3>1 DEF LiftFinger
    <3> QED
      BY <3>2 DEF Touched
  <2> QED
    BY <2>1, <2>2
<1>9. ASSUME NEW ok \in BOOLEAN, NEW m \in making, CardMade(m, ok) \/ CreatedShown(m, ok)
      PROVE  UNCHANGED touch
  BY <1>9 DEF CardMade, CreatedShown
<1>10. ASSUME NEW ok \in BOOLEAN, NEW d \in deleting, Deleted(d, ok) \/ DeletedShown(d, ok)
       PROVE  UNCHANGED touch
  BY <1>10 DEF Deleted, DeletedShown
<1>11. CASE ReloadPage
  BY <1>11 DEF ReloadPage, NoTouch, Touched
<1> QED
  BY <1>1, <1>2, <1>3, <1>4, <1>5, <1>6, <1>7, <1>8, <1>9, <1>10, <1>11 DEF StackNext

LEMMA StackStep == StackIInv /\ [StackNext]_cardVars => StackIInv'
<1> SUFFICES ASSUME StackIInv, [StackNext]_cardVars PROVE StackIInv'
  OBVIOUS
<1>1. CASE StackNext
  BY <1>1, ShownStep, OthersStep, TouchedStep DEF StackIInv
<1>2. CASE UNCHANGED cardVars
  <2>1. UNCHANGED <<stackVars, countVars>> /\ UNCHANGED <<running, listed, menu, making, deleting, touch>>
    BY <1>2 DEF cardVars
  <2>2. StackShown'
    BY <2>1, ShownStays DEF StackIInv
  <2>3. StackRest' /\ Touched'
    BY <2>1 DEF StackIInv, StackRest, Touched
  <2> QED
    BY <2>2, <2>3 DEF StackIInv
<1> QED
  BY <1>1, <1>2

LEMMA StackInitially == StackInit => StackIInv
<1> SUFFICES ASSUME StackInit PROVE StackIInv
  OBVIOUS
<1>1. PICK s \in StoredStacks :
        cards = s.cards /\ active = s.active /\ view = IF cards = <<>> THEN "overview" ELSE "card"
  BY DEF StackInit
<1>2. /\ s.cards \in Seq(Cards) /\ IsInjective(s.cards)
      /\ s.active \in (IF s.cards = <<>> THEN {0} ELSE DOMAIN s.cards)
  BY StoredAssumption
<1>3. Stacked(cards, active)
  <2>1. Once(cards)
    BY <1>1, <1>2 DEF IsInjective, Once
  <2>2. PICK n \in Nat : n = Len(cards)
    BY <1>1, <1>2, LenProperties
  <2>3. IF cards = <<>> THEN active = 0 ELSE active \in 1 .. n
    BY <1>1, <1>2, <2>2
  <2>4. active \in 0 .. n /\ (active = 0 <=> cards = <<>>)
    BY <2>3
  <2> QED
    BY <1>1, <1>2, <2>1, <2>2, <2>4 DEF Stacked
<1>4. Viewed # NoCard => Viewed \in Cards
  BY <1>3 DEF Viewed, Current, ActiveCard, Stacked
<1>5. StackShown
  BY <1>1, <1>3, <1>4 DEF StackInit, StackShown
<1>6. StackRest /\ Touched
  BY DEF StackInit, StackRest, Touched, NoTouch
<1> QED
  BY <1>5, <1>6 DEF StackIInv

LEMMA StackImplied == StackIInv => StackInv
<1> SUFFICES ASSUME StackIInv PROVE StackInv
  OBVIOUS
<1>1. Stacked(cards, active) /\ cards \in Seq(Cards) /\ Once(cards)
  BY DEF StackIInv, StackShown, Stacked
<1>2. IsInjective(cards)
  BY <1>1 DEF Once, IsInjective
<1>3. StackTypeOK
  BY <1>1, <1>2 DEF StackIInv, StackShown, StackRest, Stacked, StackTypeOK
<1>4. ViewedIsRead
  BY DEF StackIInv, StackShown, ViewedIsRead
<1>5. CountsOfCards
  <2>1. \A c : Contains(cards, c) => c \in Range(cards)
    BY <1>1 DEF Contains, Range
  <2> QED
    BY <2>1 DEF StackIInv, StackShown, CountsOfCards
<1>6. OneTouchOneThing
  <2>1. Cardinality({}) = 0 /\ Cardinality({"card"}) = 1 /\ Cardinality({"menu"}) = 1
    BY FS_EmptySet, FS_Singleton
  <2> QED
    BY <2>1 DEF StackIInv, Touched, OneTouchOneThing
<1> QED
  BY <1>3, <1>4, <1>5, <1>6 DEF StackInv

PlaceHeld ==
  Current # NoCard /\ Contains(cards', Current) /\ Len(cards') < Len(cards)
    => ActiveCard(cards', active') = Current

\* Only a removal makes the stack shorter.
LEMMA PlaceStep == StackIInv /\ [StackNext]_cardVars => [PlaceHeld]_cardVars
<1> SUFFICES ASSUME StackShown, StackRest, StackNext PROVE PlaceHeld
  BY DEF StackIInv
<1>0. PICK n \in Nat : n = Len(cards)
  BY LenProperties DEF StackShown, Stacked
<1>1. cards' = cards => PlaceHeld
  BY <1>0 DEF PlaceHeld
<1>2. ASSUME NEW c \in Cards, AddCard(c) PROVE PlaceHeld
  <2>1. CASE Contains(cards, c)
    BY <1>1, <1>2, <2>1 DEF AddCard, Look
  <2>2. CASE ~ Contains(cards, c)
    <3>1. PICK q : q = Append(cards, c)
      OBVIOUS
    <3>2. Added(q, Cards, cards, c)
      BY <2>2, <3>1, AppendAdds DEF StackShown, Stacked, Listing
    <3>3. cards' = q
      BY <1>2, <2>2, <3>1 DEF AddCard, Look
    <3>4. Len(cards') = n + 1
      BY <1>0, <3>2, <3>3 DEF Added
    <3> QED
      BY <1>0, <3>4 DEF PlaceHeld
  <2> QED
    BY <2>1, <2>2
<1>3. ASSUME NEW c \in Cards, RemoveCard(c) PROVE PlaceHeld
  <2>1. PICK w : w = WithoutCard(c)
    OBVIOUS
  <2>2. Removal(w, cards, active, c)
    BY <2>1, RemovalKeeps DEF StackShown
  <2>3. cards' = w.cards /\ active' = w.active
    BY <1>3, <2>1 DEF RemoveCard
  <2> QED
    BY <2>2, <2>3 DEF Removal, PlaceHeld, Current
<1>4. ASSUME NEW c \in Cards, PickExisting(c) \/ Cross(c) PROVE PlaceHeld
  BY <1>2, <1>3, <1>4 DEF PickExisting, Cross
<1>5. ASSUME NEW c \in Cards,
             CardOutput(c) \/ BurstEnds(c) \/ TouchCard(c) \/ CreateCard(c) \/ OthersDelete(c)
      PROVE  UNCHANGED cards
  BY <1>5 DEF CardOutput, BurstEnds, TouchCard, CreateCard, OthersDelete, stackVars
<1>6. CASE PickAll
  <2>1. PICK s \in Seq(Cards) : s = cards
    BY DEF StackShown, Stacked
  <2>2. PICK S \in SUBSET Cards : S = listed \ Range(s)
    BY DEF StackRest
  <2>3. PICK t : t = SetToSeq(S)
    OBVIOUS
  <2>4. t \in Seq(Cards)
    BY <2>3, ListOfSet, CardsAssumption DEF Listing
  <2>5. PICK m \in Nat : m = Len(t)
    BY <2>4, LenProperties
  <2>6. cards' = s \o t
    BY <1>6, <2>1, <2>2, <2>3 DEF PickAll, Look
  <2>7. Len(cards') = n + m
    BY <1>0, <2>1, <2>4, <2>5, <2>6, ConcatProperties
  <2> QED
    BY <1>0, <2>7 DEF PlaceHeld
<1>7. CASE ShowOverview \/ Cycle(1) \/ Cycle(Len(cards) - 1)
  BY <1>1, <1>7 DEF ShowOverview, Cycle, Look
<1>8. CASE MoveFinger \/ LongPress \/ OpenSheet \/ CloseSheets \/ ConfirmDeletion \/ PollList
  BY <1>1, <1>8 DEF MoveFinger, LongPress, OpenSheet, CloseSheets, ConfirmDeletion, PollList, stackVars
<1>9. CASE LiftFinger
  BY <1>1, <1>9 DEF LiftFinger, Look, stackVars
<1>10. ASSUME NEW ok \in BOOLEAN, NEW m \in making, CardMade(m, ok) \/ CreatedShown(m, ok)
       PROVE  PlaceHeld
  <2>1. m.id \in Cards
    BY DEF StackRest
  <2>2. CASE CardMade(m, ok)
    BY <1>1, <2>2 DEF CardMade, stackVars
  <2>3. CASE CreatedShown(m, ok)
    BY <1>2, <2>1, <2>3 DEF CreatedShown
  <2> QED
    BY <1>10, <2>2, <2>3
<1>11. ASSUME NEW ok \in BOOLEAN, NEW d \in deleting, Deleted(d, ok) \/ DeletedShown(d, ok)
       PROVE  PlaceHeld
  <2>1. d.id \in Cards
    BY DEF StackRest
  <2>2. CASE Deleted(d, ok)
    BY <1>1, <1>3, <2>1, <2>2 DEF Deleted, stackVars
  <2>3. CASE DeletedShown(d, ok)
    BY <1>1, <2>3 DEF DeletedShown, stackVars
  <2> QED
    BY <1>11, <2>2, <2>3
<1>12. CASE ReloadPage
  BY <1>1, <1>12 DEF ReloadPage
<1> QED
  BY <1>1, <1>4, <1>5, <1>6, <1>7, <1>8, <1>9, <1>10, <1>11, <1>12 DEF StackNext

-----------------------------------------------------------------------------
(* NewCard *)

\* What was submitted last is what is on its way, alone, and what was made.
SendingOK ==
  /\ pending <=> sending # {}
  /\ \A s, t \in sending : s = t
  /\ \A s \in sending : s.fields = submitted /\ s = [stage |-> s.stage, fields |-> s.fields]

\* One walk is under way as long as none began before another one came back.
WalksOK ==
  /\ picker = [open |-> picker.open, at |-> picker.at, failed |-> picker.failed,
               loading |-> picker.loading]
  /\ overlapped \/ \A v, w \in walks : v = w

SheetIInv == SendingOK /\ MadeAsSubmitted /\ WalksOK /\ RowsOrSign

LEMMA SheetInitially == SheetInit => SheetIInv
<1> SUFFICES ASSUME SheetInit PROVE SheetIInv
  OBVIOUS
<1>1. /\ pending = FALSE /\ sending = {} /\ granted = {}
      /\ picker = Closed /\ walks = {} /\ overlapped = FALSE
  BY Zenon DEF SheetInit
<1> QED
  BY <1>1 DEF SheetIInv, SendingOK, MadeAsSubmitted, WalksOK, RowsOrSign, Closed

LEMMA EntryStays ==
  SendingOK /\ MadeAsSubmitted /\ UNCHANGED entryVars => SendingOK' /\ MadeAsSubmitted'
<1> SUFFICES ASSUME SendingOK, MadeAsSubmitted, UNCHANGED entryVars PROVE SendingOK' /\ MadeAsSubmitted'
  OBVIOUS
<1>1. UNCHANGED <<pending, sending, submitted, granted>>
  BY DEF entryVars
<1> QED
  BY <1>1 DEF SendingOK, MadeAsSubmitted

LEMMA PickerStays == WalksOK /\ RowsOrSign /\ UNCHANGED pickerVars => WalksOK' /\ RowsOrSign'
  BY DEF WalksOK, RowsOrSign, pickerVars

LEMMA BrowsesOK ==
  ASSUME WalksOK, RowsOrSign, NEW to, BrowseTo(to)
  PROVE  WalksOK' /\ RowsOrSign'
<1>1. PICK nth : nth = Cardinality(walks)
  OBVIOUS
<1>2. /\ picker' = [open |-> TRUE, at |-> picker.at, failed |-> FALSE, loading |-> TRUE]
      /\ walks' = walks \cup {[to |-> to, nth |-> nth]}
      /\ overlapped' = (overlapped \/ walks # {})
  BY <1>1 DEF BrowseTo, WalksOK
<1> QED
  BY <1>2 DEF WalksOK, RowsOrSign

LEMMA EntryStep == SendingOK /\ MadeAsSubmitted /\ SheetNext => SendingOK' /\ MadeAsSubmitted'
<1> SUFFICES ASSUME SendingOK, MadeAsSubmitted, SheetNext PROVE SendingOK' /\ MadeAsSubmitted'
  OBVIOUS
<1>1. CASE ConfigCame
  BY <1>1 DEF ConfigCame, SendingOK, MadeAsSubmitted
<1>2. CASE SomeEdit
  <2>1. \A f : Edit(f) => UNCHANGED <<pending, sending, submitted, granted>>
    BY DEF Edit
  <2>2. UNCHANGED <<pending, sending, submitted, granted>>
    BY <1>2, <2>1 DEF SomeEdit
  <2> QED
    BY <2>2 DEF SendingOK, MadeAsSubmitted
<1>3. CASE SubmitSheet
  <2>1. ~ pending /\ granted = {}
    BY <1>3 DEF SubmitSheet, CanSubmit, OnCourse
  <2>2. /\ pending' = TRUE /\ submitted' = fields /\ UNCHANGED granted
        /\ \E g : sending' = sending \cup {[stage |-> g, fields |-> fields]}
    BY <1>3 DEF SubmitSheet
  <2>3. sending = {}
    BY <2>1 DEF SendingOK
  <2>4. PICK g : sending' = {[stage |-> g, fields |-> fields]}
    BY <2>2, <2>3
  <2>5. PICK r : r = [stage |-> g, fields |-> fields]
    OBVIOUS
  <2>6. r.fields = submitted' /\ r = [stage |-> r.stage, fields |-> r.fields]
    BY <2>2, <2>5
  <2>7. pending' = TRUE /\ sending' = {r}
    BY <2>2, <2>4, <2>5
  <2>8. SendingOK'
    BY <2>6, <2>7 DEF SendingOK
  <2> QED
    BY <2>1, <2>2, <2>8 DEF MadeAsSubmitted
<1>4. ASSUME NEW s \in sending, NEW ok \in BOOLEAN, ProxySaved(s, ok)
      PROVE  SendingOK' /\ MadeAsSubmitted'
  <2>1. /\ sending' = (sending \ {s}) \cup {[s EXCEPT !.stage = "create"]}
        /\ UNCHANGED <<pending, submitted, granted>>
    BY <1>4 DEF ProxySaved
  <2>2. [s EXCEPT !.stage = "create"] = [stage |-> "create", fields |-> submitted]
    BY DEF SendingOK
  <2>3. sending' = {[stage |-> "create", fields |-> submitted]}
    BY <2>1, <2>2 DEF SendingOK
  <2> QED
    BY <2>1, <2>3 DEF SendingOK, MadeAsSubmitted
<1>5. ASSUME NEW s \in sending, NEW ok \in BOOLEAN, Made(s, ok)
      PROVE  SendingOK' /\ MadeAsSubmitted'
  <2>1. /\ sending' = sending \ {s} /\ pending' = FALSE /\ UNCHANGED submitted
        /\ granted' = granted \/ granted' = granted \cup {Asked(s.fields)}
    BY <1>5 DEF Made
  <2>2. sending' = {} /\ s.fields = submitted
    BY <2>1 DEF SendingOK
  <2>3. PICK a : a = Asked(submitted)
    OBVIOUS
  <2>4. Asked(submitted)' = a
    BY <2>1, <2>3 DEF Asked
  <2>5. \A r \in granted' : r = a
    BY <2>1, <2>2, <2>3, Zenon DEF MadeAsSubmitted
  <2>6. MadeAsSubmitted'
    BY <2>4, <2>5, Zenon DEF MadeAsSubmitted
  <2> QED
    BY <2>1, <2>2, <2>6 DEF SendingOK
<1>6. CASE OpenPicker \/ GoUp \/ \E p \in SheetTree : GoInto(p)
  <2>1. UNCHANGED entryVars
    BY <1>6 DEF OpenPicker, GoUp, GoInto
  <2> QED
    BY <2>1, EntryStays
<1>7. ASSUME NEW w \in walks, Walked(w) PROVE SendingOK' /\ MadeAsSubmitted'
  <2>1. UNCHANGED entryVars
    BY <1>7 DEF Walked
  <2> QED
    BY <2>1, EntryStays
<1>8. ASSUME NEW pick \in BOOLEAN, ClosePicker(pick) PROVE SendingOK' /\ MadeAsSubmitted'
  BY <1>8 DEF ClosePicker, SendingOK, MadeAsSubmitted
<1> QED
  BY <1>1, <1>2, <1>3, <1>4, <1>5, <1>6, <1>7, <1>8 DEF SheetNext

LEMMA WalksStep == WalksOK /\ RowsOrSign /\ SheetNext => WalksOK' /\ RowsOrSign'
<1> SUFFICES ASSUME WalksOK, RowsOrSign, SheetNext PROVE WalksOK' /\ RowsOrSign'
  OBVIOUS
<1>1. CASE ConfigCame \/ SomeEdit \/ SubmitSheet
  <2>1. UNCHANGED pickerVars
    BY <1>1 DEF ConfigCame, SomeEdit, Edit, SubmitSheet
  <2> QED
    BY <2>1, PickerStays
<1>2. ASSUME NEW s \in sending, NEW ok \in BOOLEAN, ProxySaved(s, ok) \/ Made(s, ok)
      PROVE  WalksOK' /\ RowsOrSign'
  <2>1. UNCHANGED pickerVars
    BY <1>2 DEF ProxySaved, Made
  <2> QED
    BY <2>1, PickerStays
<1>3. CASE OpenPicker
  <2>1. PICK to : BrowseTo(to)
    BY <1>3 DEF OpenPicker
  <2> QED
    BY <2>1, BrowsesOK
<1>4. CASE GoUp \/ \E p \in SheetTree : GoInto(p)
  <2>1. PICK to : BrowseTo(to)
    BY <1>4 DEF GoUp, GoInto
  <2> QED
    BY <2>1, BrowsesOK
<1>5. ASSUME NEW w \in walks, Walked(w) PROVE WalksOK' /\ RowsOrSign'
  <2>1. walks' = walks \ {w} /\ UNCHANGED overlapped
    BY <1>5 DEF Walked
  <2>2. (picker' = picker /\ ~ picker.open)
        \/ \E a, f : picker' = [open |-> picker.open, at |-> a, failed |-> f, loading |-> FALSE]
    BY <1>5 DEF Walked, WalksOK
  <2> QED
    BY <2>1, <2>2 DEF WalksOK, RowsOrSign
<1>6. ASSUME NEW pick \in BOOLEAN, ClosePicker(pick) PROVE WalksOK' /\ RowsOrSign'
  BY <1>6 DEF ClosePicker, WalksOK, RowsOrSign, Closed
<1> QED
  BY <1>1, <1>2, <1>3, <1>4, <1>5, <1>6 DEF SheetNext

LEMMA SheetStep == SheetIInv /\ [SheetNext]_sheetVars => SheetIInv'
<1> SUFFICES ASSUME SheetIInv, [SheetNext]_sheetVars PROVE SheetIInv'
  OBVIOUS
<1>1. CASE SheetNext
  BY <1>1, EntryStep, WalksStep DEF SheetIInv
<1>2. CASE UNCHANGED sheetVars
  BY <1>2, EntryStays, PickerStays DEF sheetVars, SheetIInv
<1> QED
  BY <1>1, <1>2

LEMMA SheetImplied == SheetIInv => SheetInv
<1> SUFFICES ASSUME SheetIInv PROVE SheetInv
  OBVIOUS
<1>1. Cardinality(sending) <= 1
  <2>1. CASE sending = {}
    BY <2>1, FS_EmptySet
  <2>2. CASE sending # {}
    <3>1. PICK s : sending = {s}
      BY <2>2 DEF SheetIInv, SendingOK
    <3>2. Cardinality({s}) = 1
      BY FS_Singleton
    <3> QED
      BY <3>1, <3>2
  <2> QED
    BY <2>1, <2>2
<1> QED
  BY <1>1 DEF SheetIInv, SheetInv, SendingOK, OneAtATime

-----------------------------------------------------------------------------
(* CreateForm *)

IsForm(f) ==
  /\ f = [title |-> f.title, mode |-> f.mode, program |-> f.program, custom |-> f.custom,
          cwd |-> f.cwd, proxy |-> f.proxy, worktree |-> f.worktree, name |-> f.name,
          error |-> f.error]
  /\ f.cwd \in Seq(STRING) /\ f.worktree \in BOOLEAN /\ f.error \in BOOLEAN

FormTypes ==
  /\ plan \in FormPlans /\ steps \in Nat /\ plan.steps \in Nat /\ steps <= plan.steps
  /\ shown \in BOOLEAN /\ browsing \in BOOLEAN
  /\ parent \in DOMAIN Tasks \cup {TopLevel}
  /\ IsForm(form) /\ timer \subseteq Typed

\* Each suggestion leads to a directory below the one it was made for.
HintsOK ==
  /\ listFor \in Tree /\ hints \in Seq(STRING)
  /\ \A i \in 1 .. Len(hints) : Append(listFor, hints[i]) \in Tree
  /\ showList \in BOOLEAN /\ selected \in Int /\ selected >= -1
  /\ showList => selected < Len(hints)

\* The server is asked about submissions that need its answer and have a good name.
ChecksOK == \A s \in checks : NeedsRepo(s.form, s.parent) /\ ~ BadName(s.form)

FormIInv == FormTypes /\ HintsOK /\ ChecksOK /\ CheckedBeforeCreate /\ NoHiddenWorktree

\* One field is set, whatever it was.
LEMMA SetKeeps ==
  ASSUME NEW f, IsForm(f), NEW v
  PROVE  /\ IsForm([f EXCEPT !.title = v]) /\ IsForm([f EXCEPT !.proxy = v])
         /\ IsForm([f EXCEPT !.custom = v]) /\ IsForm([f EXCEPT !.mode = v])
         /\ IsForm([f EXCEPT !.program = v]) /\ IsForm([f EXCEPT !.name = v])
         /\ v \in Seq(STRING) => IsForm([f EXCEPT !.cwd = v])
         /\ v \in BOOLEAN => IsForm([f EXCEPT !.worktree = v]) /\ IsForm([f EXCEPT !.error = v])
  BY SMTT(40) DEF IsForm

LEMMA FreshIsForm ==
  ASSUME NEW p \in DOMAIN Tasks \cup {TopLevel}, NEW px
  PROVE  IsForm(Fresh(p, px)) /\ Fresh(p, px).cwd \in Tree
<1>1. PICK d : d = IF p = TopLevel THEN <<>> ELSE Tasks[p]
  OBVIOUS
<1>2. d \in Tree /\ d \in Seq(STRING)
  <2>1. CASE p = TopLevel
    BY <1>1, <2>1, TreeAssumption
  <2>2. CASE p # TopLevel
    BY <1>1, <2>2, TreeAssumption, TasksAssumption DEF Range
  <2> QED
    BY <2>1, <2>2
<1> QED
  BY <1>1, <1>2 DEF Fresh, IsForm

\* What comes before the last entry of a list.
LEMMA FrontTyped == ASSUME NEW S, NEW s \in Seq(S) PROVE Front(s) \in Seq(S)
<1>1. PICK n \in Nat : n = Len(s)
  BY LenProperties
<1>2. s \in [1 .. n -> S]
  BY <1>1, LenProperties
<1>3. \A i \in 1 .. (n - 1) : s[i] \in S
  BY <1>2
<1>4. n - 1 \in Int /\ 1 \in Int
  OBVIOUS
<1>5. SubSeq(s, 1, n - 1) \in Seq(S)
  BY <1>3, <1>4, SubSeqProperties
<1> QED
  BY <1>1, <1>5 DEF Front

\* What is typed or chosen in the fields leaves the suggestions and submissions alone.
Typing ==
  /\ IsForm(form') /\ browsing' \in BOOLEAN /\ timer' \subseteq Typed
  /\ steps' = steps + 1 /\ steps < plan.steps
  /\ UNCHANGED <<plan, shown, parent, hintVars, checks, created>>

FieldAction ==
  \/ SetText \/ \E t : SetCustom(t) \/ SetMode(t) \/ SetProgram(t) \/ SetName(t)
  \/ \E w \in BOOLEAN : SetWorktree(w)
  \/ \E w \in BOOLEAN, d \in Tree :
       ApplyRecent([title |-> "x", program |-> "claude", cwd |-> d, worktree |-> w])
  \/ \E p \in Typed : TypeCwd(p)

LEMMA FieldsTyped == FormTypes /\ FieldAction => Typing
<1> SUFFICES ASSUME FormTypes, FieldAction PROVE Typing
  OBVIOUS
<1>0. /\ IsForm(form) /\ browsing \in BOOLEAN /\ timer \subseteq Typed
      /\ Tree \subseteq Seq(STRING) /\ Typed \subseteq Seq(STRING)
  BY TreeAssumption DEF FormTypes
<1>1. ASSUME NEW k, User(k)
      PROVE  steps' = steps + 1 /\ steps < plan.steps /\ UNCHANGED <<plan, shown, parent, created>>
  BY <1>1 DEF User, Step
<1>2. ASSUME NEW f \in {"title", "proxy", "custom"}, NEW t, Set(f, t) PROVE Typing
  <2>1. form' = [form EXCEPT ![f] = t] /\ UNCHANGED <<browsing, timer, hintVars, checks>>
    BY <1>2 DEF Set
  <2>2. IsForm(form')
    BY <1>0, <2>1, SetKeeps
  <2> QED
    BY <1>0, <1>1, <1>2, <2>1, <2>2 DEF Set, Typing
<1>3. ASSUME NEW t, SetMode(t) PROVE Typing
  <2>1. UNCHANGED <<browsing, timer, hintVars, checks>> /\ User("mode")
    BY <1>3 DEF SetMode
  <2>2. CASE t = "chat"
    <3>1. PICK f : f = [form EXCEPT !.mode = t]
      OBVIOUS
    <3>2. PICK g : g = [f EXCEPT !.program = "claude"]
      OBVIOUS
    <3>3. form' = [g EXCEPT !.custom = NoWord]
      BY <1>3, <2>2, <3>1, <3>2 DEF SetMode
    <3>4. IsForm(form')
      BY <1>0, <3>1, <3>2, <3>3, SetKeeps
    <3> QED
      BY <1>0, <1>1, <2>1, <3>4 DEF Typing
  <2>3. CASE t # "chat"
    <3>1. IsForm(form')
      BY <1>0, <1>3, <2>3, SetKeeps DEF SetMode
    <3> QED
      BY <1>0, <1>1, <2>1, <3>1 DEF Typing
  <2> QED
    BY <2>2, <2>3
<1>4. ASSUME NEW t, SetProgram(t) PROVE Typing
  <2>1. UNCHANGED <<browsing, timer, hintVars, checks>> /\ User("program")
    BY <1>4 DEF SetProgram
  <2>2. PICK f : f = [form EXCEPT !.program = t]
    OBVIOUS
  <2>3. form' = f \/ form' = [f EXCEPT !.custom = NoWord]
    BY <1>4, <2>2 DEF SetProgram
  <2>4. IsForm(f)
    BY <1>0, <2>2, SetKeeps
  <2>5. IsForm([f EXCEPT !.custom = NoWord])
    BY <2>4, SetKeeps
  <2>6. IsForm(form')
    BY <2>3, <2>4, <2>5
  <2> QED
    BY <1>0, <1>1, <2>1, <2>6 DEF Typing
<1>5. ASSUME NEW t, SetName(t) PROVE Typing
  <2>1. UNCHANGED <<browsing, timer, hintVars, checks>> /\ User("worktree")
    BY <1>5 DEF SetName
  <2>2. PICK f : f = [form EXCEPT !.name = t]
    OBVIOUS
  <2>3. form' = [f EXCEPT !.error = FALSE]
    BY <1>5, <2>2 DEF SetName
  <2>4. IsForm(form')
    BY <1>0, <2>2, <2>3, SetKeeps
  <2> QED
    BY <1>0, <1>1, <2>1, <2>4 DEF Typing
<1>6. ASSUME NEW w \in BOOLEAN, SetWorktree(w) PROVE Typing
  <2>1. UNCHANGED <<browsing, timer, hintVars, checks>> /\ User("worktree")
    BY <1>6 DEF SetWorktree
  <2>2. PICK f : f = [form EXCEPT !.worktree = w]
    OBVIOUS
  <2>3. form' = [f EXCEPT !.error = FALSE]
    BY <1>6, <2>2 DEF SetWorktree
  <2>4. IsForm(form')
    BY <1>0, <2>2, <2>3, SetKeeps
  <2> QED
    BY <1>0, <1>1, <2>1, <2>4 DEF Typing
<1>7. ASSUME NEW w \in BOOLEAN, NEW d \in Tree, NEW c,
             c = [title |-> "x", program |-> "claude", cwd |-> d, worktree |-> w], ApplyRecent(c)
      PROVE  Typing
  <2>1. UNCHANGED <<browsing, timer, hintVars, checks>> /\ User("recent")
    BY <1>7 DEF ApplyRecent
  <2>2. form' = [form EXCEPT !.title = "x", !.mode = "terminal", !.program = "claude",
                             !.cwd = d, !.worktree = w, !.error = FALSE]
    BY <1>7 DEF ApplyRecent
  <2>3. IsForm(form')
    BY <1>0, <2>2 DEF IsForm
  <2> QED
    BY <1>0, <1>1, <2>1, <2>3 DEF Typing
<1>8. ASSUME NEW p \in Typed, TypeCwd(p) PROVE Typing
  <2>1. /\ UNCHANGED <<hintVars, checks>> /\ User("cwd")
        /\ browsing' = FALSE /\ timer' = {p} /\ form' = [form EXCEPT !.cwd = p]
    BY <1>8 DEF TypeCwd
  <2>2. IsForm(form')
    BY <1>0, <2>1, SetKeeps
  <2> QED
    BY <1>0, <1>1, <2>1, <2>2 DEF Typing
<1>9. SetText => \E f \in {"title", "proxy", "custom"} : \E t : Set(f, t)
  BY DEF SetText
<1>10. \A t : SetCustom(t) => Set("custom", t)
  BY DEF SetCustom
<1> QED
  BY <1>2, <1>3, <1>4, <1>5, <1>6, <1>7, <1>8, <1>9, <1>10 DEF FieldAction

LEMMA FormActions ==
  FormNext =>
    \/ FieldAction
    \/ \E p \in DOMAIN Tasks \cup {TopLevel} : OpenDialog(p)
    \/ Close \/ \E px \in Proxies : ConfigChanges(px)
    \/ Complete \/ HideList
    \/ \E c \in calls, ok \in BOOLEAN : Completed(c, ok) \/ Browsed(c, ok)
    \/ \E by \in {-1, 1} : Move(by)
    \/ \E i \in DOMAIN hints : Choose(i)
    \/ \E p \in Tree \cup Typed : Browse(p)
    \/ Submit \/ \E s \in checks, says \in {"answer", "failure"} : Checked(s, says)
  BY Zenon DEF FormNext, FieldAction

LEMMA TypesStep == FormTypes /\ HintsOK /\ FormNext => FormTypes'
<1> SUFFICES ASSUME FormTypes, HintsOK, FormNext PROVE FormTypes'
  OBVIOUS
<1>0. IsForm(form) /\ Tree \subseteq Seq(STRING) /\ Typed \subseteq Seq(STRING)
  BY TreeAssumption DEF FormTypes
<1>1. ASSUME NEW k, Step(k) PROVE steps' \in Nat /\ steps' <= plan'.steps /\ UNCHANGED plan
  BY <1>1 DEF Step, FormTypes
<1>2. CASE FieldAction
  <2>1. Typing
    BY <1>2, FieldsTyped
  <2> QED
    BY <2>1 DEF Typing, FormTypes
<1>3. ASSUME NEW p \in DOMAIN Tasks \cup {TopLevel}, OpenDialog(p) PROVE FormTypes'
  <2>1. /\ Step("open") /\ UNCHANGED timer /\ browsing' = FALSE /\ shown' = TRUE
        /\ form' = Fresh(p, proxy) /\ parent' = p
    BY <1>3 DEF OpenDialog, Reset
  <2>2. IsForm(form')
    BY <2>1, FreshIsForm
  <2> QED
    BY <1>1, <2>1, <2>2 DEF FormTypes
<1>4. CASE Close
  BY <1>1, <1>4 DEF Close, inputVars, FormTypes
<1>5. ASSUME NEW px \in Proxies, ConfigChanges(px) PROVE FormTypes'
  <2>1. UNCHANGED <<plan, steps, shown, parent, timer>>
    BY <1>5 DEF ConfigChanges
  <2>2. IsForm(form') /\ browsing' \in BOOLEAN
    <3>1. CASE shown /\ px # proxy
      <4>1. form' = Fresh(parent, px) /\ browsing' = FALSE
        BY <1>5, <3>1 DEF ConfigChanges, Reset
      <4> QED
        BY <4>1, FreshIsForm DEF FormTypes
    <3>2. CASE ~ (shown /\ px # proxy)
      BY <1>5, <3>2 DEF ConfigChanges, FormTypes
    <3> QED
      BY <3>1, <3>2
  <2> QED
    BY <2>1, <2>2 DEF FormTypes
<1>6. CASE Complete
  BY <1>6 DEF Complete, FormTypes
<1>7. CASE HideList
  BY <1>1, <1>7 DEF HideList, User, inputVars, FormTypes
<1>8. ASSUME NEW c \in calls, NEW ok \in BOOLEAN, Completed(c, ok) PROVE FormTypes'
  BY <1>8 DEF Completed, inputVars, FormTypes
<1>9. ASSUME NEW c \in calls, NEW ok \in BOOLEAN, Browsed(c, ok) PROVE FormTypes'
  <2>1. UNCHANGED <<plan, steps, shown, parent, timer>>
    BY <1>9 DEF Browsed
  <2>2. IsForm(form') /\ browsing' \in BOOLEAN
    <3>1. CASE ok /\ c.path \in Tree
      <4>1. PICK f : f = [form EXCEPT !.cwd = c.path]
        OBVIOUS
      <4>2. form' = [f EXCEPT !.error = FALSE] /\ browsing' = TRUE
        BY <1>9, <3>1, <4>1 DEF Browsed
      <4>3. IsForm(f)
        BY <1>0, <3>1, <4>1, SetKeeps
      <4> QED
        BY <4>2, <4>3, SetKeeps
    <3>2. CASE ~ (ok /\ c.path \in Tree)
      BY <1>9, <3>2 DEF Browsed, FormTypes
    <3> QED
      BY <3>1, <3>2
  <2> QED
    BY <2>1, <2>2 DEF FormTypes
<1>10. ASSUME NEW by \in {-1, 1}, Move(by) PROVE FormTypes'
  BY <1>1, <1>10 DEF Move, User, inputVars, FormTypes
<1>11. ASSUME NEW i \in DOMAIN hints, Choose(i) PROVE FormTypes'
  <2>1. User("list") /\ UNCHANGED <<browsing, timer>>
    BY <1>11 DEF Choose
  <2>2. PICK q : q = IF form.cwd = <<>> THEN <<>> ELSE Front(form.cwd)
    OBVIOUS
  <2>3. q \in Seq(STRING)
    <3>1. CASE form.cwd = <<>>
      BY <2>2, <3>1
    <3>2. CASE form.cwd # <<>>
      BY <1>0, <2>2, <3>2, FrontTyped DEF IsForm
    <3> QED
      BY <3>1, <3>2
  <2>4. hints[i] \in STRING
    BY ElementOfSeq DEF HintsOK
  <2>5. Append(q, hints[i]) \in Seq(STRING)
    BY <2>3, <2>4, AppendProperties
  <2>6. form' = [form EXCEPT !.cwd = Append(q, hints[i])]
    BY <1>11, <2>2 DEF Choose
  <2>7. IsForm(form')
    BY <1>0, <2>5, <2>6, SetKeeps
  <2> QED
    BY <1>1, <2>1, <2>7 DEF User, FormTypes
<1>12. ASSUME NEW p \in Tree \cup Typed, Browse(p) PROVE FormTypes'
  BY <1>1, <1>12 DEF Browse, User, inputVars, FormTypes
<1>13. CASE Submit
  <2>1. /\ Step("submit") /\ UNCHANGED <<parent, browsing, timer>>
        /\ shown' = shown \/ shown' = FALSE
        /\ form' = form \/ form' = [form EXCEPT !.error = TRUE]
    BY <1>13 DEF Submit, Send
  <2>2. IsForm([form EXCEPT !.error = TRUE])
    BY <1>0, SetKeeps
  <2> QED
    BY <1>0, <1>1, <2>1, <2>2 DEF FormTypes
<1>14. ASSUME NEW s \in checks, NEW says \in {"answer", "failure"}, Checked(s, says) PROVE FormTypes'
  <2>1. /\ UNCHANGED <<plan, steps, parent, browsing, timer>>
        /\ shown' = shown \/ shown' = FALSE
        /\ form' = form \/ form' = [form EXCEPT !.error = TRUE]
    BY <1>14 DEF Checked, Send
  <2>2. IsForm([form EXCEPT !.error = TRUE])
    BY <1>0, SetKeeps
  <2> QED
    BY <1>0, <2>1, <2>2 DEF FormTypes
<1> QED
  BY <1>2, <1>3, <1>4, <1>5, <1>6, <1>7, <1>8, <1>9, <1>10, <1>11, <1>12, <1>13, <1>14, FormActions

\* What autocomplete offers lies below the directory it looked at.
Below(q, dir) == q \in Seq(STRING) /\ \A i \in 1 .. Len(q) : Append(dir, q[i]) \in Tree

LEMMA MatchesBelow ==
  ASSUME NEW dir, NEW prefix, NEW q, q = Matches(dir, prefix)
  PROVE  Below(q, dir)
<1>1. PICK L : L = Tree \ {<<>>}
  OBVIOUS
<1>2. PICK f : f = [d \in L |-> d[Len(d)]]
  OBVIOUS
<1>3. PICK I : I = {d[Len(d)] : d \in L}
  OBVIOUS
<1>4. IsFiniteSet(L)
  BY <1>1, TreeAssumption, FS_Subset
<1>5. f \in Surjection(L, I)
  BY <1>2, <1>3 DEF Surjection
<1>6. IsFiniteSet(I)
  BY <1>4, <1>5, FS_Surjection
<1>7. I \subseteq STRING
  <2> SUFFICES ASSUME NEW d \in L PROVE d[Len(d)] \in STRING
    BY <1>3
  <2>1. d \in Seq(STRING) /\ d # <<>>
    BY <1>1, TreeAssumption
  <2>2. PICK n \in Nat \ {0} : n = Len(d)
    BY <2>1, EmptySeq
  <2>3. n \in 1 .. n
    OBVIOUS
  <2>4. d[n] \in STRING
    BY <2>1, <2>2, <2>3, ElementOfSeq
  <2> QED
    BY <2>2, <2>4
<1>8. PICK S \in SUBSET I :
        S = {n \in I : Append(dir, n) \in Tree /\ (prefix = NoWord \/ prefix = n)}
  OBVIOUS
<1>9. q = SetToSeq(S)
  BY <1>1, <1>3, <1>8 DEF Matches
<1>10. Listing(q, I) /\ \A i \in 1 .. Len(q) : q[i] \in S
  BY <1>6, <1>9, ListOfSet
<1>11. q \in Seq(STRING)
  BY <1>7, <1>10, SeqMonotonic DEF Listing
<1> QED
  BY <1>8, <1>10, <1>11 DEF Below

LEMMA NoHints ==
  ASSUME listFor' \in Tree, hints' = <<>>, showList' = FALSE, selected' = selected, HintsOK
  PROVE  HintsOK'
<1>1. hints' \in Seq(STRING) /\ \A i \in 1 .. Len(hints') : FALSE
  BY EmptySeq
<1> QED
  BY <1>1 DEF HintsOK

LEMMA HintsStay == HintsOK /\ UNCHANGED hintVars => HintsOK'
<1> SUFFICES ASSUME HintsOK, UNCHANGED hintVars PROVE HintsOK'
  OBVIOUS
<1>1. UNCHANGED <<hints, listFor, showList, selected>>
  BY DEF hintVars
<1> QED
  BY <1>1 DEF HintsOK

LEMMA HintsStep == FormTypes /\ HintsOK /\ FormNext => HintsOK'
<1> SUFFICES ASSUME FormTypes, HintsOK, FormNext PROVE HintsOK'
  OBVIOUS
<1>0. PICK n \in Nat : n = Len(hints)
  BY LenProperties DEF HintsOK
<1>1. <<>> \in Tree
  BY TreeAssumption
<1>2. CASE FieldAction
  BY <1>2, FieldsTyped, HintsStay DEF Typing
<1>3. ASSUME NEW p, NEW px, Reset(p, px) PROVE HintsOK'
  BY <1>1, <1>3, NoHints DEF Reset
<1>4. ASSUME NEW p \in DOMAIN Tasks \cup {TopLevel}, OpenDialog(p) PROVE HintsOK'
  BY <1>3, <1>4 DEF OpenDialog
<1>5. ASSUME NEW px \in Proxies, ConfigChanges(px) PROVE HintsOK'
  BY <1>3, <1>5, HintsStay DEF ConfigChanges
<1>6. CASE Close
  BY <1>6, HintsStay DEF Close
<1>7. CASE Complete
  <2>1. UNCHANGED hintVars \/ (hints' = <<>> /\ listFor' = <<>> /\ showList' = FALSE /\ UNCHANGED selected)
    BY <1>7 DEF Complete
  <2> QED
    BY <1>1, <2>1, HintsStay, NoHints
<1>8. CASE HideList
  BY <1>8 DEF HideList, HintsOK
<1>9. ASSUME NEW c \in calls, NEW ok \in BOOLEAN, Completed(c, ok) PROVE HintsOK'
  <2>1. CASE ok /\ Front(c.path) \in Tree
    <3>1. PICK dir \in Tree : dir = Front(c.path)
      BY <2>1
    <3>2. /\ hints' = Matches(dir, Last(c.path)) /\ listFor' = dir
          /\ showList' = (hints' # <<>>) /\ selected' = -1
      BY <1>9, <2>1, <3>1 DEF Completed
    <3>3. Below(hints', dir)
      BY <3>2, MatchesBelow
    <3>4. hints' \in Seq(STRING)
      BY <3>3 DEF Below
    <3>5. PICK m \in Nat : m = Len(hints')
      BY <3>4, LenProperties
    <3>6. -1 < m /\ -1 >= -1 /\ -1 \in Int
      OBVIOUS
    <3> QED
      BY <3>2, <3>3, <3>5, <3>6 DEF HintsOK, Below
  <2>2. CASE ~ (ok /\ Front(c.path) \in Tree)
    BY <1>9, <2>2, HintsStay DEF Completed
  <2> QED
    BY <2>1, <2>2
<1>10. ASSUME NEW c \in calls, NEW ok \in BOOLEAN, Browsed(c, ok) PROVE HintsOK'
  <2>1. UNCHANGED <<hints, listFor, selected>> /\ (showList' = FALSE \/ showList' = showList)
    BY <1>10 DEF Browsed
  <2>2. CASE showList' = FALSE
    BY <2>1, <2>2 DEF HintsOK
  <2>3. CASE showList' = showList
    BY <2>1, <2>3 DEF HintsOK
  <2> QED
    BY <2>1, <2>2, <2>3
<1>11. ASSUME NEW by \in {-1, 1}, Move(by) PROVE HintsOK'
  <2>1. /\ UNCHANGED <<hints, listFor, showList>> /\ hints # <<>>
        /\ selected' = IF by > 0 THEN IF selected < n - 1 THEN selected + 1 ELSE n - 1
                                 ELSE IF selected > -1 THEN selected - 1 ELSE -1
    BY <1>0, <1>11 DEF Move
  <2>2. n # 0
    BY <1>0, <2>1, EmptySeq DEF HintsOK
  <2>3. selected \in Int /\ selected >= -1 /\ showList
    BY <1>11 DEF HintsOK, Move
  <2>4. selected < n
    BY <1>0, <2>3 DEF HintsOK
  <2>5. selected' \in Int /\ selected' >= -1 /\ selected' < n
    BY <2>1, <2>2, <2>3, <2>4
  <2> QED
    BY <1>0, <2>1, <2>5 DEF HintsOK
<1>12. ASSUME NEW i \in DOMAIN hints, Choose(i) PROVE HintsOK'
  <2>1. hints' = <<>> /\ listFor' = <<>> /\ showList' = FALSE /\ UNCHANGED selected
    BY <1>12 DEF Choose
  <2> QED
    BY <1>1, <2>1, NoHints
<1>13. ASSUME NEW p \in Tree \cup Typed, Browse(p) PROVE HintsOK'
  BY <1>13, HintsStay DEF Browse
<1>14. CASE Submit
  BY <1>14, HintsStay DEF Submit
<1>15. ASSUME NEW s \in checks, NEW says \in {"answer", "failure"}, Checked(s, says) PROVE HintsOK'
  BY <1>15, HintsStay DEF Checked
<1> QED
  BY <1>2, <1>4, <1>5, <1>6, <1>7, <1>8, <1>9, <1>10, <1>11, <1>12, <1>13, <1>14, <1>15, FormActions

\* What is sent keeps to what the dialog promises: r is the request, says the server's word
\* on its directory, p the task the dialog was opened for.
GoodRequest(r, says, p) ==
  /\ r.parent = TopLevel /\ r.mode = "terminal" /\ r.worktree /\ r.program = "claude" =>
       /\ says # "no" /\ r.name # "a b"
       /\ says = "answer" => r.cwd \in Repos
  /\ r.parent = p
  /\ r.parent # TopLevel \/ r.mode = "chat" => ~ r.worktree /\ r.name = NoWord

GoodRequests == \A c \in created : GoodRequest(c.request, c.checked, c.opened)

LEMMA RequestsAreGood == GoodRequests <=> CheckedBeforeCreate /\ NoHiddenWorktree
  BY Zenon DEF GoodRequests, GoodRequest, CheckedBeforeCreate, NoHiddenWorktree

\* A submission that went its way.
LEMMA SentIsGood ==
  ASSUME NEW f, NEW p, NEW px, NEW says, Send(f, p, px, says, p), GoodRequests,
         NeedsRepo(f, p) => says # "no" /\ ~ BadName(f) /\ (says = "answer" => f.cwd \in Repos)
  PROVE  GoodRequests'
<1>1. PICK own : own = (p = TopLevel /\ f.mode = "terminal")
  OBVIOUS
<1>2. PICK r : r = Request(f, p)
  OBVIOUS
<1>3. /\ r.mode = f.mode /\ r.program = EffectiveProgram(f) /\ r.cwd = f.cwd /\ r.parent = p
      /\ r.worktree = (own /\ f.worktree)
      /\ r.name = IF own /\ f.worktree THEN f.name ELSE NoWord
  BY <1>1, <1>2 DEF Request
<1>4. r.worktree <=> own /\ f.worktree
  BY <1>3
<1>5. GoodRequest(r, says, p)
  BY <1>1, <1>3, <1>4 DEF GoodRequest, NeedsRepo, BadName
<1>6. PICK c : c = [request |-> r, checked |-> says, opened |-> p]
  OBVIOUS
<1>7. c.request = r /\ c.checked = says /\ c.opened = p
  BY <1>6
<1>8. created' = created \cup {c}
  BY <1>2, <1>6 DEF Send
<1> QED
  BY <1>5, <1>7, <1>8, Zenon DEF GoodRequests

LEMMA SubmissionsStay ==
  ChecksOK /\ GoodRequests /\ UNCHANGED <<checks, created>> => ChecksOK' /\ GoodRequests'
<1> SUFFICES ASSUME ChecksOK, GoodRequests, UNCHANGED <<checks, created>>
             PROVE  ChecksOK' /\ GoodRequests'
  OBVIOUS
<1>1. checks' = checks /\ created' = created
  OBVIOUS
<1> QED
  BY <1>1, Zenon DEF ChecksOK, GoodRequests

LEMMA RequestsStep ==
  FormTypes /\ ChecksOK /\ GoodRequests /\ FormNext => ChecksOK' /\ GoodRequests'
<1> SUFFICES ASSUME FormTypes, ChecksOK, GoodRequests, FormNext PROVE ChecksOK' /\ GoodRequests'
  OBVIOUS
<1>1. CASE FieldAction
  BY <1>1, FieldsTyped, SubmissionsStay DEF Typing
<1>2. ASSUME NEW p \in DOMAIN Tasks \cup {TopLevel}, OpenDialog(p) PROVE UNCHANGED <<checks, created>>
  BY <1>2 DEF OpenDialog
<1>3. ASSUME NEW px \in Proxies, ConfigChanges(px) PROVE UNCHANGED <<checks, created>>
  BY <1>3 DEF ConfigChanges
<1>4. Close \/ Complete \/ HideList => UNCHANGED <<checks, created>>
  BY DEF Close, Complete, HideList, User
<1>5. ASSUME NEW c \in calls, NEW ok \in BOOLEAN, Completed(c, ok) \/ Browsed(c, ok)
      PROVE  UNCHANGED <<checks, created>>
  BY <1>5 DEF Completed, Browsed
<1>6. ASSUME NEW by \in {-1, 1}, Move(by) PROVE UNCHANGED <<checks, created>>
  BY <1>6 DEF Move, User
<1>7. ASSUME NEW i \in DOMAIN hints, Choose(i) PROVE UNCHANGED <<checks, created>>
  BY <1>7 DEF Choose, User
<1>8. ASSUME NEW p \in Tree \cup Typed, Browse(p) PROVE UNCHANGED <<checks, created>>
  BY <1>8 DEF Browse, User
<1>9. CASE Submit
  <2>1. CASE NeedsRepo(form, parent) /\ BadName(form)
    <3>1. UNCHANGED <<checks, created>>
      BY <1>9, <2>1 DEF Submit
    <3> QED
      BY <3>1, SubmissionsStay
  <2>2. CASE NeedsRepo(form, parent) /\ ~ BadName(form)
    <3>1. PICK s : s = [form |-> form, parent |-> parent, proxy |-> proxy]
      OBVIOUS
    <3>2. s.form = form /\ s.parent = parent
      BY <3>1
    <3>3. checks' = checks \cup {s} /\ created' = created
      BY <1>9, <2>2, <3>1 DEF Submit
    <3>4. NeedsRepo(s.form, s.parent) /\ ~ BadName(s.form)
      BY <2>2, <3>2
    <3>5. ChecksOK'
      BY <3>3, <3>4, Zenon DEF ChecksOK
    <3> QED
      BY <3>3, <3>5, Zenon DEF GoodRequests
  <2>3. CASE ~ NeedsRepo(form, parent)
    <3>1. Send(form, parent, proxy, "no", parent) /\ checks' = checks
      BY <1>9, <2>3 DEF Submit
    <3>2. GoodRequests'
      BY <2>3, <3>1, SentIsGood
    <3> QED
      BY <3>1, <3>2, Zenon DEF ChecksOK
  <2> QED
    BY <2>1, <2>2, <2>3
<1>10. ASSUME NEW s \in checks, NEW says \in {"answer", "failure"}, Checked(s, says)
       PROVE  ChecksOK' /\ GoodRequests'
  <2>1. checks' = checks \ {s}
    BY <1>10 DEF Checked
  <2>2. ChecksOK'
    BY <2>1, Zenon DEF ChecksOK
  <2>3. CASE says = "answer" /\ s.form.cwd \notin Repos
    <3>1. created' = created
      BY <1>10, <2>3 DEF Checked
    <3> QED
      BY <2>2, <3>1, Zenon DEF GoodRequests
  <2>4. CASE ~ (says = "answer" /\ s.form.cwd \notin Repos)
    <3>1. Send(s.form, s.parent, s.proxy, says, s.parent)
      BY <1>10, <2>4 DEF Checked
    <3>2. NeedsRepo(s.form, s.parent) /\ ~ BadName(s.form) /\ says # "no"
      BY DEF ChecksOK
    <3> QED
      BY <2>2, <2>4, <3>1, <3>2, SentIsGood
  <2> QED
    BY <2>3, <2>4
<1> QED
  BY <1>1, <1>2, <1>3, <1>4, <1>5, <1>6, <1>7, <1>8, <1>9, <1>10, FormActions, SubmissionsStay

LEMMA FormStep == FormIInv /\ [FormNext]_formVars => FormIInv'
<1> SUFFICES ASSUME FormIInv, [FormNext]_formVars PROVE FormIInv'
  OBVIOUS
<1>1. CASE FormNext
  <2>1. FormTypes' /\ HintsOK'
    BY <1>1, TypesStep, HintsStep DEF FormIInv
  <2>2. ChecksOK' /\ GoodRequests'
    BY <1>1, RequestsStep, RequestsAreGood DEF FormIInv
  <2>3. GoodRequests' <=> CheckedBeforeCreate' /\ NoHiddenWorktree'
    BY RequestsAreGood, PTL
  <2> QED
    BY <2>1, <2>2, <2>3 DEF FormIInv
<1>2. CASE UNCHANGED formVars
  <2>1. UNCHANGED <<plan, shown, parent, form, browsing, timer, steps>>
    BY <1>2 DEF formVars, inputVars
  <2>2. UNCHANGED <<hintVars, checks, created>>
    BY <1>2 DEF formVars
  <2>3. FormTypes'
    BY <2>1 DEF FormIInv, FormTypes
  <2>4. HintsOK'
    BY <2>2, HintsStay DEF FormIInv
  <2>5. ChecksOK' /\ CheckedBeforeCreate' /\ NoHiddenWorktree'
    <3>1. checks' = checks /\ created' = created
      BY <2>2
    <3> QED
      BY <3>1, Zenon DEF FormIInv, ChecksOK, CheckedBeforeCreate, NoHiddenWorktree
  <2> QED
    BY <2>3, <2>4, <2>5 DEF FormIInv
<1> QED
  BY <1>1, <1>2

LEMMA FormInitially == FormInit => FormIInv
<1> SUFFICES ASSUME FormInit PROVE FormIInv
  OBVIOUS
<1>1. plan \in FormPlans /\ plan.steps \in Nat
  BY PlansAssumption DEF FormInit
<1>2. /\ shown = FALSE /\ parent = TopLevel /\ browsing = FALSE /\ form = Fresh(TopLevel, NoWord)
      /\ timer = {} /\ steps = 0
  BY DEF FormInit
<1>3. /\ hints = <<>> /\ listFor = <<>> /\ showList = FALSE /\ selected = -1
      /\ checks = {} /\ created = {}
  BY DEF FormInit
<1>4. FormTypes
  <2>1. IsForm(form)
    BY <1>2, FreshIsForm
  <2>2. 0 <= plan.steps /\ 0 \in Nat
    BY <1>1
  <2> QED
    BY <1>1, <1>2, <2>1, <2>2 DEF FormTypes
<1>5. HintsOK
  <2>1. hints \in Seq(STRING) /\ \A i \in 1 .. Len(hints) : FALSE
    BY <1>3, EmptySeq
  <2>2. listFor \in Tree
    BY <1>3, TreeAssumption
  <2>3. selected \in Int /\ selected >= -1
    BY <1>3
  <2> QED
    BY <1>3, <2>1, <2>2, <2>3 DEF HintsOK
<1>6. ChecksOK /\ CheckedBeforeCreate /\ NoHiddenWorktree
  BY <1>3 DEF ChecksOK, CheckedBeforeCreate, NoHiddenWorktree
<1> QED
  BY <1>4, <1>5, <1>6 DEF FormIInv

LEMMA FormImplied == FormIInv => FormInv
<1> SUFFICES ASSUME FormIInv PROVE FormInv
  OBVIOUS
<1>1. form.cwd \in Seq(STRING) /\ form.worktree \in BOOLEAN /\ form.error \in BOOLEAN
  BY DEF FormIInv, FormTypes, IsForm
<1>2. FormTypeOK
  BY <1>1 DEF FormIInv, FormTypes, HintsOK, FormTypeOK
<1> QED
  BY <1>2 DEF FormIInv, FormInv

\* A step of the dialog keeps the user's fields, and a suggestion leads to a directory.
Leads ==
  hints # <<>> /\ hints' = <<>> /\ form.cwd # <<>> /\ listFor = Front(form.cwd)
    /\ form'.cwd # form.cwd => form'.cwd \in Tree
FieldsKept ==
  shown /\ shown' /\ steps' = steps /\ proxy' = proxy =>
    \A f \in DOMAIN form \ {"cwd", "error"} : form'[f] = form[f]

LEMMA FormHolds == FormIInv /\ [FormNext]_formVars => [Leads /\ FieldsKept]_formVars
<1> SUFFICES ASSUME FormIInv, FormNext PROVE Leads /\ FieldsKept
  OBVIOUS
<1>0. steps \in Nat /\ parent \in DOMAIN Tasks \cup {TopLevel} /\ IsForm(form) /\ HintsOK
  BY DEF FormIInv, FormTypes
<1>1. steps' = steps + 1 => FieldsKept
  BY <1>0 DEF FieldsKept
<1>2. \A k : Step(k) => steps' = steps + 1
  BY DEF Step
<1>3. UNCHANGED hints => Leads
  BY DEF Leads
<1>4. UNCHANGED hintVars => Leads
  BY <1>3 DEF hintVars
<1>5. UNCHANGED form => Leads /\ FieldsKept
  BY DEF Leads, FieldsKept
<1>6. CASE FieldAction
  BY <1>0, <1>1, <1>4, <1>6, FieldsTyped DEF Typing, FormIInv
<1>7. ASSUME NEW p \in DOMAIN Tasks \cup {TopLevel}, OpenDialog(p) PROVE Leads /\ FieldsKept
  <2>1. Step("open") /\ form' = Fresh(p, proxy)
    BY <1>7 DEF OpenDialog, Reset
  <2>2. form'.cwd \in Tree
    BY <2>1, FreshIsForm
  <2> QED
    BY <1>1, <1>2, <2>1, <2>2 DEF Leads
<1>8. ASSUME NEW px \in Proxies, ConfigChanges(px) PROVE Leads /\ FieldsKept
  <2>1. CASE shown /\ px # proxy
    <3>1. form' = Fresh(parent, px) /\ proxy' = px
      BY <1>8, <2>1 DEF ConfigChanges, Reset
    <3>2. form'.cwd \in Tree
      BY <1>0, <3>1, FreshIsForm
    <3> QED
      BY <2>1, <3>1, <3>2 DEF Leads, FieldsKept
  <2>2. CASE ~ (shown /\ px # proxy)
    BY <1>5, <1>8, <2>2 DEF ConfigChanges
  <2> QED
    BY <2>1, <2>2
<1>9. Close \/ HideList => UNCHANGED form
  BY DEF Close, HideList, inputVars
<1>10. Complete => UNCHANGED form
  BY DEF Complete
<1>11. ASSUME NEW c \in calls, NEW ok \in BOOLEAN, Completed(c, ok) PROVE UNCHANGED form
  BY <1>11 DEF Completed, inputVars
<1>12. ASSUME NEW f, f = [form EXCEPT !.error = TRUE], form' = f PROVE FieldsKept
  BY <1>0, <1>12 DEF IsForm, FieldsKept
<1>13. ASSUME NEW c \in calls, NEW ok \in BOOLEAN, Browsed(c, ok) PROVE Leads /\ FieldsKept
  <2>1. UNCHANGED hints
    BY <1>13 DEF Browsed
  <2>2. form' = form \/ form' = [form EXCEPT !.cwd = c.path, !.error = FALSE]
    BY <1>13 DEF Browsed
  <2>3. FieldsKept
    BY <1>0, <2>2 DEF IsForm, FieldsKept
  <2> QED
    BY <1>3, <2>1, <2>3
<1>14. ASSUME NEW by \in {-1, 1}, Move(by) PROVE UNCHANGED form
  BY <1>14 DEF Move, inputVars
<1>15. ASSUME NEW i \in DOMAIN hints, Choose(i) PROVE Leads /\ FieldsKept
  <2>1. FieldsKept
    BY <1>1, <1>2, <1>15 DEF Choose, User
  <2>2. form' = [form EXCEPT !.cwd = Append(IF @ = <<>> THEN <<>> ELSE Front(@), hints[i])]
    BY <1>15 DEF Choose
  <2>3. ASSUME form.cwd # <<>>, listFor = Front(form.cwd) PROVE form'.cwd \in Tree
    <3>1. form'.cwd = Append(listFor, hints[i])
      BY <1>0, <2>2, <2>3 DEF IsForm
    <3>2. i \in 1 .. Len(hints)
      BY <1>0, LenProperties DEF HintsOK
    <3> QED
      BY <1>0, <3>1, <3>2 DEF HintsOK
  <2> QED
    BY <2>1, <2>3 DEF Leads
<1>16. ASSUME NEW p \in Tree \cup Typed, Browse(p) PROVE UNCHANGED form
  BY <1>16 DEF Browse, inputVars
<1>17. CASE Submit
  BY <1>1, <1>2, <1>4, <1>17 DEF Submit
<1>18. ASSUME NEW s \in checks, NEW says \in {"answer", "failure"}, Checked(s, says)
       PROVE  Leads /\ FieldsKept
  <2>1. UNCHANGED hintVars
    BY <1>18 DEF Checked
  <2>2. form' = form \/ form' = [form EXCEPT !.error = TRUE]
    BY <1>18 DEF Checked
  <2> QED
    BY <1>4, <1>5, <1>12, <2>1, <2>2
<1> QED
  BY <1>5, <1>6, <1>7, <1>8, <1>9, <1>10, <1>11, <1>13, <1>14, <1>15, <1>16, <1>17, <1>18, FormActions

-----------------------------------------------------------------------------
(* Pickers *)

\* A rising function onto a run of numbers goes through it one by one.
Rises(p, m, a, b) ==
  /\ \A i \in 1 .. m : p[i] \in (a + 1) .. (a + b)
  /\ \A j \in (a + 1) .. (a + b) : \E i \in 1 .. m : p[i] = j
  /\ \A i, j \in 1 .. m : i < j => p[i] < p[j]
GoesThrough(p, m, a, b) == m = b /\ \A i \in 1 .. m : p[i] = a + i

LEMMA RunOnto ==
  ASSUME NEW a \in Nat, NEW b \in Nat, NEW m \in Nat, NEW p, Rises(p, m, a, b)
  PROVE  GoesThrough(p, m, a, b)
<1>0. /\ \A i \in 1 .. m : p[i] \in (a + 1) .. (a + b)
      /\ \A j \in (a + 1) .. (a + b) : \E i \in 1 .. m : p[i] = j
      /\ \A i, j \in 1 .. m : i < j => p[i] < p[j]
  BY DEF Rises
<1> DEFINE T == {i \in 1 .. m : p[i] < a + i}
           U == {i \in 1 .. m : p[i] # a + i}
<1>1. ASSUME T # {} PROVE FALSE
  <2>1. T \in SUBSET Nat
    OBVIOUS
  <2> HIDE DEF T
  <2>2. PICK i \in T : \A j \in T : i <= j
    BY <1>1, <2>1, LeastNat
  <2> USE DEF T
  <2>3. i \in 1 .. m /\ p[i] < a + i /\ p[i] >= a + 1 /\ p[i] \in Nat
    BY <1>0, <2>2
  <2>4. i - 1 \in 1 .. m /\ i - 1 < i
    BY <2>3
  <2>5. i - 1 \notin T
    BY <2>2, <2>4
  <2>6. p[i - 1] < p[i] /\ p[i - 1] >= a + (i - 1) /\ p[i - 1] \in Nat /\ p[i] \in Nat
    BY <1>0, <2>3, <2>4, <2>5
  <2> QED
    BY <2>3, <2>4, <2>6
<1>2. ASSUME U # {} PROVE FALSE
  <2>1. U \in SUBSET Nat
    OBVIOUS
  <2> HIDE DEF U
  <2>2. PICK i \in U : \A j \in U : i <= j
    BY <1>2, <2>1, LeastNat
  <2> USE DEF U
  <2>3. i \in 1 .. m /\ p[i] # a + i /\ p[i] >= a + i /\ p[i] \in (a + 1) .. (a + b)
    BY <1>0, <1>1, <2>2
  <2>4. a + i \in (a + 1) .. (a + b)
    BY <2>3
  <2>5. PICK j \in 1 .. m : p[j] = a + i
    BY <1>0, <2>4
  <2>6. CASE j < i
    <3>1. j \notin U
      BY <2>2, <2>3, <2>5, <2>6
    <3>2. p[j] = a + j
      BY <3>1
    <3> QED
      BY <2>3, <2>5, <2>6, <3>2
  <2>7. CASE j = i
    BY <2>3, <2>5, <2>7
  <2>8. CASE i < j
    <3>1. p[i] < p[j]
      BY <1>0, <2>3, <2>8
    <3> QED
      BY <2>3, <2>5, <3>1
  <2> QED
    BY <2>3, <2>6, <2>7, <2>8
<1>3. \A i \in 1 .. m : p[i] = a + i
  BY <1>2
<1>4. m <= b
  <2>1. CASE m = 0
    BY <2>1
  <2>2. CASE m # 0
    <3>1. m \in 1 .. m
      BY <2>2
    <3>2. a + m \in (a + 1) .. (a + b)
      BY <1>0, <1>3, <3>1
    <3> QED
      BY <3>2
  <2> QED
    BY <2>1, <2>2
<1>5. b <= m
  <2>1. CASE b = 0
    BY <2>1
  <2>2. CASE b # 0
    <3>1. a + b \in (a + 1) .. (a + b)
      BY <2>2
    <3>2. PICK i \in 1 .. m : p[i] = a + b
      BY <1>0, <3>1
    <3>3. a + i = a + b
      BY <1>3, <3>2
    <3> QED
      BY <3>2, <3>3
  <2> QED
    BY <2>1, <2>2
<1> QED
  BY <1>3, <1>4, <1>5 DEF GoesThrough

\* What filter keeps, where it is one run of entries: that run.
IsRun(q, S, a, b) ==
  a + b <= Len(q) /\ \A j \in 1 .. Len(q) : q[j] \in S <=> j \in (a + 1) .. (a + b)
TakesRun(r, E, q, a, b) == r \in Seq(E) /\ Len(r) = b /\ \A i \in 1 .. b : r[i] = q[a + i]

LEMMA AmongRun ==
  ASSUME NEW E, NEW q \in Seq(E), NEW S, NEW a \in Nat, NEW b \in Nat, IsRun(q, S, a, b),
         NEW r, r = Among(q, S)
  PROVE  TakesRun(r, E, q, a, b)
<1>1. r \in Seq(E) /\ \E p : KeptAt(Len(q), q, S, r, p)
  BY AmongKeeps
<1>2. PICK p : KeptAt(Len(q), q, S, r, p)
  BY <1>1
<1>3. PICK n \in Nat : n = Len(q)
  BY LenProperties
<1>4. PICK m \in Nat : m = Len(r)
  BY <1>1, LenProperties
<1>5. /\ p \in [1 .. m -> 1 .. n]
      /\ \A i \in 1 .. m : r[i] = q[p[i]] /\ r[i] \in S
      /\ \A i, j \in 1 .. m : i < j => p[i] < p[j]
      /\ \A j \in 1 .. n : q[j] \in S => \E i \in 1 .. m : p[i] = j
  BY <1>2, <1>3, <1>4 DEF KeptAt
<1>6. a + b <= n /\ \A j \in 1 .. n : q[j] \in S <=> j \in (a + 1) .. (a + b)
  BY <1>3 DEF IsRun
<1>7. \A i \in 1 .. m : p[i] \in (a + 1) .. (a + b)
  BY <1>5, <1>6
<1>8. \A j \in (a + 1) .. (a + b) : \E i \in 1 .. m : p[i] = j
  <2> SUFFICES ASSUME NEW j \in (a + 1) .. (a + b) PROVE \E i \in 1 .. m : p[i] = j
    OBVIOUS
  <2>1. j \in 1 .. n
    BY <1>6
  <2> QED
    BY <1>5, <1>6, <2>1
<1>9. \A i, j \in 1 .. m : i < j => p[i] < p[j]
  BY <1>5
<1>10. Rises(p, m, a, b)
  BY <1>7, <1>8, <1>9, Zenon DEF Rises
<1>11. GoesThrough(p, m, a, b)
  BY <1>10, RunOnto
<1> QED
  BY <1>1, <1>4, <1>5, <1>11 DEF GoesThrough, TakesRun

\* Two lists one behind the other, told apart by a set that one lies in and the other not.
Parted(q, s, t, E, S, T) ==
  /\ s \in Seq(E) /\ t \in Seq(E) /\ q = s \o t /\ T = E \ S
  /\ (\A i \in 1 .. Len(s) : s[i] \in S) /\ (\A i \in 1 .. Len(t) : t[i] \notin S)

LEMMA AmongParts ==
  ASSUME NEW q, NEW s, NEW t, NEW E, NEW S, NEW T, Parted(q, s, t, E, S, T)
  PROVE  Among(q, S) = s /\ Among(q, T) = t
<1>0. s \in Seq(E) /\ t \in Seq(E) /\ q = s \o t /\ T = E \ S
  BY DEF Parted
<1>1. PICK n \in Nat : n = Len(s)
  BY <1>0, LenProperties
<1>2. PICK m \in Nat : m = Len(t)
  BY <1>0, LenProperties
<1>3. q \in Seq(E) /\ Len(q) = n + m /\ \A i \in 1 .. (n + m) : q[i] = IF i <= n THEN s[i] ELSE t[i - n]
  BY <1>0, <1>1, <1>2, ConcatProperties
<1>4. \A i \in 1 .. (n + m) : q[i] \in E
  BY <1>3, ElementOfSeq
<1>5. \A i \in 1 .. n : i \in 1 .. (n + m) /\ q[i] = s[i] /\ q[i] \in S
  <2> SUFFICES ASSUME NEW i \in 1 .. n PROVE i \in 1 .. (n + m) /\ q[i] = s[i] /\ q[i] \in S
    OBVIOUS
  <2>1. i \in 1 .. (n + m) /\ i <= n
    OBVIOUS
  <2>2. q[i] = s[i]
    BY <1>3, <2>1
  <2> QED
    BY <1>1, <2>1, <2>2 DEF Parted
<1>6. \A i \in 1 .. m : n + i \in 1 .. (n + m) /\ q[n + i] = t[i] /\ q[n + i] \notin S
  <2> SUFFICES ASSUME NEW i \in 1 .. m
               PROVE  n + i \in 1 .. (n + m) /\ q[n + i] = t[i] /\ q[n + i] \notin S
    OBVIOUS
  <2>1. n + i \in 1 .. (n + m) /\ ~ (n + i <= n) /\ (n + i) - n = i
    OBVIOUS
  <2>2. q[n + i] = t[i]
    BY <1>3, <2>1
  <2> QED
    BY <1>2, <2>1, <2>2 DEF Parted
<1>7. \A j \in 1 .. (n + m) : j \in 1 .. n \/ \E i \in 1 .. m : j = n + i
  <2> SUFFICES ASSUME NEW j \in 1 .. (n + m), j \notin 1 .. n PROVE \E i \in 1 .. m : j = n + i
    OBVIOUS
  <2>1. j - n \in 1 .. m /\ j = n + (j - n)
    OBVIOUS
  <2> QED
    BY <2>1
<1>8. \A j \in 1 .. (n + m) : q[j] \in S <=> j \in 1 .. n
  <2> SUFFICES ASSUME NEW j \in 1 .. (n + m) PROVE q[j] \in S <=> j \in 1 .. n
    OBVIOUS
  <2>1. CASE j \in 1 .. n
    BY <1>5, <2>1
  <2>2. CASE j \notin 1 .. n
    <3>1. PICK i \in 1 .. m : j = n + i
      BY <1>7, <2>2
    <3>2. q[n + i] \notin S
      BY <1>6
    <3> QED
      BY <2>2, <3>1, <3>2
  <2> QED
    BY <2>1, <2>2
<1>9. \A j \in 1 .. (n + m) : q[j] \in T <=> j \in (n + 1) .. (n + m)
  <2>1. \A j \in 1 .. (n + m) : j \in (n + 1) .. (n + m) <=> j \notin 1 .. n
    OBVIOUS
  <2> QED
    BY <1>0, <1>4, <1>8, <2>1
<1>10. PICK r : r = Among(q, S)
  OBVIOUS
<1>11. PICK w : w = Among(q, T)
  OBVIOUS
<1>12. TakesRun(r, E, q, 0, n)
  <2>1. 0 \in Nat /\ 0 + n <= n + m /\ (0 + 1) .. (0 + n) = 1 .. n
    OBVIOUS
  <2>2. IsRun(q, S, 0, n)
    BY <1>3, <1>8, <2>1 DEF IsRun
  <2> QED
    BY <1>3, <1>10, <2>1, <2>2, AmongRun
<1>13. TakesRun(w, E, q, n, m)
  <2>0. n + m <= Len(q)
    BY <1>3
  <2>1. IsRun(q, T, n, m)
    <3>1. \A j \in 1 .. Len(q) : q[j] \in T <=> j \in (n + 1) .. (n + m)
      BY <1>3, <1>9
    <3> QED
      BY <2>0, <3>1, Zenon DEF IsRun
  <2> QED
    BY <1>3, <1>11, <2>1, AmongRun
<1>14. r = s
  <2>1. \A i \in 1 .. n : 0 + i = i
    OBVIOUS
  <2>2. \A i \in 1 .. n : r[i] = s[i]
    BY <1>5, <1>12, <2>1 DEF TakesRun
  <2> QED
    BY <1>0, <1>1, <1>12, <2>2, SeqEqual DEF TakesRun
<1>15. w = t
  <2>1. \A i \in 1 .. m : w[i] = t[i]
    BY <1>6, <1>13 DEF TakesRun
  <2> QED
    BY <1>0, <1>2, <1>13, <2>1, SeqEqual DEF TakesRun
<1> QED
  BY <1>10, <1>11, <1>14, <1>15

LEMMA InRange == ASSUME NEW E, NEW s \in Seq(E) PROVE \A e : e \in Range(s) <=> Contains(s, e)
<1>1. DOMAIN s = 1 .. Len(s)
  BY LenProperties
<1> QED
  BY <1>1 DEF Range, Contains

\* What the file picker knows: recent files and results without repetitions.
PickLists ==
  /\ Listing(recents, FileItems) /\ Listing(results, Names)
  /\ root \in Roots /\ query \in DOMAIN Queries

\* The results, read below the root of now.
LEMMA FoundFiles ==
  ASSUME PickLists, NEW found, found = [i \in DOMAIN results |-> [root |-> root, path |-> results[i]]]
  PROVE  Listing(found, FileItems)
<1>1. results \in Seq(Names) /\ Once(results) /\ root \in Roots
  BY DEF PickLists, Listing
<1>2. PICK n \in Nat : n = Len(results)
  BY <1>1, LenProperties
<1>3. DOMAIN results = 1 .. n /\ \A i \in 1 .. n : results[i] \in Names
  BY <1>1, <1>2, LenProperties
<1>4. found \in [1 .. n -> FileItems]
  BY <1>1, <1>3 DEF FileItems
<1>5. found \in Seq(FileItems) /\ Len(found) = n
  BY <1>2, <1>4
<1>6. \A i \in 1 .. n : found[i].path = results[i]
  BY <1>3
<1>7. Once(found)
  BY <1>1, <1>2, <1>5, <1>6 DEF Once
<1> QED
  BY <1>5, <1>7 DEF Listing

\* The list holds each file once; its two sections are the list in its order.
LEMMA Displayed == PickLists => Listing(DisplayList, FileItems) /\ FileRows = DisplayList
<1> SUFFICES ASSUME PickLists PROVE Listing(DisplayList, FileItems) /\ FileRows = DisplayList
  OBVIOUS
<1>1. Listing(recents, FileItems) /\ recents \in Seq(FileItems)
  BY DEF PickLists, Listing
<1>2. PICK s : s = Among(recents, Matching)
  OBVIOUS
<1>3. Pruned(s, FileItems, recents, Matching)
  BY <1>1, <1>2, AmongPrunes
<1>4. PICK a : a = Among(s, Here)
  OBVIOUS
<1>5. PICK b : b = Among(s, FileItems \ Here)
  OBVIOUS
<1>6. Listing(s, FileItems) /\ \A e : Contains(s, e) <=> Contains(recents, e) /\ e \in Matching
  BY <1>3 DEF Pruned
<1>7. Pruned(a, FileItems, s, Here) /\ Pruned(b, FileItems, s, FileItems \ Here)
  BY <1>4, <1>5, <1>6, AmongPrunes
<1>8. /\ Listing(a, FileItems) /\ \A e : Contains(a, e) <=> Contains(s, e) /\ e \in Here
      /\ Listing(b, FileItems) /\ \A e : Contains(b, e) <=> Contains(s, e) /\ e \in FileItems \ Here
  BY <1>7 DEF Pruned
<1>9. PICK old : old = a \o b
  OBVIOUS
<1>10. \A e : ~ (Contains(a, e) /\ Contains(b, e))
  BY <1>8
<1>11. /\ Listing(old, FileItems)
       /\ \A e : Contains(old, e) <=> Contains(a, e) \/ Contains(b, e)
  BY <1>8, <1>9, <1>10, JoinKeeps DEF Joined
<1>12. \A e : Contains(s, e) => e \in FileItems
  BY <1>6, ElementOfSeq DEF Listing, Contains
<1>13. \A e : Contains(old, e) <=> Contains(recents, e) /\ e \in Matching
  BY <1>6, <1>8, <1>11, <1>12
<1>14. PICK f : f = [i \in DOMAIN results |-> [root |-> root, path |-> results[i]]]
  OBVIOUS
<1>15. Listing(f, FileItems)
  BY <1>14, FoundFiles
<1>16. PICK t : t = Among(f, FileItems \ Range(old))
  OBVIOUS
<1>17. Pruned(t, FileItems, f, FileItems \ Range(old))
  BY <1>15, <1>16, AmongPrunes
<1>18. Listing(t, FileItems) /\ \A e : Contains(t, e) => e \notin Range(old)
  BY <1>17 DEF Pruned
<1>19. old \in Seq(FileItems) /\ t \in Seq(FileItems)
  BY <1>11, <1>18 DEF Listing
<1>20. \A e : (e \in Range(old) <=> Contains(old, e)) /\ (e \in Range(recents) <=> Contains(recents, e))
  BY <1>1, <1>19, InRange
<1>21. \A e : ~ (Contains(old, e) /\ Contains(t, e))
  BY <1>18, <1>20
<1>22. PICK d : d = old \o t
  OBVIOUS
<1>23. Listing(d, FileItems)
  BY <1>11, <1>18, <1>21, <1>22, JoinKeeps DEF Joined
<1>24. DisplayList = d
  BY <1>2, <1>4, <1>5, <1>9, <1>14, <1>16, <1>22 DEF DisplayList
<1>25. PICK R : R = Range(recents) \cap Matching
  OBVIOUS
<1>26. Parted(d, old, t, FileItems, R, FileItems \ R)
  <2>1. ASSUME NEW i \in 1 .. Len(old) PROVE old[i] \in R
    <3>1. Contains(old, old[i])
      BY DEF Contains
    <3> QED
      BY <1>13, <1>20, <1>25, <3>1
  <2>2. ASSUME NEW i \in 1 .. Len(t) PROVE t[i] \notin R
    <3>1. Contains(t, t[i])
      BY DEF Contains
    <3> QED
      BY <1>13, <1>20, <1>21, <1>25, <3>1
  <2> QED
    BY <1>19, <1>22, <2>1, <2>2 DEF Parted
<1>27. Among(d, R) = old /\ Among(d, FileItems \ R) = t
  BY <1>26, AmongParts
<1>28. FileRows = d
  BY <1>22, <1>24, <1>25, <1>27 DEF FileRows
<1> QED
  BY <1>23, <1>24, <1>28

Searched == [root : Roots, query : DOMAIN Queries]
PickKnown == PickLists /\ due \subseteq Searched /\ searches \subseteq Searched

Cursors ==
  /\ opened \in Lists \cup {"url", "none"}
  /\ Len(offers) \in Nat /\ cursor \in [Lists -> Int] /\ shifted \in [Lists -> BOOLEAN]

PickIInv == PickKnown /\ Cursors /\ CursorOnItem

LEMMA EmptyListing == \A E : Listing(<<>>, E)
<1> SUFFICES ASSUME NEW E PROVE Listing(<<>>, E)
  OBVIOUS
<1>1. <<>> \in Seq(E) /\ \A i \in 1 .. Len(<<>>) : FALSE
  BY EmptySeq
<1> QED
  BY <1>1 DEF Listing, Once

LEMMA KnownStep == PickKnown /\ Cursors /\ PickNext => PickKnown'
<1> SUFFICES ASSUME PickKnown, Cursors, PickNext PROVE PickKnown'
  OBVIOUS
<1>0. /\ Listing(recents, FileItems) /\ Listing(results, Names)
      /\ root \in Roots /\ query \in DOMAIN Queries
      /\ due \subseteq Searched /\ searches \subseteq Searched
      /\ NoQuery \in DOMAIN Queries
  BY QueriesAssumption DEF PickKnown, PickLists
<1> SUFFICES /\ Listing(recents', FileItems) /\ Listing(results', Names)
             /\ root' \in Roots /\ query' \in DOMAIN Queries
             /\ due' \subseteq Searched /\ searches' \subseteq Searched
  BY DEF PickKnown, PickLists, Searched
<1>1. ASSUME NEW w, Toggle(w) PROVE
        /\ UNCHANGED <<root, recents, due, searches>>
        /\ (query' = NoQuery /\ results' = <<>>) \/ UNCHANGED <<query, results>>
  BY <1>1 DEF Toggle
<1>2. ASSUME NEW r \in Roots, Reroot(r) PROVE
        /\ root' \in Roots /\ UNCHANGED <<recents, due, searches>>
        /\ (query' = NoQuery /\ results' = <<>>) \/ UNCHANGED <<query, results>>
  BY <1>2 DEF Reroot
<1>3. ASSUME NEW q \in DOMAIN Queries, TypeQuery(q) PROVE
        /\ query' \in DOMAIN Queries /\ UNCHANGED <<root, recents, searches>>
        /\ results' = <<>> \/ results' = results
        /\ due' \subseteq Searched
  BY <1>0, <1>3 DEF TypeQuery, Searched
<1>4. CASE Search
  BY <1>0, <1>4 DEF Search
<1>5. ASSUME NEW s \in searches, NEW ok \in BOOLEAN, Found(s, ok)
      PROVE  /\ UNCHANGED <<root, recents, query, due>> /\ searches' \subseteq searches
             /\ Listing(results', Names)
  <2>1. s.query \in DOMAIN Queries
    BY <1>0 DEF Searched
  <2>2. PICK S \in SUBSET Names : S = Queries[s.query]
    BY <2>1, QueriesAssumption
  <2>3. results' = SetToSeq(S) \/ results' = results
    BY <1>5, <2>2 DEF Found
  <2>4. IsFiniteSet(Names)
    BY QueriesAssumption
  <2>5. \A q : q = SetToSeq(S) => Listing(q, Names)
    BY <2>4, ListOfSet
  <2> QED
    BY <1>0, <1>5, <2>3, <2>5 DEF Found
<1>6. ASSUME NEW o, NEW typed, Offer(o, typed)
      PROVE  UNCHANGED <<root, recents, query, results, due, searches>>
  BY <1>6 DEF Offer, searchVars
<1>7. ASSUME NEW i, MoveCursor(i) \/ Hover(i)
      PROVE  UNCHANGED <<root, recents, query, results, due, searches>>
  BY <1>7 DEF MoveCursor, Hover, searchVars
<1>8. CASE Pick
  <2>1. UNCHANGED <<root, query, results, due, searches>>
    BY <1>8 DEF Pick, searchVars
  <2>2. CASE opened = "launcher"
    BY <1>0, <1>8, <2>1, <2>2 DEF Pick
  <2>3. CASE opened # "launcher"
    <3>1. PICK d : d = DisplayList
      OBVIOUS
    <3>2. Listing(d, FileItems)
      BY <3>1, Displayed DEF PickKnown
    <3>3. PICK n \in Nat : n = Len(d)
      BY <3>2, LenProperties DEF Listing
    <3>4. opened = "files" /\ cursor[opened] \in Int
      BY <1>8, <2>3 DEF Pick, Lists, Cursors
    <3>5. PICK c \in Int : c = cursor[opened]
      BY <3>4
    <3>6. c \in 0 .. n - 1
      BY <1>8, <3>1, <3>3, <3>4, <3>5 DEF Pick, Shown
    <3>7. c + 1 \in 1 .. n
      BY <3>6
    <3>8. PICK f \in FileItems : f = d[c + 1]
      BY <3>2, <3>3, <3>7, ElementOfSeq DEF Listing
    <3>9. PICK rest : rest = Among(recents, FileItems \ {f})
      OBVIOUS
    <3>10. Pruned(rest, FileItems, recents, FileItems \ {f})
      BY <1>0, <3>9, AmongPrunes
    <3>11. Listing(rest, FileItems) /\ ~ Contains(rest, f)
      BY <3>10 DEF Pruned
    <3>12. PICK m \in Nat : m = Len(rest)
      BY <3>11, LenProperties DEF Listing
    <3>13. PICK q : q = <<f>> \o rest
      OBVIOUS
    <3>14. Fronted(q, FileItems, rest, f, m)
      BY <3>11, <3>12, <3>13, FrontAdds
    <3>15. recents' = q
      BY <1>8, <2>3, <3>1, <3>5, <3>8, <3>9, <3>13 DEF Pick
    <3> QED
      BY <1>0, <2>1, <3>14, <3>15 DEF Fronted
  <2> QED
    BY <2>2, <2>3
<1>9. Listing(<<>>, Names)
  BY EmptyListing
<1> QED
  BY <1>0, <1>1, <1>2, <1>3, <1>4, <1>5, <1>6, <1>7, <1>8, <1>9 DEF PickNext

LEMMA ShownIsNat == PickKnown /\ Cursors => \A l : Shown(l) \in Nat
<1> SUFFICES ASSUME PickKnown, Cursors PROVE \A l : Shown(l) \in Nat
  OBVIOUS
<1>1. PICK d : d = DisplayList
  OBVIOUS
<1>2. Listing(d, FileItems)
  BY <1>1, Displayed DEF PickKnown
<1>3. Len(d) \in Nat
  BY <1>2, LenProperties DEF Listing
<1> QED
  BY <1>1, <1>3 DEF Shown, Cursors

\* A list that was reset has its cursor on the first item, if it has one.
LEMMA PointedIsOn ==
  ASSUME Cursors, NEW l \in Lists, Point(l), Shown(l)' \in Nat, opened' = l, Len(offers') \in Nat
  PROVE  Cursors' /\ CursorOnItem'
<1>1. /\ cursor' \in [Lists -> Int] /\ cursor'[l] = 0
      /\ shifted' \in [Lists -> BOOLEAN]
  BY DEF Point, Cursors
<1>2. CursorOnItem'
  BY <1>1 DEF CursorOnItem
<1> QED
  BY <1>1, <1>2 DEF Cursors

\* The dialog that is open stays as it is.
LEMMA CursorStays ==
  ASSUME Cursors, CursorOnItem, UNCHANGED <<opened, offers>>,
         cursor' \in [Lists -> Int], shifted' \in [Lists -> BOOLEAN],
         opened \in Lists =>
           shifted'[opened] \/ (shifted'[opened] = shifted[opened] /\ cursor'[opened] = cursor[opened]
                                 /\ Shown(opened)' = Shown(opened))
  PROVE  Cursors' /\ CursorOnItem'
  BY DEF Cursors, CursorOnItem

LEMMA SameList == UNCHANGED <<root, recents, query, results>> => UNCHANGED DisplayList
  BY DEF DisplayList, Matching, Here

LEMMA CursorStep ==
  PickKnown /\ PickKnown' /\ Cursors /\ CursorOnItem /\ PickNext => Cursors' /\ CursorOnItem'
<1> SUFFICES ASSUME PickKnown, PickKnown', Cursors, CursorOnItem, PickNext
             PROVE  Cursors' /\ CursorOnItem'
  OBVIOUS
<1>0. /\ opened \in Lists \cup {"url", "none"} /\ Len(offers) \in Nat
      /\ cursor \in [Lists -> Int] /\ shifted \in [Lists -> BOOLEAN]
      /\ Lists = {"files", "launcher"}
  BY DEF Cursors, Lists
<1>1. ASSUME Len(offers') \in Nat PROVE \A l : Shown(l)' \in Nat
  <2>1. PICK d : d = DisplayList'
    OBVIOUS
  <2>2. (PickLists => Listing(DisplayList, FileItems) /\ FileRows = DisplayList)'
    BY Displayed, PTL
  <2>3. Listing(d, FileItems)
    BY <2>1, <2>2 DEF PickKnown, Listing, FileItems, Once
  <2>4. Len(d) \in Nat
    BY <2>3, LenProperties DEF Listing
  <2> QED
    BY <1>1, <2>1, <2>4 DEF Shown
<1>2. UNCHANGED <<root, recents, query, results, offers>> => \A l : Shown(l)' = Shown(l)
  BY SameList DEF Shown
<1>3. UNCHANGED offers => Shown("launcher")' = Shown("launcher")
  BY DEF Shown
<1>4. ASSUME NEW w \in Lists \cup {"url"}, Toggle(w) PROVE Cursors' /\ CursorOnItem'
  <2>1. opened' \in Lists \cup {"url", "none"} /\ UNCHANGED offers
    BY <1>4 DEF Toggle
  <2>2. CASE opened' \in Lists
    BY <1>0, <1>1, <1>4, <2>1, <2>2, PointedIsOn DEF Toggle
  <2>3. CASE opened' \notin Lists
    <3>1. UNCHANGED <<cursor, shifted>>
      BY <1>4, <2>3 DEF Toggle
    <3> QED
      BY <1>0, <2>1, <2>3, <3>1 DEF Cursors, CursorOnItem
  <2> QED
    BY <2>2, <2>3
<1>5. ASSUME NEW r \in Roots, Reroot(r) PROVE Cursors' /\ CursorOnItem'
  <2>1. UNCHANGED <<opened, offers>>
    BY <1>5 DEF Reroot
  <2>2. CASE opened = "files"
    BY <1>0, <1>1, <1>5, <2>1, <2>2, PointedIsOn DEF Reroot
  <2>3. CASE opened # "files"
    <3>1. UNCHANGED <<cursor, shifted>>
      BY <1>5, <2>3 DEF Reroot
    <3> QED
      BY <1>0, <1>3, <2>1, <2>3, <3>1, CursorStays
  <2> QED
    BY <2>2, <2>3
<1>6. ASSUME NEW q \in DOMAIN Queries, TypeQuery(q) PROVE Cursors' /\ CursorOnItem'
  <2>1. UNCHANGED <<opened, offers>> /\ opened = "files"
    BY <1>6 DEF TypeQuery
  <2>2. CASE q = NoQuery
    BY <1>0, <1>1, <1>6, <2>1, <2>2, PointedIsOn DEF TypeQuery
  <2>3. CASE q # NoQuery
    <3>1. shifted' = [shifted EXCEPT !["files"] = TRUE] /\ cursor' = cursor
      BY <1>6, <2>3 DEF TypeQuery
    <3>2. shifted' \in [Lists -> BOOLEAN] /\ shifted'["files"]
      BY <1>0, <3>1
    <3> QED
      BY <1>0, <2>1, <3>1, <3>2, CursorStays
  <2> QED
    BY <2>2, <2>3
<1>7. CASE Search
  <2>1. UNCHANGED <<opened, offers, cursor, shifted>> /\ UNCHANGED <<root, recents, query, results>>
    BY <1>7 DEF Search
  <2> QED
    BY <1>0, <1>2, <2>1, CursorStays
<1>8. ASSUME NEW s \in searches, NEW ok \in BOOLEAN, Found(s, ok) PROVE Cursors' /\ CursorOnItem'
  <2>1. UNCHANGED <<opened, offers>> /\ UNCHANGED <<root, recents, query>>
    BY <1>8 DEF Found
  <2>2. CASE ok
    <3>1. Point("files")
      BY <1>8, <2>2 DEF Found
    <3>2. CASE opened = "files"
      BY <1>0, <1>1, <2>1, <3>1, <3>2, PointedIsOn
    <3>3. CASE opened # "files"
      <4>1. /\ cursor' \in [Lists -> Int] /\ shifted' \in [Lists -> BOOLEAN]
            /\ cursor'["launcher"] = cursor["launcher"] /\ shifted'["launcher"] = shifted["launcher"]
        BY <1>0, <3>1 DEF Point
      <4> QED
        BY <1>0, <1>3, <2>1, <3>3, <4>1, CursorStays
    <3> QED
      BY <3>2, <3>3
  <2>3. CASE ~ ok
    <3>1. UNCHANGED <<results, cursor, shifted>>
      BY <1>8, <2>3 DEF Found
    <3> QED
      BY <1>0, <1>2, <2>1, <3>1, CursorStays
  <2> QED
    BY <2>2, <2>3
<1>9. ASSUME NEW o \in Launchers, NEW typed \in BOOLEAN, Offer(o, typed) PROVE Cursors' /\ CursorOnItem'
  <2>1. Len(o) \in Nat
    <3>1. o \in Seq(Range(o))
      BY RecentsAssumption
    <3> QED
      BY <3>1, LenProperties
  <2>2. offers' = o /\ UNCHANGED opened /\ UNCHANGED <<root, recents, query, results>>
    BY <1>9 DEF Offer, searchVars
  <2>3. CASE typed
    BY <1>0, <1>1, <1>9, <2>1, <2>2, <2>3, PointedIsOn DEF Offer
  <2>4. CASE ~ typed
    <3>1. shifted' = [shifted EXCEPT !["launcher"] = TRUE] /\ cursor' = cursor
      BY <1>9, <2>4 DEF Offer
    <3>2. shifted' \in [Lists -> BOOLEAN] /\ shifted'["launcher"] /\ shifted'["files"] = shifted["files"]
      BY <1>0, <3>1
    <3>3. Shown("files")' = Shown("files")
      BY <2>2, SameList DEF Shown
    <3> QED
      BY <1>0, <2>1, <2>2, <3>1, <3>2, <3>3 DEF Cursors, CursorOnItem
  <2> QED
    BY <2>3, <2>4
<1>10. ASSUME opened \in Lists, NEW n, n = Shown(opened), NEW c \in Int,
              cursor' = [cursor EXCEPT ![opened] = c],
              shifted[opened] \/ n = 0 \/ c \in 0 .. n - 1,
              UNCHANGED <<opened, offers, shifted>>, UNCHANGED <<root, recents, query, results>>
       PROVE  Cursors' /\ CursorOnItem'
  <2>1. cursor' \in [Lists -> Int] /\ cursor'[opened] = c
    BY <1>0, <1>10
  <2>2. Shown(opened)' = n
    BY <1>2, <1>10
  <2> QED
    BY <1>0, <1>10, <2>1, <2>2 DEF Cursors, CursorOnItem
<1>11. ASSUME NEW by \in {-1, 1}, MoveCursor(by) PROVE Cursors' /\ CursorOnItem'
  <2>1. /\ opened \in Lists
        /\ UNCHANGED <<opened, offers, shifted>> /\ UNCHANGED <<root, recents, query, results>>
    BY <1>11 DEF MoveCursor, searchVars
  <2>2. PICK n \in Nat : n = Shown(opened)
    BY ShownIsNat
  <2>3. PICK c \in Int : c = cursor[opened]
    BY <1>0, <2>1
  <2>4. PICK x : x = IF by > 0 THEN IF c + by < n - 1 THEN c + by ELSE n - 1
                               ELSE IF c + by > 0 THEN c + by ELSE 0
    OBVIOUS
  <2>5. cursor' = [cursor EXCEPT ![opened] = x]
    BY <1>11, <2>2, <2>3, <2>4 DEF MoveCursor
  <2>6. shifted[opened] \/ n = 0 \/ c \in 0 .. n - 1
    BY <2>1, <2>2, <2>3 DEF CursorOnItem
  <2>7. x \in Int /\ (n = 0 \/ c \in 0 .. n - 1 => n = 0 \/ x \in 0 .. n - 1)
    BY <2>2, <2>3, <2>4
  <2>8. shifted[opened] \/ n = 0 \/ x \in 0 .. n - 1
    BY <2>6, <2>7
  <2> QED
    BY <1>10, <2>1, <2>2, <2>5, <2>7, <2>8
<1>12. ASSUME NEW i \in 0 .. Len(DisplayList) + Len(offers), Hover(i) PROVE Cursors' /\ CursorOnItem'
  <2>1. /\ opened \in Lists
        /\ UNCHANGED <<opened, offers, shifted>> /\ UNCHANGED <<root, recents, query, results>>
    BY <1>12 DEF Hover, searchVars
  <2>2. PICK n \in Nat : n = Shown(opened)
    BY ShownIsNat
  <2>3. i \in 0 .. n - 1 /\ cursor' = [cursor EXCEPT ![opened] = i]
    BY <1>12, <2>2 DEF Hover
  <2>4. i \in Int
    OBVIOUS
  <2> QED
    BY <1>10, <2>1, <2>2, <2>3, <2>4
<1>13. CASE Pick
  BY <1>0, <1>13 DEF Pick, Cursors, CursorOnItem
<1> QED
  BY <1>4, <1>5, <1>6, <1>7, <1>8, <1>9, <1>11, <1>12, <1>13 DEF PickNext

LEMMA PickStep == PickIInv /\ [PickNext]_pickVars => PickIInv'
<1> SUFFICES ASSUME PickIInv, [PickNext]_pickVars PROVE PickIInv'
  OBVIOUS
<1>1. CASE PickNext
  BY <1>1, KnownStep, CursorStep DEF PickIInv
<1>2. CASE UNCHANGED pickVars
  <2>1. UNCHANGED <<root, recents, query, results>> /\ UNCHANGED <<due, searches>>
    BY <1>2 DEF pickVars, searchVars
  <2>2. UNCHANGED <<opened, offers, cursor, shifted>>
    BY <1>2 DEF pickVars
  <2>3. PickKnown'
    BY <2>1 DEF PickIInv, PickKnown, PickLists, Searched
  <2>4. \A l : Shown(l)' = Shown(l)
    BY <2>1, <2>2, SameList DEF Shown
  <2> QED
    BY <2>2, <2>3, <2>4 DEF PickIInv, Cursors, CursorOnItem
<1> QED
  BY <1>1, <1>2

LEMMA PickInitially == PickInit => PickIInv
<1> SUFFICES ASSUME PickInit PROVE PickIInv
  OBVIOUS
<1>1. /\ opened = "none" /\ root \in Roots /\ recents \in Recents
      /\ query = NoQuery /\ results = <<>> /\ due = {} /\ searches = {}
  BY DEF PickInit
<1>2. /\ offers \in Launchers
      /\ cursor = [l \in Lists |-> 0] /\ shifted = [l \in Lists |-> FALSE]
  BY DEF PickInit
<1>3. Listing(recents, FileItems)
  <2>1. recents \in Seq(FileItems) /\ IsInjective(recents)
    BY <1>1, RecentsAssumption
  <2>2. DOMAIN recents = 1 .. Len(recents)
    BY <2>1, LenProperties
  <2> QED
    BY <2>1, <2>2 DEF Listing, Once, IsInjective
<1>4. Listing(results, Names)
  BY <1>1, EmptyListing
<1>5. PickKnown
  BY <1>1, <1>3, <1>4, QueriesAssumption DEF PickKnown, PickLists
<1>6. Len(offers) \in Nat
  <2>1. offers \in Seq(Range(offers))
    BY <1>2, RecentsAssumption
  <2> QED
    BY <2>1, LenProperties
<1>7. Cursors /\ CursorOnItem
  BY <1>1, <1>2, <1>6 DEF Cursors, CursorOnItem, Lists
<1> QED
  BY <1>5, <1>7 DEF PickIInv

LEMMA PickImplied == PickIInv => PickInv
<1> SUFFICES ASSUME PickIInv PROVE PickInv
  OBVIOUS
<1>1. PICK d : d = DisplayList
  OBVIOUS
<1>2. Listing(d, FileItems) /\ FileRows = d
  BY <1>1, Displayed DEF PickIInv, PickKnown
<1>3. DOMAIN d = 1 .. Len(d)
  BY <1>2, LenProperties DEF Listing
<1>4. IsInjective(d)
  BY <1>2, <1>3 DEF Listing, Once, IsInjective
<1> QED
  BY <1>1, <1>2, <1>4 DEF PickIInv, PickInv, EachFileOnce, HighlightedIsChosen

-----------------------------------------------------------------------------
-----------------------------------------------------------------------------
(* The pages *)

PanelsIInv == ViewIInv /\ SignGoes /\ (part = "links" => sample \in LinkSamples)

\* Every sample is a file and a link.
LEMMA SamplesArePaths ==
  \E E : LinkSamples \subseteq [file : [absolute : BOOLEAN, parts : Seq(E)],
                                link : [absolute : BOOLEAN, parts : Seq(E)]]
<1> PICK E : E = {"a", "b", "..", ".", NoName}
  OBVIOUS
<1>1. ASSUME NEW S, NEW n \in Nat, S \subseteq E PROVE SeqOf(S, n) \subseteq Seq(E)
  <2> SUFFICES ASSUME NEW s \in SeqOf(S, n) PROVE s \in Seq(E)
    OBVIOUS
  <2> PICK m \in Nat : s \in [1 .. m -> S]
    BY DEF SeqOf
  <2>1. s \in [1 .. m -> E]
    <3> \A i \in 1 .. m : s[i] \in E
      BY <1>1
    <3> QED
      OBVIOUS
  <2> QED
    BY <2>1
<1>2. Parts \subseteq Seq(E) /\ SeqOf({"a", ".."}, 2) \subseteq Seq(E)
  BY <1>1 DEF Parts
<1>3. ASSUME NEW s \in LinkSamples
      PROVE  s \in [file : [absolute : BOOLEAN, parts : Seq(E)],
                    link : [absolute : BOOLEAN, parts : Seq(E)]]
  <2> PICK f \in BOOLEAN \X SeqOf({"a", ".."}, 2), l \in BOOLEAN \X Parts :
        s = [file |-> Path(f[1], f[2]), link |-> Path(l[1], l[2])]
    BY DEF LinkSamples
  <2> QED
    BY <1>2 DEF Path
<1> QED
  BY <1>3

LEMMA PanelsImplied == PanelsIInv => PanelsTellTrue
<1> SUFFICES ASSUME PanelsIInv PROVE PanelsTellTrue
  OBVIOUS
<1>1. ViewerTypeOK /\ RevisitsShow /\ CountIsTrue /\ PaintedIsLive
  BY ViewImplied DEF PanelsIInv
<1>2. LinksAreWalks
  <2> SUFFICES ASSUME sample \in LinkSamples PROVE LinkIsWalk(sample.file, sample.link)
    BY DEF PanelsIInv, LinksAreWalks
  <2> PICK E : LinkSamples \subseteq [file : [absolute : BOOLEAN, parts : Seq(E)],
                                      link : [absolute : BOOLEAN, parts : Seq(E)]]
    BY SamplesArePaths
  <2> PICK file, link : file = sample.file /\ link = sample.link
    OBVIOUS
  <2>1. /\ file \in [absolute : BOOLEAN, parts : Seq(E)]
        /\ link \in [absolute : BOOLEAN, parts : Seq(E)]
    OBVIOUS
  <2>2. LinkIsWalk(file, link)
    BY <2>1, LinksWalk
  <2> QED
    BY <2>2
<1> QED
  BY <1>1, <1>2 DEF PanelsTellTrue, PanelsIInv

\* The panels say what is so: a text that was revisited is the one on the disk, the counter of
\* a search and what is painted are those of the text on the screen, the sign of a web page
\* goes, a link opens the file one arrives at.
THEOREM PanelsCorrect == Spec => []PanelsTellTrue
<1>1. Init => PanelsIInv
  <2> SUFFICES ASSUME Init PROVE PanelsIInv
    OBVIOUS
  <2>1. ViewInit /\ WebInit
    BY Zenon DEF Init, StillPanes, StillViewer, StillWeb
  <2>2. part = "links" => sample \in LinkSamples
    BY DEF Init
  <2> QED
    BY <2>1, <2>2, ViewInitially, SignStays DEF PanelsIInv
<1>2. PanelsIInv /\ [Next]_vars => PanelsIInv'
  <2> SUFFICES ASSUME PanelsIInv, [Next]_vars PROVE PanelsIInv'
    OBVIOUS
  <2>1. [ViewerNext]_viewerVars /\ [WebNext]_webVars
    <3>1. CASE OfViewer
      BY <3>1 DEF OfViewer
    <3>2. CASE OfWeb
      BY <3>2 DEF OfWeb
    <3>3. CASE OfResize \/ OfClip
      BY <3>3 DEF OfResize, OfClip
    <3>4. CASE OfDesk \/ OfConfig \/ OfForm \/ OfPick \/ OfCards \/ OfSheet
      <4>1. UNCHANGED paneVars
        BY <3>4, Zenon DEF OfDesk, OfConfig, OfForm, OfPick, OfCards, OfSheet
      <4> QED
        BY <4>1 DEF paneVars
    <3>5. CASE UNCHANGED vars
      BY <3>5 DEF vars, paneVars
    <3> QED
      BY <3>1, <3>2, <3>3, <3>4, <3>5 DEF Next
  <2>2. UNCHANGED <<part, sample>>
    BY DEF Next, vars
  <2>3. ViewIInv'
    BY <2>1, FilesStep, FindStep, FeedbackStep DEF PanelsIInv, ViewIInv, FilesInv, FindInv
  <2>4. SignGoes'
    BY <2>1, SignStays DEF PanelsIInv
  <2>5. (part = "links" => sample \in LinkSamples)'
    BY <2>2 DEF PanelsIInv
  <2> QED
    BY <2>3, <2>4, <2>5 DEF PanelsIInv
<1> QED
  BY <1>1, <1>2, PanelsImplied, PTL DEF Spec

LEMMA ConfigOnly == [Next]_vars => [ConfigNext]_configVars
<1> SUFFICES ASSUME [Next]_vars PROVE [ConfigNext]_configVars
  OBVIOUS
<1>1. CASE OfConfig
  BY <1>1 DEF OfConfig
<1>2. CASE OfResize \/ OfClip \/ OfViewer \/ OfWeb
  <2>1. UNCHANGED deskPageVars
    BY <1>2, Zenon DEF OfResize, OfClip, OfViewer, OfWeb
  <2> QED
    BY <2>1 DEF deskPageVars
<1>3. CASE OfCards \/ OfSheet
  <2>1. UNCHANGED deskPageVars
    BY <1>3, Zenon DEF OfCards, OfSheet
  <2> QED
    BY <2>1 DEF deskPageVars
<1>4. CASE OfDesk \/ OfForm \/ OfPick
  BY <1>4 DEF OfDesk, OfForm, OfPick
<1>5. CASE UNCHANGED vars
  BY <1>5 DEF vars, deskPageVars
<1> QED
  BY <1>1, <1>2, <1>3, <1>4, <1>5 DEF Next

\* Whatever saves fail, are mixed up or come late, what the server has once the newest one has
\* arrived is all that the page shows; what is gone is not watched, and what was launched is
\* offered again.
THEOREM ConfigCorrect == Spec => []ConfigInv
<1>1. Init => ConfigIInv
  BY ConfigInitially, Zenon DEF Init, StillDeskPage, StillConfig
<1>2. ConfigIInv /\ [Next]_vars => ConfigIInv'
  BY ConfigOnly, ConfigStep
<1> QED
  BY <1>1, <1>2, ConfigImplied, PTL DEF Spec

\* An agent stays watched until the user clicks on it or a fresh list lacks it.
THEOREM WatchedCorrect == Spec => WatchedStay
<1>1. Init => ConfigIInv
  BY ConfigInitially, Zenon DEF Init, StillDeskPage, StillConfig
<1>2. ConfigIInv /\ [Next]_vars => ConfigIInv'
  BY ConfigOnly, ConfigStep
<1>3. ConfigIInv /\ [Next]_vars => [WatchedHold]_configVars
  BY ConfigOnly, WatchedStep
<1>4. [WatchedHold]_configVars <=>
        [\A a \in Range(Watched) :
           loaded' /\ ~ early' /\ ~ Contains(config'.focused, a) =>
             (aliveOnce' /\ online' /\ a \notin alive') \/ Focus(a)]_configVars
  BY DEF WatchedHold
<1> QED
  BY <1>1, <1>2, <1>3, <1>4, PTL DEF Spec, WatchedStay

LEMMA StackOnly == [Next]_vars => [StackNext]_cardVars
<1> SUFFICES ASSUME [Next]_vars PROVE [StackNext]_cardVars
  OBVIOUS
<1>1. CASE OfCards
  BY <1>1 DEF OfCards
<1>2. CASE OfDesk \/ OfConfig \/ OfForm \/ OfPick \/ OfResize \/ OfClip \/ OfViewer \/ OfWeb
  <2>1. UNCHANGED mobileVars
    BY <1>2, Zenon DEF OfDesk, OfConfig, OfForm, OfPick, OfResize, OfClip, OfViewer, OfWeb
  <2> QED
    BY <2>1 DEF mobileVars
<1>3. CASE OfSheet
  BY <1>3 DEF OfSheet
<1>4. CASE UNCHANGED vars
  BY <1>4 DEF vars, mobileVars
<1> QED
  BY <1>1, <1>2, <1>3, <1>4 DEF Next

\* Each session has one card, some card is active, what is looked at is read, nothing is
\* counted for a card that is gone, and a touch opens one thing.
THEOREM StackCorrect == Spec => []StackInv
<1>1. Init => StackIInv
  BY StackInitially, Zenon DEF Init, StillMobile, StillCards
<1>2. StackIInv /\ [Next]_vars => StackIInv'
  BY StackOnly, StackStep
<1> QED
  BY <1>1, <1>2, StackImplied, PTL DEF Spec

\* Taking a card off leaves the one in front of the user where it is.
THEOREM PlaceCorrect == Spec => PlaceKept
<1>1. Init => StackIInv
  BY StackInitially, Zenon DEF Init, StillMobile, StillCards
<1>2. StackIInv /\ [Next]_vars => StackIInv'
  BY StackOnly, StackStep
<1>3. StackIInv /\ [Next]_vars => [PlaceHeld]_cardVars
  BY StackOnly, PlaceStep
<1>4. [PlaceHeld]_cardVars <=>
        [Current # NoCard /\ Contains(cards', Current) /\ Len(cards') < Len(cards)
           => ActiveCard(cards', active') = Current]_cardVars
  BY DEF PlaceHeld
<1> QED
  BY <1>1, <1>2, <1>3, <1>4, PTL DEF Spec, PlaceKept

LEMMA FormsOnly ==
  [Next]_vars => [FormNext]_formVars /\ [PickNext]_pickVars /\ [SheetNext]_sheetVars
<1> SUFFICES ASSUME [Next]_vars
             PROVE  [FormNext]_formVars /\ [PickNext]_pickVars /\ [SheetNext]_sheetVars
  OBVIOUS
<1>1. CASE OfForm
  BY <1>1, Zenon DEF OfForm, mobileVars
<1>2. CASE OfPick
  BY <1>2, Zenon DEF OfPick, mobileVars
<1>3. CASE OfSheet
  BY <1>3, Zenon DEF OfSheet, deskPageVars
<1>4. CASE OfDesk \/ OfConfig
  BY <1>4, Zenon DEF OfDesk, OfConfig, mobileVars
<1>5. CASE OfResize \/ OfClip \/ OfViewer \/ OfWeb
  BY <1>5, Zenon DEF OfResize, OfClip, OfViewer, OfWeb, deskPageVars, mobileVars
<1>6. CASE OfCards
  BY <1>6, Zenon DEF OfCards, deskPageVars
<1>7. CASE UNCHANGED vars
  BY <1>7 DEF vars, deskPageVars, mobileVars
<1> QED
  BY <1>1, <1>2, <1>3, <1>4, <1>5, <1>6, <1>7 DEF Next

\* What the dialogs owe the session that is made, and what Enter opens: no task is created
\* in a directory the server did not see, no row is chosen that was not highlighted, and a
\* sheet makes one session, the one it showed.
THEOREM FormsCorrect == Spec => []FormsInv
<1>1. Init => FormIInv /\ PickIInv /\ SheetIInv
  <2>1. Init => FormInit /\ PickInit /\ SheetInit
    BY Zenon DEF Init, StillDeskPage, StillForm, StillPick, StillMobile, StillSheet
  <2> QED
    BY <2>1, FormInitially, PickInitially, SheetInitially
<1>2. FormIInv /\ PickIInv /\ SheetIInv /\ [Next]_vars => (FormIInv /\ PickIInv /\ SheetIInv)'
  BY FormsOnly, FormStep, PickStep, SheetStep
<1>3. FormIInv /\ PickIInv /\ SheetIInv => FormsInv
  BY FormImplied, PickImplied, SheetImplied DEF FormsInv
<1> QED
  BY <1>1, <1>2, <1>3, PTL DEF Spec

\* A suggestion that was made for what is typed leads to a directory that exists, and no
\* answer resets what the user has filled in.
THEOREM DialogCorrect == Spec => SuggestionExists /\ FieldsStay
<1>1. Init => FormIInv
  <2>1. Init => FormInit
    BY Zenon DEF Init, StillDeskPage, StillForm
  <2> QED
    BY <2>1, FormInitially
<1>2. FormIInv /\ [Next]_vars => FormIInv'
  BY FormsOnly, FormStep
<1>3. FormIInv /\ [Next]_vars => [Leads]_formVars /\ [FieldsKept]_formVars
  BY FormsOnly, FormHolds
<1>4. [Leads]_formVars <=>
        [hints # <<>> /\ hints' = <<>> /\ form.cwd # <<>> /\ listFor = Front(form.cwd)
           /\ form'.cwd # form.cwd => form'.cwd \in Tree]_formVars
  BY DEF Leads
<1>5. [FieldsKept]_formVars <=>
        [shown /\ shown' /\ steps' = steps /\ proxy' = proxy =>
           \A f \in DOMAIN form \ {"cwd", "error"} : form'[f] = form[f]]_formVars
  BY DEF FieldsKept
<1> QED
  BY <1>1, <1>2, <1>3, <1>4, <1>5, PTL DEF Spec, SuggestionExists, FieldsStay

LEMMA DeskOnly == [Next]_vars => [DeskNext]_deskVars
<1> SUFFICES ASSUME [Next]_vars PROVE [DeskNext]_deskVars
  OBVIOUS
<1>1. CASE OfDesk
  BY <1>1, Zenon DEF OfDesk
<1>2. CASE OfConfig \/ OfForm \/ OfPick
  BY <1>2, Zenon DEF OfConfig, OfForm, OfPick
<1>3. CASE OfResize \/ OfClip \/ OfViewer \/ OfWeb \/ OfCards \/ OfSheet
  BY <1>3, Zenon DEF OfResize, OfClip, OfViewer, OfWeb, OfCards, OfSheet, deskPageVars
<1>4. CASE UNCHANGED vars
  BY <1>4 DEF vars, deskPageVars
<1> QED
  BY <1>1, <1>2, <1>3, <1>4 DEF Next

LEMMA DeskStays ==
  /\ Init => DeskIInv
  /\ DeskIInv /\ [Next]_vars => DeskIInv'
<1>1. Init => DeskIInv
  <2>1. Init => DeskInit
    BY Zenon DEF Init, StillDeskPage, StillDesk
  <2> QED
    BY <2>1, DeskInitially
<1>2. DeskIInv /\ [Next]_vars => DeskIInv'
  BY DeskOnly, DeskStep
<1> QED
  BY <1>1, <1>2

\* What the desktop page owes the user's tabs: a tab stays while its session lives, on the
\* page and in the layout that was saved; no panel outlives its session; what was deleted is
\* closed; and agents have a file side.
THEOREM DeskCorrect == Spec => []DeskInv
BY DeskStays, DeskImplied, PTL DEF Spec

\* A row of the tree that gets something to show opens, whatever was toggled by hand.
THEOREM RevealCorrect == Spec => NewContentIsRevealed
<1>1. [Next]_vars => [Revealed]_deskVars
  BY DeskOnly, RevealStep
<1>2. [Revealed]_deskVars <=>
        [\A r \in DOMAIN list \cap DOMAIN list' :
           AutoExpanded[r] # AutoExpanded'[r] => Expanded(r)' = AutoExpanded'[r]]_deskVars
  BY DEF Revealed
<1> QED
  BY <1>1, <1>2, PTL DEF Spec, NewContentIsRevealed

\* Whatever the page opens, closes, retires or tears down, agents stay to the left of files.
THEOREM LeftCorrect == Spec => AgentsLeft
<1>1. DeskIInv /\ [Next]_vars => [Leftward]_deskVars
  BY DeskOnly, SortStep
<1>2. [Leftward]_deskVars <=>
        [/\ Sorted /\ phase' = phase /\ left'.drag = left.drag
         /\ Together(groups) \/ (phase = "ready" /\ Docked(groups') \cap (Files \cup Urls) # {})
         => Sorted']_deskVars
  BY DEF Leftward
<1> QED
  BY DeskStays, <1>1, <1>2, PTL DEF Spec, AgentsLeft

\* What a step of a page may not do, part for part.
THEOREM StepsCorrect == Spec => PageSteps
BY RevealCorrect, LeftCorrect, WatchedCorrect, DialogCorrect, PlaceCorrect DEF PageSteps
=============================================================================
