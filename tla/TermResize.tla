----------------------------- MODULE TermResize -----------------------------
(***************************************************************************)
(* The size of a terminal: how a mounted terminal of useTerminalCore keeps *)
(* the rows of its xterm and of the session's PTY equal to what its        *)
(* container has room for, and makes the program repaint after a snapshot. *)
(*                                                                         *)
(* Columns go the way of the rows and are left out.  Timers fire in the    *)
(* order their delays give; animation frames come when the tab is visible. *)
(* Of the output only snapshots and DEC 2026, the synchronised-output      *)
(* mode, matter here; the stream itself is TermStream's.                   *)
(***************************************************************************)
EXTENDS Naturals, Sequences, SequencesExt, Lists

CONSTANTS
  Rooms,     \* rows the container may have room for, 0 while it has no layout
  SpawnRows, \* rows of the PTY when the server attaches to the daemon
  Budgets    \* how often each thing happens, see BudgetType

BudgetType ==
  [room : Nat, hide : Nat, fonts : Nat, drop : Nat, restart : Nat, other : Nat, output : Nat,
   remount : Nat]

ASSUME RoomsAssumption == Rooms \subseteq Nat /\ SpawnRows \in Nat \ {0}
ASSUME BudgetsAssumption == Budgets \subseteq BudgetType

VARIABLES
  budget,
  room,    \* rows the container has room for
  face,    \* the real font face has been measured
  onScreen,   \* the tab is visible
  rows,    \* rows of the xterm
  lastRows,
  timers,  \* "fit" (resizeTimer) and "nudge" (nudgeTimer) in the order they are due
  fit,     \* what the pending or last resizeTimer does: [immediate]
  frames,  \* animation frames until the settled fit (fitRaf1, fitRaf2), 0 if none
  settle,  \* that fit forces a redraw
  nudged,  \* the size nudgeTimer restores
  pendingForce, \* pendingForceRedraw
  batch,   \* writeBuf: "none" or a snapshot "normal", "alt"
  writes,  \* xterm's write queue
  latch,   \* who left xterm in synchronised output: "nobody", "snapshot", "output"
  sock,    \* "closed", "attached" (a snapshot is coming), "open"
  prime,   \* the next attach gets a snapshot
  net,     \* resize frames on their way
  pty,     \* rows of the PTY
  blank,   \* wiped or reset, and the program has had no SIGWINCH since
  deaf,    \* a resize was swallowed or lost on the way since the last snapshot
  foreign, \* another client resized the PTY since this one last took over
  raced    \* a nudge restored another size than the latest one

layoutVars == <<room, face, onScreen>>
fitVars    == <<rows, lastRows, timers, fit, frames, settle, nudged, pendingForce>>
paintVars  == <<batch, writes, latch>>
linkVars   == <<sock, prime, net, pty>>
ghostVars  == <<blank, deaf, foreign, raced>>
resizeVars == <<budget, layoutVars, fitVars, paintVars, linkVars, ghostVars>>

ResizeInit ==
  /\ budget \in Budgets
  /\ room \in Rooms /\ face = FALSE /\ onScreen = TRUE
  /\ rows = 0 /\ lastRows = 0 /\ timers = <<>> /\ fit = [immediate |-> FALSE]
  /\ frames = 0 /\ settle = FALSE /\ nudged = 0 /\ pendingForce = FALSE
  /\ batch = "none" /\ writes = <<>> /\ latch = "nobody"
  /\ sock = "closed" /\ prime = TRUE /\ net = <<>> /\ pty = SpawnRows
  /\ blank = FALSE /\ deaf = FALSE /\ foreign = FALSE /\ raced = FALSE

Allowed(what) ==
  /\ budget[what] > 0
  /\ budget' = [budget EXCEPT ![what] = @ - 1]

-----------------------------------------------------------------------------
(* The resize pipeline *)

\* A fallback face has smaller cells, so more rows seem to fit.
Proposed == IF room = 0 THEN 0 ELSE IF face THEN room ELSE room + 1

Cancel(timer) == Among(timers, {"fit", "nudge"} \ {timer})
Connected == sock # "closed"

\* sendResize: lost without a word when the socket is not open.
SendResize(r, record) ==
  IF Connected
  THEN /\ net' = Append(net, r)
       /\ lastRows' = IF record THEN r ELSE lastRows
       /\ UNCHANGED deaf
  ELSE deaf' = TRUE /\ UNCHANGED <<net, lastRows>>

\* forcePtyRedraw: one row off first, back after a delay.
ForcePtyRedraw(r) ==
  /\ nudged' = r
  /\ timers' = Append(Cancel("nudge"), "nudge")
  /\ SendResize(IF r > 2 THEN r - 1 ELSE r + 1, FALSE)

\* runFit, with the timers that are left when it runs.
RunFit(force) ==
  IF Proposed = 0
  THEN UNCHANGED <<rows, lastRows, nudged, pendingForce, timers, net, deaf>>
  ELSE /\ rows' = Proposed
       /\ IF force
          THEN IF Proposed < 2
               THEN UNCHANGED <<lastRows, nudged, pendingForce, timers, net, deaf>>
               ELSE ForcePtyRedraw(Proposed) /\ pendingForce' = FALSE
          ELSE /\ UNCHANGED <<nudged, pendingForce, timers>>
               /\ IF Proposed = lastRows
                  THEN UNCHANGED <<lastRows, net, deaf>>
                  ELSE SendResize(Proposed, TRUE)

\* (Mutant of ScheduleFit: the timer that replaces a pending one forgets its force.)
ForgetfulSchedule(immediate, force) ==
  /\ pendingForce' = (pendingForce \/ force)
  /\ timers' = Append(Cancel("fit"), "fit")
  /\ fit' = [immediate |-> immediate \/ force]

\* scheduleFit: a forced redraw stays due until one has been sent.
ScheduleFit(immediate, force) ==
  /\ pendingForce' = (pendingForce \/ force)
  /\ timers' = Append(Cancel("fit"), "fit")
  /\ fit' = [immediate |-> immediate \/ pendingForce']

\* resizeTimer: at once, then once more after the layout has settled; or just once.
FitTimer ==
  /\ Contains(timers, "fit")
  /\ fit.immediate \/ Head(timers) = "fit"
  /\ timers' = Cancel("fit")
  /\ IF fit.immediate THEN frames' = 2 /\ settle' = pendingForce ELSE UNCHANGED <<frames, settle>>
  /\ IF Proposed = 0
     THEN UNCHANGED <<rows, lastRows, net, deaf>>
     ELSE /\ rows' = Proposed
          /\ IF Proposed = lastRows THEN UNCHANGED <<lastRows, net, deaf>>
                                    ELSE SendResize(Proposed, TRUE)
  /\ UNCHANGED <<budget, layoutVars, fit, nudged, pendingForce, paintVars, sock, prime, pty,
                 blank, foreign, raced>>

\* fitRaf1, fitRaf2
Frame ==
  /\ onScreen /\ frames > 0
  /\ frames' = frames - 1
  /\ IF frames = 1 THEN RunFit(settle)
                   ELSE UNCHANGED <<rows, lastRows, nudged, pendingForce, timers, net, deaf>>
  /\ UNCHANGED <<budget, layoutVars, fit, settle, paintVars, sock, prime, pty, blank, foreign,
                 raced>>

NudgeTimer ==
  /\ timers # <<>> /\ Head(timers) = "nudge"
  /\ timers' = Tail(timers)
  /\ SendResize(nudged, TRUE)
  /\ raced' = (raced \/ nudged # rows)
  /\ UNCHANGED <<budget, layoutVars, rows, fit, frames, settle, nudged, pendingForce, paintVars,
                 sock, prime, pty, blank, foreign>>

-----------------------------------------------------------------------------
(* What the page does *)

\* The container is resized, laid out or hidden; window and visualViewport
\* resizes schedule the same fit.
Resize(r) ==
  /\ Allowed("room")
  /\ r # room
  /\ room' = r
  /\ ScheduleFit(FALSE, FALSE)
  /\ raced' = FALSE
  /\ UNCHANGED <<face, onScreen, rows, lastRows, frames, settle, nudged, paintVars, linkVars,
                 blank, deaf, foreign>>

Hide ==
  /\ Allowed("hide")
  /\ onScreen /\ onScreen' = FALSE
  /\ UNCHANGED <<room, face, fitVars, paintVars, linkVars, ghostVars>>

\* visibilitychange: take the PTY's size back from whoever has it.
Show ==
  /\ ~onScreen /\ onScreen' = TRUE
  /\ lastRows' = 0
  /\ writes' = Append(writes, "release")
  /\ foreign' = FALSE
  /\ UNCHANGED <<budget, room, face, rows, timers, fit, frames, settle, nudged, pendingForce,
                 batch, latch, linkVars, blank, deaf, raced>>

\* fonts.ready or loadingdone
RemeasureFontsAndFit ==
  /\ Allowed("fonts")
  /\ face' = TRUE
  /\ lastRows' = 0
  /\ ScheduleFit(TRUE, TRUE)
  /\ raced' = FALSE
  /\ UNCHANGED <<room, onScreen, rows, frames, settle, nudged, paintVars, linkVars,
                 blank, deaf, foreign>>

-----------------------------------------------------------------------------
(* Snapshots *)

\* onmessage, seq 0: it replaces what was not painted yet.
Arrive(screen) ==
  /\ sock = "attached"
  /\ sock' = "open" /\ prime' = FALSE
  /\ batch' = screen
  /\ UNCHANGED <<budget, layoutVars, fitVars, writes, latch, net, pty, ghostVars>>

\* onmessage, live output: of interest is the program that repaints in steps,
\* and what it leaves open.
Output(begins) ==
  /\ Allowed("output")
  /\ sock = "open" /\ batch = "none"
  /\ writes' = Append(writes, IF begins THEN "begin" ELSE "end")
  /\ UNCHANGED <<layoutVars, fitVars, batch, latch, linkVars, ghostVars>>

Flush ==
  /\ onScreen /\ batch # "none"
  /\ batch' = "none"
  /\ writes' = Append(writes, batch)
  /\ UNCHANGED <<budget, layoutVars, fitVars, latch, linkVars, ghostVars>>

\* xterm has parsed a write and runs its callback: after a snapshot the wipe of
\* an alternate screen, then the end of synchronised output, then the redraw.
Written ==
  /\ writes # <<>>
  /\ LET w == Head(writes)
     IN /\ writes' = CASE w = "alt" -> Append(Tail(writes), "wipe")
                       [] w \in {"normal", "wipe"} -> Append(Tail(writes), "close")
                       [] OTHER -> Tail(writes)
        /\ latch' \in CASE w \in {"alt", "normal"} -> {"nobody", "snapshot"}
                        [] w = "begin" -> {"output"}
                        [] w \in {"end", "close", "release"} -> {"nobody"}
                        [] OTHER -> {latch}
        /\ blank' = (blank \/ w \in {"alt", "normal", "wipe"})
        /\ deaf' = (deaf /\ w \notin {"alt", "normal"})
        /\ IF w = "close" THEN ScheduleFit(TRUE, TRUE)
           ELSE IF w = "release" THEN ScheduleFit(TRUE, FALSE)
           ELSE UNCHANGED <<timers, fit, pendingForce>>
  /\ UNCHANGED <<budget, layoutVars, rows, lastRows, frames, settle, nudged, batch, linkVars,
                 foreign, raced>>

-----------------------------------------------------------------------------
(* The connection *)

\* onopen: the attach, and a fit.
Open ==
  /\ sock = "closed"
  /\ sock' \in IF prime THEN {"attached"} ELSE {"open", "attached"}
  /\ ScheduleFit(TRUE, FALSE)
  /\ UNCHANGED <<budget, layoutVars, rows, lastRows, frames, settle, nudged, paintVars, prime,
                 net, pty, ghostVars>>

\* onclose; what was on its way is lost.  With a new attach id, the server that
\* came back attaches to the daemon with the size it spawns terminals with.
Cut(restarted) ==
  /\ Allowed(IF restarted THEN "restart" ELSE "drop")
  /\ Connected
  /\ sock' = "closed" /\ net' = <<>>
  /\ deaf' = (deaf \/ net # <<>>)
  /\ prime' = (prime \/ restarted)
  /\ pty' = IF restarted THEN SpawnRows ELSE pty
  /\ UNCHANGED <<layoutVars, fitVars, paintVars, blank, foreign, raced>>

\* The daemon gets a resize: the program sees SIGWINCH when the size differs.
Deliver ==
  /\ net # <<>>
  /\ net' = Tail(net) /\ pty' = Head(net)
  /\ blank' = (blank /\ pty = Head(net))
  /\ foreign' = FALSE
  /\ UNCHANGED <<budget, layoutVars, fitVars, paintVars, sock, prime, deaf, raced>>

\* Another client of the session.
OtherResizes(r) ==
  /\ Allowed("other")
  /\ r # 0 /\ pty # r
  /\ pty' = r
  /\ foreign' = TRUE /\ blank' = FALSE
  /\ UNCHANGED <<layoutVars, fitVars, paintVars, sock, prime, net, deaf, raced>>

\* The effect runs anew: a fresh xterm with fresh timers; lastSeqRef stays.
Remount ==
  /\ Allowed("remount")
  /\ rows' = 0 /\ lastRows' = 0 /\ timers' = <<>> /\ frames' = 0 /\ settle' = FALSE
  /\ nudged' = 0 /\ pendingForce' = FALSE /\ fit' = [immediate |-> FALSE]
  /\ batch' = "none" /\ writes' = <<>> /\ latch' = "nobody"
  /\ sock' = "closed" /\ net' = <<>>
  /\ blank' = FALSE /\ deaf' = FALSE /\ raced' = FALSE
  /\ UNCHANGED <<layoutVars, prime, pty, foreign>>

ResizeNext ==
  \/ FitTimer \/ Frame \/ NudgeTimer
  \/ (\E r \in Rooms : Resize(r)) \/ Hide \/ Show \/ RemeasureFontsAndFit
  \/ (\E s \in {"normal", "alt"} : Arrive(s)) \/ (\E b \in BOOLEAN : Output(b))
  \/ Flush \/ Written
  \/ Open \/ (\E b \in BOOLEAN : Cut(b)) \/ Deliver
  \/ (\E r \in Rooms : OtherResizes(r)) \/ Remount

-----------------------------------------------------------------------------
(* Correctness *)

ResizeTypeOK ==
  /\ budget \in BudgetType
  /\ room \in Rooms /\ {face, onScreen, settle, pendingForce, prime} \subseteq BOOLEAN
  /\ {rows, lastRows, nudged, pty} \subseteq Nat
  /\ Range(timers) \subseteq {"fit", "nudge"} /\ IsInjective(timers)
  /\ fit \in [immediate : BOOLEAN] /\ frames \in 0 .. 2
  /\ batch \in {"none", "normal", "alt"} /\ latch \in {"nobody", "snapshot", "output"}
  /\ Range(writes) \subseteq {"normal", "alt", "wipe", "close", "release", "begin", "end"}
  /\ sock \in {"closed", "attached", "open"}
  /\ net \in Seq(Nat)
  /\ {blank, deaf, foreign, raced} \subseteq BOOLEAN

\* Nothing is under way on a terminal that is on the screen and connected.
Settled ==
  /\ sock = "open" /\ onScreen /\ room # 0
  /\ timers = <<>> /\ frames = 0 /\ batch = "none" /\ writes = <<>> /\ net = <<>>

\* When all is quiet, the xterm and the PTY have the size of the container:
\* however resizes, hidden tabs, fonts, snapshots and restarts of the server
\* fall on each other.  Unless another client took the PTY since this tab was
\* last shown, a resize was lost with its connection, the second half of a nudge
\* came after a newer size, or the redraw that would tell the PTY is due and never
\* comes, as in a terminal of one row.
SettledFits ==
  Settled => /\ rows = Proposed
             /\ foreign \/ deaf \/ raced \/ pendingForce \/ pty = Proposed

\* The redraw after a snapshot is never forgotten: while it is due and there is
\* room for a terminal, something that will run it is scheduled.
ForceIsComing ==
  pendingForce /\ Proposed >= 2 => Contains(timers, "fit") \/ (frames > 0 /\ settle)

\* A snapshot that ended inside a synchronised update does not leave the screen
\* frozen once it is painted.
SnapshotUnlatches ==
  latch = "snapshot" => Range(writes) \cap {"normal", "alt", "wipe", "close"} # {}

\* After a snapshot the program sees a change of size and repaints, unless the
\* connection was gone when it was to be told.
SnapshotIsRedrawn ==
  Settled /\ Proposed >= 2 /\ ~deaf => ~blank

\* What a terminal owes the size of its container and the program's screen.
ResizeInv == ResizeTypeOK /\ SettledFits /\ ForceIsComing /\ SnapshotUnlatches /\ SnapshotIsRedrawn

=============================================================================
