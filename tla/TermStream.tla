----------------------------- MODULE TermStream -----------------------------
(***************************************************************************)
(* The output path of a terminal session, end to end: daemon (PtyDaemon),  *)
(* the server's SessionClient with its History and attach_id, the          *)
(* WebSocket handler that primes a browser and then forwards the live      *)
(* broadcast, and the xterm side of useTerminalCore with its last_seq and  *)
(* attach_id cursor.  Connections drop, the server restarts, daemons exit, *)
(* crash and are respawned, receivers lag, and browsers remount.           *)
(*                                                                         *)
(* Simplifications: what a browser's broadcast receiver holds and what is  *)
(* in flight on its WebSocket are one queue, rx; the browser's write       *)
(* buffer and its xterm are one, view; the DEC mode prefix of a snapshot   *)
(* is left out (it carries no output).                                     *)
(***************************************************************************)
EXTENDS PtyDaemon, FiniteSets

CONSTANTS
  Browsers,    \* browser tabs showing the session
  Nobody,      \* stands for the resume endpoint, which has no WebSocket
  HistMax,     \* HISTORY_MAX_BYTES, in chunks
  WsCap,       \* capacity of SessionClient.tx (256 in the code)
  MaxRestarts, \* bound on server restarts
  MaxDrops,    \* bound on dropped WebSockets
  MaxRemounts  \* bound on effect re-runs that replace the xterm

ASSUME ServerAssumption ==
  /\ Nobody \notin Browsers
  /\ HistMax \in Nat
  /\ WsCap \in Nat \ {0}
  /\ MaxRestarts \in Nat
  /\ MaxDrops \in Nat
  /\ MaxRemounts \in Nat

VARIABLES
  cid,      \* attach_id of the conversation's SessionClient, 0 for none
  epochs,   \* attach_ids handed out so far
  hist,     \* History.chunks: entries [seq, data]
  next,     \* History.next_seq
  alive,    \* SessionClient.alive
  resumer,  \* whose resume holds the manager lock while conn = "subscribed"
  bst,      \* each browser's WebSocket: "closed", "upgraded", "open"
  ep,       \* attach_id of the SessionClient its receiver belongs to
  prime,    \* catch-up frames and the hello, not yet received
  rx,       \* live frames, not yet received
  lost,     \* chunks its lagging receiver skipped
  lastSeq,  \* lastSeqRef
  aid,      \* attachIdRef, 0 for null
  view,     \* frames painted since the xterm was last reset
  restarts, drops, remounts,
  overrun   \* history variable: some handshake was Overrun

clientVars == <<cid, epochs, hist, next, alive>>
wsVars     == <<bst, ep, prime, rx, lost>>
pageVars   == <<lastSeq, aid, view>>
faultVars  == <<restarts, drops, remounts, overrun>>
serverVars == <<clientVars, resumer, wsVars, pageVars, faultVars>>
vars == <<daemonVars, serverVars>>

\* A cursor that claims nothing.
Null == -1

\* The manager mutex is free; resume holds it across its awaits.
LockFree == conn # "subscribed"

\* conv.client is there and is_alive().
ClientUp == cid # 0 /\ alive

\* A binary WebSocket frame; seq 0 marks a snapshot.  top is no part of the
\* frame: it records the highest seq whose bytes the frame carries.
Frame(s, d, t) == [kind |-> "chunk", seq |-> s, data |-> d, top |-> t, id |-> 0]

\* The text frame that closes the catch-up.
HelloFrame(s, i) == [kind |-> "hello", seq |-> s, data |-> {}, top |-> s, id |-> i]
-----------------------------------------------------------------------------
(* History *)

\* History::append, for the entry carrying sequence number s.
HistAppend(h, s, d) ==
  LET t == Append(h, [seq |-> s, data |-> d])
  IN  Evict(t, [i \in 1 .. Len(t) |-> Cardinality(t[i].data)], HistMax)

\* (Mutant of LatestSeq: off by one.)
LatestSeqHigh == next

\* History::latest_seq.
LatestSeq == next - 1

\* (Mutant of Since: the entry at ls is sent again.)
SinceInclusive(h, ls) ==
  LET k == CHOOSE k \in 1 .. (Len(h) + 1) :
             /\ \A i \in 1 .. (k - 1) : h[i].seq < ls
             /\ \A i \in k .. Len(h) : h[i].seq >= ls
  IN  SuffixFrom(h, k)

\* The entries above ls: History::since on a deque in seq order.
Since(h, ls) ==
  LET k == CHOOSE k \in 1 .. (Len(h) + 1) :
             /\ \A i \in 1 .. (k - 1) : h[i].seq <= ls
             /\ \A i \in k .. Len(h) : h[i].seq > ls
  IN  SuffixFrom(h, k)

\* History::full_snapshot, as the chunks it holds.
FullSnapshot(h) == UNION {h[i].data : i \in 1 .. Len(h)}

\* (Mutant of CatchUp: the attach_id is not compared.)
CatchUpAnyEpoch(ls, a) ==
  LET delta == Since(hist, ls)
  IN  IF ls # Null /\ ls >= LatestSeq
      THEN <<>>
      ELSE IF ls # Null /\ hist # <<>> /\ ls >= hist[1].seq - 1
      THEN [i \in 1 .. Len(delta) |-> Frame(delta[i].seq, delta[i].data, delta[i].seq)]
      ELSE <<Frame(0, FullSnapshot(hist), LatestSeq)>>

\* (Mutant of CatchUp: a claim that fell out of the history gets a delta.)
CatchUpNoEarliest(ls, a) ==
  LET claim == IF a = cid THEN ls ELSE Null
      delta == Since(hist, claim)
  IN  IF claim # Null /\ claim >= LatestSeq
      THEN <<>>
      ELSE IF claim # Null /\ hist # <<>>
      THEN [i \in 1 .. Len(delta) |-> Frame(delta[i].seq, delta[i].data, delta[i].seq)]
      ELSE <<Frame(0, FullSnapshot(hist), LatestSeq)>>

\* (Mutant of CatchUp: one chunk behind counts as up to date.)
CatchUpAlmost(ls, a) ==
  LET claim == IF a = cid THEN ls ELSE Null
      delta == Since(hist, claim)
  IN  IF claim # Null /\ claim >= LatestSeq - 1
      THEN <<>>
      ELSE IF claim # Null /\ hist # <<>> /\ claim >= hist[1].seq - 1
      THEN [i \in 1 .. Len(delta) |-> Frame(delta[i].seq, delta[i].data, delta[i].seq)]
      ELSE <<Frame(0, FullSnapshot(hist), LatestSeq)>>

\* The frames a browser claiming <<ls, a>> is primed with by attach().
CatchUp(ls, a) ==
  LET claim == IF a = cid THEN ls ELSE Null
      delta == Since(hist, claim)
  IN  IF claim # Null /\ claim >= LatestSeq
      THEN <<>>
      ELSE IF claim # Null /\ hist # <<>> /\ claim >= hist[1].seq - 1
      THEN [i \in 1 .. Len(delta) |-> Frame(delta[i].seq, delta[i].data, delta[i].seq)]
      ELSE <<Frame(0, FullSnapshot(hist), LatestSeq)>>
-----------------------------------------------------------------------------
Init ==
  /\ DaemonInit
  /\ cid = 0
  /\ epochs = 0
  /\ hist = <<>>
  /\ next = 1
  /\ alive = FALSE
  /\ resumer = Nobody
  /\ bst = [b \in Browsers |-> "closed"]
  /\ ep = [b \in Browsers |-> 0]
  /\ prime = [b \in Browsers |-> <<>>]
  /\ rx = [b \in Browsers |-> <<>>]
  /\ lost = [b \in Browsers |-> {}]
  /\ lastSeq = [b \in Browsers |-> Null]
  /\ aid = [b \in Browsers |-> 0]
  /\ view = [b \in Browsers |-> <<>>]
  /\ restarts = 0
  /\ drops = 0
  /\ remounts = 0
  /\ overrun = FALSE

(* The daemon on its own *)
DaemonStep ==
  /\ PtyRead \/ PtyBroadcast \/ ChildExit \/ DaemonGone
  /\ UNCHANGED serverVars

\* ws_handler (or the resume endpoint, who = Nobody) finds no live client:
\* resume() takes over the manager lock and connects to a daemon.
Resume(who) ==
  /\ LockFree
  /\ ~ ClientUp
  /\ who # Nobody => bst[who] = "closed"
  /\ Accept
  /\ resumer' = who
  /\ UNCHANGED <<clientVars, wsVars, pageVars, faultVars>>

\* More than a ring of output was printed between the subscription and the
\* snapshot: what waits in the receiver begins below what the ring still
\* holds, with a gap in between.
Overrun ==
  \E i \in 1 .. Len(dq) :
    dq[i] # Exit /\ dq[i] \notin Replay /\ dq[i] + 1 \notin Replay

\* SessionClient::connect got its Hello: a new client with a new attach_id
\* replaces the old one, its history seeded with the replay as one entry.
Connected ==
  /\ conn = "subscribed"
  /\ dstate # "down"
  /\ conn' = "live"
  /\ epochs' = epochs + 1
  /\ cid' = epochs + 1
  /\ alive' = TRUE
  /\ IF ring = <<>>
     THEN /\ hist' = <<>>
          /\ next' = 1
     ELSE /\ hist' = HistAppend(<<>>, 1, Replay)
          /\ next' = 2
  /\ bst' = IF resumer = Nobody THEN bst ELSE [bst EXCEPT ![resumer] = "upgraded"]
  /\ resumer' = Nobody
  /\ overrun' = (overrun \/ Overrun)
  /\ UNCHANGED <<out, ring, unsent, dstate, dq, dlost, spawns, ep, prime, rx,
                 lost, pageVars, restarts, drops, remounts>>

\* The daemon died under the handshake: resume() fails.  ws_handler ignores
\* the error and goes on with the dead client when there is one.
ResumeFailed ==
  /\ conn = "subscribed"
  /\ dstate = "down"
  /\ conn' = "none"
  /\ bst' = IF resumer = Nobody \/ cid = 0
            THEN bst ELSE [bst EXCEPT ![resumer] = "upgraded"]
  /\ resumer' = Nobody
  /\ UNCHANGED <<out, ring, unsent, dstate, dq, dlost, spawns, clientVars,
                 ep, prime, rx, lost, pageVars, faultVars>>

\* ws_handler with a live client: nothing to resume.
Upgrade(b) ==
  /\ LockFree
  /\ ClientUp
  /\ bst[b] = "closed"
  /\ bst' = [bst EXCEPT ![b] = "upgraded"]
  /\ UNCHANGED <<daemonVars, clientVars, resumer, ep, prime, rx, lost,
                 pageVars, faultVars>>

\* handle_ws received the Attach frame: subscribe and compute the catch-up
\* under the history lock, then prime the browser and say hello.
Attach(b) ==
  /\ LockFree
  /\ bst[b] = "upgraded"
  /\ cid # 0
  /\ bst' = [bst EXCEPT ![b] = "open"]
  /\ ep' = [ep EXCEPT ![b] = cid]
  /\ prime' = [prime EXCEPT ![b] = Append(CatchUp(lastSeq[b], aid[b]),
                                          HelloFrame(LatestSeq, cid))]
  /\ rx' = [rx EXCEPT ![b] = <<>>]
  /\ UNCHANGED <<daemonVars, clientVars, resumer, lost, pageVars, faultVars>>

\* The reader task of SessionClient takes a Stdout frame: the chunk enters
\* the history and every receiver, under the history lock.
ReadStdout ==
  LET listening(b) == bst[b] = "open" /\ ep[b] = cid
      f == Frame(next, {Head(dq)}, next)
  IN  /\ conn = "live"
      /\ dq # <<>>
      /\ Head(dq) # Exit
      /\ dq' = Tail(dq)
      /\ hist' = HistAppend(hist, next, {Head(dq)})
      /\ next' = next + 1
      /\ rx' = [b \in Browsers |->
                  IF listening(b) THEN Push(rx[b], f, WsCap) ELSE rx[b]]
      /\ lost' = [b \in Browsers |->
                  IF listening(b)
                  THEN lost[b] \cup UNION {g.data : g \in Skipped(rx[b], WsCap)}
                  ELSE lost[b]]
      /\ UNCHANGED <<out, ring, unsent, dstate, conn, dlost, spawns, cid, epochs,
                     alive, resumer, bst, ep, prime, pageVars, faultVars>>

\* The reader task takes ChildExited and stops.
ReadExit ==
  /\ conn = "live"
  /\ dq # <<>>
  /\ Head(dq) = Exit
  /\ conn' = "none"
  /\ dq' = <<>>
  /\ alive' = FALSE
  /\ UNCHANGED <<out, ring, unsent, dstate, dlost, spawns, cid, epochs, hist,
                 next, resumer, wsVars, pageVars, faultVars>>

\* The reader task sees the socket close.
ReadEof ==
  /\ conn = "none"
  /\ alive
  /\ alive' = FALSE
  /\ UNCHANGED <<daemonVars, cid, epochs, hist, next, resumer, wsVars, pageVars,
                 faultVars>>

\* neige-server restarts: every WebSocket and the client are gone, daemons
\* live on.
Restart ==
  /\ restarts < MaxRestarts
  /\ restarts' = restarts + 1
  /\ conn' = "none"
  /\ dq' = <<>>
  /\ cid' = 0
  /\ hist' = <<>>
  /\ next' = 1
  /\ alive' = FALSE
  /\ resumer' = Nobody
  /\ bst' = [b \in Browsers |-> "closed"]
  /\ ep' = [b \in Browsers |-> 0]
  /\ prime' = [b \in Browsers |-> <<>>]
  /\ rx' = [b \in Browsers |-> <<>>]
  /\ UNCHANGED <<out, ring, unsent, dstate, dlost, spawns, epochs, lost,
                 pageVars, drops, remounts, overrun>>
-----------------------------------------------------------------------------
(* The browser *)

\* ws.onmessage with frame f.
Paint(b, f) ==
  IF f.kind = "hello"
  THEN /\ lastSeq' = [lastSeq EXCEPT ![b] = f.seq]
       /\ aid' = [aid EXCEPT ![b] = f.id]
       /\ UNCHANGED view
  ELSE /\ view' = [view EXCEPT ![b] = IF f.seq = 0 THEN <<f>> ELSE Append(@, f)]
       /\ lastSeq' = [lastSeq EXCEPT ![b] = IF f.seq = 0 THEN Null ELSE f.seq]
       /\ UNCHANGED aid

\* The next frame of the connection arrives: catch-up first, live after.
Receive(b) ==
  /\ bst[b] = "open"
  /\ \/ /\ prime[b] # <<>>
        /\ Paint(b, Head(prime[b]))
        /\ prime' = [prime EXCEPT ![b] = Tail(@)]
        /\ UNCHANGED rx
     \/ /\ prime[b] = <<>>
        /\ rx[b] # <<>>
        /\ Paint(b, Head(rx[b]))
        /\ rx' = [rx EXCEPT ![b] = Tail(@)]
        /\ UNCHANGED prime
  /\ UNCHANGED <<daemonVars, clientVars, resumer, bst, ep, lost, faultVars>>

\* Everything the connection still held for b is gone.
Disconnect(b) ==
  /\ bst' = [bst EXCEPT ![b] = "closed"]
  /\ ep' = [ep EXCEPT ![b] = 0]
  /\ prime' = [prime EXCEPT ![b] = <<>>]
  /\ rx' = [rx EXCEPT ![b] = <<>>]

\* An established WebSocket breaks; the page keeps its cursor and its xterm.
\* (While the upgrade is being resumed there is nothing to break yet.)
Drop(b) ==
  /\ drops < MaxDrops
  /\ bst[b] # "closed"
  /\ drops' = drops + 1
  /\ Disconnect(b)
  /\ UNCHANGED <<daemonVars, clientVars, resumer, lost, pageVars, restarts,
                 remounts, overrun>>

\* The effect re-runs (theme, font, scrollback): a new xterm and a new
\* WebSocket, but lastSeqRef and attachIdRef are refs and survive.
Remount(b) ==
  /\ remounts < MaxRemounts
  /\ bst[b] # "closed"
  /\ remounts' = remounts + 1
  /\ Disconnect(b)
  /\ view' = [view EXCEPT ![b] = <<>>]
  /\ UNCHANGED <<daemonVars, clientVars, resumer, lost, lastSeq, aid, restarts,
                 drops, overrun>>

Next ==
  \/ DaemonStep
  \/ \E who \in Browsers \cup {Nobody} : Resume(who)
  \/ Connected
  \/ ResumeFailed
  \/ ReadStdout
  \/ ReadExit
  \/ ReadEof
  \/ Restart
  \/ \E b \in Browsers : Upgrade(b) \/ Attach(b) \/ Receive(b)
  \/ \E b \in Browsers : Drop(b) \/ Remount(b)

Spec == Init /\ [][Next]_vars
-----------------------------------------------------------------------------
(* Properties *)

\* A history entry, and a frame on its way to a browser.
Entry  == [seq : Nat \ {0}, data : SUBSET (1 .. MaxOut)]
Frames == [kind : {"chunk", "hello"}, seq : Nat, data : SUBSET (1 .. MaxOut),
           top : Nat, id : Nat]

\* Every variable stays in its type: the SessionClient's, the WebSockets',
\* the pages', the fault counters'.
ClientTypeOK ==
  /\ cid \in Nat /\ epochs \in Nat
  /\ hist \in Seq(Entry)
  /\ next \in Nat \ {0}
  /\ alive \in BOOLEAN

WsTypeOK ==
  /\ bst \in [Browsers -> {"closed", "upgraded", "open"}]
  /\ ep \in [Browsers -> Nat]
  /\ prime \in [Browsers -> Seq(Frames)]
  /\ rx \in [Browsers -> Seq(Frames)]
  /\ lost \in [Browsers -> SUBSET (1 .. MaxOut)]

PageTypeOK ==
  /\ lastSeq \in [Browsers -> Nat \cup {Null}]
  /\ aid \in [Browsers -> Nat]
  /\ view \in [Browsers -> Seq(Frames)]

FaultTypeOK ==
  /\ restarts \in 0 .. MaxRestarts
  /\ drops \in 0 .. MaxDrops
  /\ remounts \in 0 .. MaxRemounts
  /\ overrun \in BOOLEAN

TypeOK ==
  /\ DaemonTypeOK
  /\ ClientTypeOK
  /\ resumer \in Browsers \cup {Nobody}
  /\ WsTypeOK
  /\ PageTypeOK
  /\ FaultTypeOK

\* The history is what seq arithmetic in attach() takes it for: consecutive
\* seqs that end just below next_seq, whatever was evicted, and within its
\* budget (mod.rs: "evict whole chunks from the front").
HistoryWindow ==
  /\ \A i \in 1 .. Len(hist) : hist[i].seq = next - 1 - Len(hist) + i
  /\ hist = <<>> => next = 1
  /\ WithinBudget([i \in 1 .. Len(hist) |-> Cardinality(hist[i].data)], HistMax)

\* Reconnecting never paints bytes the xterm already has, nor older ones: a
\* frame painted after another carries a seq above everything the other one
\* covers, across lags, dropped connections and server restarts (attach()
\* and the attach_id handshake).
PaintedInOrder ==
  \A b \in Browsers : \A i, j \in 1 .. Len(view[b]) :
    i < j => view[b][i].top < view[b][j].seq

\* Output is painted twice only at the seam of the daemon's handshake, where
\* subscribing comes before the snapshot: what was in the replay may follow
\* once more as live output, nothing else.
OverlapOnlyWithReplay ==
  \A b \in Browsers : \A i, j \in 1 .. Len(view[b]) :
    i < j /\ view[b][i].data \cap view[b][j].data # {} => view[b][i].seq \in {0, 1}

\* The chunks browser b shows.
Shown(b) == UNION {view[b][i].data : i \in 1 .. Len(view[b])}

\* A cursor the server would honour is true (ws.rs: "`last_seq` is the highest
\* chunk seq the client still has in its xterm buffer"): it is not ahead of
\* the history, and what the history holds up to it is on the screen, unless
\* a lag skipped it.
ClaimIsTrue ==
  \A b \in Browsers : aid[b] = cid /\ cid # 0 /\ lastSeq[b] # Null =>
    /\ lastSeq[b] <= LatestSeq
    /\ \A i \in 1 .. Len(hist) :
         hist[i].seq <= lastSeq[b] => hist[i].data \subseteq Shown(b) \cup lost[b]

\* The browsers' screens implement Screen: no silent hole, no step back,
\* until a handshake is overrun.
Abstract == INSTANCE Screen WITH
  made    <- out,
  screen  <- [b \in Browsers |-> Shown(b)],
  skipped <- [b \in Browsers |-> lost[b] \cup dlost],
  torn    <- overrun
ScreenSpec == Abstract!Spec

\* attach() "without loss": with nothing left on its way, a browser on the
\* live client shows everything the daemon still remembers.
SettledIsComplete ==
  \A b \in Browsers :
    ( /\ bst[b] = "open" /\ ep[b] = cid /\ conn = "live"
      /\ unsent = 0 /\ dq = <<>> /\ prime[b] = <<>> /\ rx[b] = <<>> )
    => Replay \subseteq Shown(b) \cup lost[b] \cup dlost

\* Why PaintedInOrder holds: what is painted, what is on its way and what a
\* cursor claims fit together (IInv is inductive).

\* The history window never reaches below seq 1.
HistorySeqs ==
  /\ HistoryWindow
  /\ Len(hist) <= next - 1

\* attach_ids are handed out in order; no cursor is from the future, and an
\* open connection that is past its hello has the cursor of its own client.
EpochsInOrder ==
  /\ cid \in {0, epochs}
  /\ \A b \in Browsers :
       /\ ep[b] <= epochs
       /\ aid[b] <= epochs
       /\ bst[b] = "open" => ep[b] # 0 /\ aid[b] <= ep[b]
       /\ bst[b] = "open" /\ prime[b] = <<>> => aid[b] = ep[b]

\* A chunk frame other than a snapshot covers its own seq only.
ChunkFrame(f) == f.kind = "chunk" /\ (f.seq # 0 => f.top = f.seq)

\* What is left of the catch-up: chunks in order, the snapshot only in front,
\* then the hello, whose seq bounds them all.
PrimeInOrder(b) ==
  LET P == prime[b]
      n == Len(P)
  IN  P # <<>> =>
        /\ bst[b] = "open"
        /\ P[n].kind = "hello" /\ P[n].id = ep[b]
        /\ ep[b] = cid => P[n].seq < next
        /\ \A i \in 1 .. (n - 1) :
             /\ ChunkFrame(P[i])
             /\ P[i].seq = 0 => i = 1
             /\ P[i].top <= P[n].seq
        /\ \A i, j \in 1 .. (n - 1) : i < j => P[i].top < P[j].seq

\* The live frames: in order, after the catch-up, below next_seq.
LiveInOrder(b) ==
  LET R == rx[b]
  IN  \A i \in 1 .. Len(R) :
        /\ bst[b] = "open"
        /\ ChunkFrame(R[i]) /\ R[i].seq # 0
        /\ \A j \in 1 .. Len(R) : i < j => R[i].seq < R[j].seq
        /\ prime[b] # <<>> => prime[b][Len(prime[b])].seq < R[i].seq
        /\ ep[b] = cid => R[i].seq < next

\* The screen: in order, covered by the cursor, and before all that is still
\* to come, unless that begins with a snapshot.
ScreenInOrder(b) ==
  LET V == view[b]
      P == prime[b]
      n == Len(P)
  IN  /\ \A i, j \in 1 .. Len(V) : i < j => V[i].top < V[j].seq
      /\ lastSeq[b] # Null => \A i \in 1 .. Len(V) : V[i].top <= lastSeq[b]
      /\ P # <<>> /\ (P[1].kind = "hello" \/ P[1].seq # 0) =>
           \A i \in 1 .. Len(V) :
             /\ V[i].top <= P[n].seq
             /\ \A j \in 1 .. (n - 1) : V[i].top < P[j].seq
      /\ bst[b] = "open" /\ P = <<>> =>
           \A i \in 1 .. Len(V) :
             /\ \A j \in 1 .. Len(rx[b]) : V[i].top < rx[b][j].seq
             /\ ep[b] = cid => V[i].top < next
      /\ aid[b] = cid /\ cid # 0 /\ lastSeq[b] # Null => lastSeq[b] < next

\* Who waits for a resume has no WebSocket yet.
ResumerWaits ==
  resumer # Nobody => conn = "subscribed" /\ bst[resumer] = "closed"

IInv ==
  /\ TypeOK
  /\ HistorySeqs
  /\ ResumerWaits
  /\ EpochsInOrder
  /\ \A b \in Browsers : PrimeInOrder(b) /\ LiveInOrder(b) /\ ScreenInOrder(b)

\* Tasks of the daemon and the server run; the browser's reconnect timer
\* fires and its socket is read.  No fairness for exits, faults and output.
Fairness ==
  /\ WF_vars(PtyBroadcast /\ UNCHANGED serverVars)
  /\ WF_vars(Connected)
  /\ WF_vars(ResumeFailed)
  /\ WF_vars(ReadStdout)
  /\ WF_vars(ReadExit)
  /\ WF_vars(ReadEof)
  /\ \A b \in Browsers :
       /\ WF_vars(Resume(b))
       /\ WF_vars(Upgrade(b))
       /\ WF_vars(Attach(b))
       /\ WF_vars(Receive(b))

FairSpec == Spec /\ Fairness

\* As long as the daemon stays up and the browser is not left on a client the
\* server has replaced, the browser ends up showing all the daemon remembers.
CatchesUp ==
  \A b \in Browsers :
    <>[](dstate = "up" /\ ep[b] \in {0, cid})
      => <>[](Replay \subseteq Shown(b) \cup lost[b] \cup dlost)
=============================================================================
