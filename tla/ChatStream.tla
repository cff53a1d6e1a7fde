----------------------------- MODULE ChatStream -----------------------------
(***************************************************************************)
(* The event stream of a chat session: the daemon in chat mode, the        *)
(* server's ChatSessionClient with its history of events, the chat         *)
(* WebSocket handler, and the page's useChatSession, which appends what it *)
(* receives to the events it has.  Unlike the terminal's stream there is   *)
(* no attach_id: a page's last_seq is compared with whatever client the    *)
(* session has by then.                                                    *)
(*                                                                         *)
(* run_chat moves its events as run_terminal moves its output (PtyDaemon's *)
(* actions: spawn_chat_stdout_reader, the exit watcher, accept_chat_loop   *)
(* and handle_chat_client), with EventBuffer for ByteBuffer.  Event n is   *)
(* the n-th line of the session's runners; what the server injects itself  *)
(* is numbered from MaxOut + 1.  Every event has size 1.                   *)
(*                                                                         *)
(* Simplifications: as in TermStream, a receiver and its WebSocket are one *)
(* queue, rx; what the page sends to the runner, and the bubbles it shows  *)
(* for it at once, are left out.                                           *)
(***************************************************************************)
EXTENDS PtyDaemon, FiniteSets

CONSTANTS
  Browsers,    \* pages showing the session
  Nobody,      \* stands for a resume that no WebSocket waits for
  HistMax,     \* HISTORY_MAX_BYTES, in events
  WsCap,       \* capacity of ChatSessionClient.tx (256 in the code)
  MaxInject,   \* bound on injected events
  MaxRestarts, \* bound on server restarts
  MaxDrops,    \* bound on dropped WebSockets
  MaxReloads   \* bound on pages opened afresh

ASSUME ChatAssumption ==
  /\ Nobody \notin Browsers
  /\ HistMax \in Nat
  /\ WsCap \in Nat \ {0}
  /\ MaxInject \in Nat
  /\ MaxRestarts \in Nat
  /\ MaxDrops \in Nat
  /\ MaxReloads \in Nat

VARIABLES
  client,   \* the session's ChatSessionClient, counted from 1; 0 for none
  replays,  \* how many events each client so far was seeded with (history)
  hist,     \* History.events: entries [seq, ev]
  next,     \* History.next_seq
  alive,    \* ChatSessionClient.alive
  injected, \* events injected so far (history)
  resumer,  \* whose resume holds the manager lock while conn = "subscribed"
  bst,      \* each page's WebSocket: "closed", "upgraded", "open"
  ep,       \* the client its receiver belongs to, 0 for none
  prime,    \* catch-up envelopes and the hello, not yet received
  rx,       \* live envelopes, not yet received
  lost,     \* events its lagging receivers skipped (history)
  lastSeq,  \* lastSeqRef
  events,   \* the envelopes whose events it holds, since it was opened
  restarts, drops, reloads

clientVars == <<client, replays, hist, next, alive, injected>>
wsVars     == <<bst, ep, prime, rx, lost>>
pageVars   == <<lastSeq, events>>
faultVars  == <<restarts, drops, reloads>>
serverVars == <<clientVars, resumer, wsVars, pageVars, faultVars>>
vars == <<daemonVars, serverVars>>

Injectable == (MaxOut + 1) .. (MaxOut + MaxInject)

\* A cursor that claims nothing.
Null == -1

\* The manager mutex is free; resume holds it across its awaits.
LockFree == conn # "subscribed"

\* conv.chat_client is there and is_alive().
ClientUp == client # 0 /\ alive

\* seq_envelope; by is no part of it: it records which client sent it.
Envelope(entry) == [seq |-> entry.seq, ev |-> entry.ev, by |-> client]

\* The hello that closes the catch-up carries no event.
Hello == 0
HelloEnvelope(s) == [seq |-> s, ev |-> Hello, by |-> client]
-----------------------------------------------------------------------------
(* History *)

\* History::append, for the event that gets sequence number s.
HistAppend(h, s, e) ==
  LET t == Append(h, [seq |-> s, ev |-> e])
  IN  Evict(t, [i \in 1 .. Len(t) |-> 1], HistMax)

\* History::latest_seq.
LatestSeq == next - 1

\* (Mutant of Since: the event at ls is sent again.)
SinceInclusive(ls) ==
  LET k == CHOOSE k \in 1 .. (Len(hist) + 1) :
             /\ \A i \in 1 .. (k - 1) : hist[i].seq < ls
             /\ \A i \in k .. Len(hist) : hist[i].seq >= ls
  IN  SuffixFrom(hist, k)

\* History::since: the events above ls.
Since(ls) ==
  LET k == CHOOSE k \in 1 .. (Len(hist) + 1) :
             /\ \A i \in 1 .. (k - 1) : hist[i].seq <= ls
             /\ \A i \in k .. Len(hist) : hist[i].seq > ls
  IN  SuffixFrom(hist, k)

\* What a page that claims ls is primed with by attach(): nothing when it is
\* up to date, a delta, or a snapshot of all events.
CatchUp(ls) ==
  IF ls # Null /\ ls >= LatestSeq
  THEN <<>>
  ELSE IF ls # Null /\ hist # <<>> /\ ls >= hist[1].seq - 1
  THEN Since(ls)
  ELSE hist
-----------------------------------------------------------------------------
Init ==
  /\ DaemonInit
  /\ client = 0
  /\ replays = <<>>
  /\ hist = <<>>
  /\ next = 1
  /\ alive = FALSE
  /\ injected = {}
  /\ resumer = Nobody
  /\ bst = [b \in Browsers |-> "closed"]
  /\ ep = [b \in Browsers |-> 0]
  /\ prime = [b \in Browsers |-> <<>>]
  /\ rx = [b \in Browsers |-> <<>>]
  /\ lost = [b \in Browsers |-> {}]
  /\ lastSeq = [b \in Browsers |-> Null]
  /\ events = [b \in Browsers |-> <<>>]
  /\ restarts = 0
  /\ drops = 0
  /\ reloads = 0

(* The daemon on its own: a line of the runner, its exit, its end *)
DaemonStep ==
  /\ PtyRead \/ PtyBroadcast \/ ChildExit \/ DaemonGone
  /\ UNCHANGED serverVars

\* chat_ws_handler, or anything else that resumes, finds no live client.
Resume(who) ==
  /\ LockFree
  /\ ~ ClientUp
  /\ who # Nobody => bst[who] = "closed"
  /\ Accept
  /\ resumer' = who
  /\ UNCHANGED <<clientVars, wsVars, pageVars, faultVars>>

\* A history seeded with the replay, one entry per event.
Seeded(s) ==
  LET all == [i \in 1 .. Len(s) |-> [seq |-> i, ev |-> s[i]]]
  IN  IF s = <<>> THEN <<>> ELSE Evict(all, [i \in 1 .. Len(s) |-> 1], HistMax)

\* ChatSessionClient::connect got its HelloChat: a new client, numbering from
\* 1 again, replaces the old one.
Connected ==
  /\ conn = "subscribed"
  /\ dstate # "down"
  /\ conn' = "live"
  /\ replays' = Append(replays, Len(ring))
  /\ client' = Len(replays) + 1
  /\ alive' = TRUE
  /\ hist' = Seeded(ring)
  /\ next' = Len(ring) + 1
  /\ bst' = IF resumer = Nobody THEN bst ELSE [bst EXCEPT ![resumer] = "upgraded"]
  /\ resumer' = Nobody
  /\ UNCHANGED <<out, ring, unsent, dstate, dq, dlost, spawns, injected,
                 ep, prime, rx, lost, pageVars, faultVars>>

\* The daemon died under the handshake: resume() fails.  chat_ws_handler
\* ignores that and goes on with the dead client when there is one.
ResumeFailed ==
  /\ conn = "subscribed"
  /\ dstate = "down"
  /\ conn' = "none"
  /\ bst' = IF resumer = Nobody \/ client = 0
            THEN bst ELSE [bst EXCEPT ![resumer] = "upgraded"]
  /\ resumer' = Nobody
  /\ UNCHANGED <<out, ring, unsent, dstate, dq, dlost, spawns, clientVars,
                 ep, prime, rx, lost, pageVars, faultVars>>

\* chat_ws_handler with a live client: nothing to resume.
Upgrade(b) ==
  /\ LockFree
  /\ ClientUp
  /\ bst[b] = "closed"
  /\ bst' = [bst EXCEPT ![b] = "upgraded"]
  /\ UNCHANGED <<daemonVars, clientVars, resumer, ep, prime, rx, lost,
                 pageVars, faultVars>>

\* handle_ws received the attach frame: subscribe and compute the catch-up
\* under the history lock, then prime the page and say hello.
Attach(b) ==
  LET due == CatchUp(lastSeq[b])
  IN  /\ LockFree
      /\ bst[b] = "upgraded"
      /\ client # 0
      /\ bst' = [bst EXCEPT ![b] = "open"]
      /\ ep' = [ep EXCEPT ![b] = client]
      /\ prime' = [prime EXCEPT ![b] =
                     Append([i \in 1 .. Len(due) |-> Envelope(due[i])],
                            HelloEnvelope(LatestSeq))]
      /\ rx' = [rx EXCEPT ![b] = <<>>]
      /\ UNCHANGED <<daemonVars, clientVars, resumer, lost, pageVars, faultVars>>

\* Under the history lock event e gets its seq and goes to every receiver.
Publish(e) ==
  LET listening(b) == bst[b] = "open" /\ ep[b] = client
      f == Envelope([seq |-> next, ev |-> e])
  IN  /\ hist' = HistAppend(hist, next, e)
      /\ next' = next + 1
      /\ rx' = [b \in Browsers |->
                  IF listening(b) THEN Push(rx[b], f, WsCap) ELSE rx[b]]
      /\ lost' = [b \in Browsers |->
                  IF listening(b)
                  THEN lost[b] \cup {g.ev : g \in Skipped(rx[b], WsCap)}
                  ELSE lost[b]]

\* The reader task of ChatSessionClient takes a ChatEvent frame.
ReadEvent ==
  /\ conn = "live"
  /\ dq # <<>>
  /\ Head(dq) # Exit
  /\ dq' = Tail(dq)
  /\ Publish(Head(dq))
  /\ UNCHANGED <<out, ring, unsent, dstate, conn, dlost, spawns, client, replays,
                 alive, injected, resumer, bst, ep, prime, pageVars, faultVars>>

\* inject_synthetic_event, reached under the manager mutex; the client may be
\* dead.
Inject(e) ==
  /\ LockFree
  /\ client # 0
  /\ e \notin injected
  /\ injected' = injected \cup {e}
  /\ Publish(e)
  /\ UNCHANGED <<daemonVars, client, replays, alive, resumer, bst, ep, prime,
                 pageVars, faultVars>>

\* The reader task takes ChildExited and stops.
ReadExit ==
  /\ conn = "live"
  /\ dq # <<>>
  /\ Head(dq) = Exit
  /\ conn' = "none"
  /\ dq' = <<>>
  /\ alive' = FALSE
  /\ UNCHANGED <<out, ring, unsent, dstate, dlost, spawns, client, replays, hist,
                 next, injected, resumer, wsVars, pageVars, faultVars>>

\* The reader task sees the socket close.
ReadEof ==
  /\ conn = "none"
  /\ alive
  /\ alive' = FALSE
  /\ UNCHANGED <<daemonVars, client, replays, hist, next, injected, resumer,
                 wsVars, pageVars, faultVars>>

\* neige-server restarts: WebSockets and the client are gone, daemons live on.
Restart ==
  /\ restarts < MaxRestarts
  /\ restarts' = restarts + 1
  /\ conn' = "none"
  /\ dq' = <<>>
  /\ client' = 0
  /\ hist' = <<>>
  /\ next' = 1
  /\ alive' = FALSE
  /\ resumer' = Nobody
  /\ bst' = [b \in Browsers |-> "closed"]
  /\ ep' = [b \in Browsers |-> 0]
  /\ prime' = [b \in Browsers |-> <<>>]
  /\ rx' = [b \in Browsers |-> <<>>]
  /\ UNCHANGED <<out, ring, unsent, dstate, dlost, spawns, replays, injected, lost,
                 pageVars, drops, reloads>>
-----------------------------------------------------------------------------
(* The page *)

\* ws.onmessage with envelope f.
Take(b, f) ==
  /\ lastSeq' = [lastSeq EXCEPT ![b] = f.seq]
  /\ events' = IF f.ev = Hello THEN events ELSE [events EXCEPT ![b] = Append(@, f)]

\* The next envelope of the connection arrives: catch-up first, live after.
Receive(b) ==
  /\ bst[b] = "open"
  /\ \/ /\ prime[b] # <<>>
        /\ Take(b, Head(prime[b]))
        /\ prime' = [prime EXCEPT ![b] = Tail(@)]
        /\ UNCHANGED rx
     \/ /\ prime[b] = <<>>
        /\ rx[b] # <<>>
        /\ Take(b, Head(rx[b]))
        /\ rx' = [rx EXCEPT ![b] = Tail(@)]
        /\ UNCHANGED prime
  /\ UNCHANGED <<daemonVars, clientVars, resumer, bst, ep, lost, faultVars>>

\* Everything the connection still held for b is gone.
Disconnect(b) ==
  /\ bst' = [bst EXCEPT ![b] = "closed"]
  /\ ep' = [ep EXCEPT ![b] = 0]
  /\ prime' = [prime EXCEPT ![b] = <<>>]
  /\ rx' = [rx EXCEPT ![b] = <<>>]

\* An established WebSocket breaks; the page keeps its events and its cursor.
Drop(b) ==
  /\ drops < MaxDrops
  /\ bst[b] # "closed"
  /\ drops' = drops + 1
  /\ Disconnect(b)
  /\ UNCHANGED <<daemonVars, clientVars, resumer, lost, pageVars, restarts, reloads>>

\* (Mutant of Opened: the cursor is not reset.)
OpenedWithCursor(b) ==
  /\ events' = [events EXCEPT ![b] = <<>>]
  /\ UNCHANGED lastSeq

\* The effect's start for a session: no events, no cursor.
Opened(b) ==
  /\ events' = [events EXCEPT ![b] = <<>>]
  /\ lastSeq' = [lastSeq EXCEPT ![b] = Null]

\* The page is left for another session and opened again.
Reload(b) ==
  /\ reloads < MaxReloads
  /\ bst[b] # "closed"
  /\ reloads' = reloads + 1
  /\ Disconnect(b)
  /\ Opened(b)
  /\ UNCHANGED <<daemonVars, clientVars, resumer, lost, restarts, drops>>

Next ==
  \/ DaemonStep
  \/ \E who \in Browsers \cup {Nobody} : Resume(who)
  \/ Connected
  \/ ResumeFailed
  \/ ReadEvent
  \/ \E e \in Injectable : Inject(e)
  \/ ReadExit
  \/ ReadEof
  \/ Restart
  \/ \E b \in Browsers : Upgrade(b) \/ Attach(b) \/ Receive(b)
  \/ \E b \in Browsers : Drop(b) \/ Reload(b)

Spec == Init /\ [][Next]_vars
-----------------------------------------------------------------------------
(* Properties *)

AnyEvent  == 1 .. (MaxOut + MaxInject)
Entry     == [seq : Nat \ {0}, ev : AnyEvent]
Envelopes == [seq : Nat, ev : AnyEvent \cup {Hello}, by : Nat \ {0}]

ClientTypeOK ==
  /\ client \in Nat
  /\ replays \in Seq(Nat)
  /\ hist \in Seq(Entry)
  /\ next \in Nat \ {0}
  /\ alive \in BOOLEAN
  /\ injected \subseteq Injectable

WsTypeOK ==
  /\ bst \in [Browsers -> {"closed", "upgraded", "open"}]
  /\ ep \in [Browsers -> Nat]
  /\ prime \in [Browsers -> Seq(Envelopes)]
  /\ rx \in [Browsers -> Seq(Envelopes)]
  /\ lost \in [Browsers -> SUBSET AnyEvent]

PageTypeOK ==
  /\ lastSeq \in [Browsers -> Nat \cup {Null}]
  /\ events \in [Browsers -> Seq(Envelopes)]

FaultTypeOK ==
  /\ restarts \in 0 .. MaxRestarts
  /\ drops \in 0 .. MaxDrops
  /\ reloads \in 0 .. MaxReloads

\* Every variable stays in its type.
TypeOK ==
  /\ DaemonTypeOK
  /\ ClientTypeOK
  /\ resumer \in Browsers \cup {Nobody}
  /\ WsTypeOK
  /\ PageTypeOK
  /\ FaultTypeOK

\* The history is a window of consecutive seqs that ends just below next_seq,
\* within its budget, also after the seeding (test: "After eviction, next_seq
\* must keep climbing").
HistoryWindow ==
  /\ \A i \in 1 .. Len(hist) : hist[i].seq = next - 1 - Len(hist) + i
  /\ hist = <<>> => next = 1
  /\ WithinBudget([i \in 1 .. Len(hist) |-> 1], HistMax)

\* The events a page holds are in the order in which they happened: it moves
\* on from client to client, and within one it never takes a seq twice or
\* goes back, whatever cursor it came with (attach).
EventsInOrder ==
  \A b \in Browsers : \A i, j \in 1 .. Len(events[b]) : i < j =>
    \/ events[b][i].by < events[b][j].by
    \/ events[b][i].by = events[b][j].by /\ events[b][i].seq < events[b][j].seq

\* One client gives a page the same event twice only where the daemon's
\* handshake overlaps: replayed by the HelloChat and live once more.
RepeatsOnlyReplay ==
  \A b \in Browsers : \A i, j \in 1 .. Len(events[b]) :
    i < j /\ events[b][i].by = events[b][j].by /\ events[b][i].ev = events[b][j].ev
      => events[b][i].seq <= replays[events[b][i].by]

\* The events page b holds.
Held(b) == {events[b][i].ev : i \in 1 .. Len(events[b])}

\* Page b is on the live client with nothing left on its way.
Settled(b) ==
  /\ bst[b] = "open" /\ ep[b] = client
  /\ prime[b] = <<>> /\ rx[b] = <<>>

HistoryEvents == {hist[i].ev : i \in 1 .. Len(hist)}

\* A settled page that got all its events from one client holds all that the
\* history does, up to lags, however often it was cut off (chat_ws.rs: "a
\* brand-new client ... receives every buffered event in order").
FreshIsComplete ==
  \A b \in Browsers :
    /\ Settled(b)
    /\ \A i \in 1 .. Len(events[b]) : events[b][i].by = client
    => HistoryEvents \subseteq Held(b) \cup lost[b]
=============================================================================
