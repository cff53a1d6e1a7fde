----------------------------- MODULE PtyDaemon -----------------------------
(***************************************************************************)
(* neige-session-daemon in terminal mode, as the one server connection it  *)
(* serves at a time sees it: the PTY reader thread that fills the replay   *)
(* ring and then broadcasts, the accept loop that subscribes before the    *)
(* Attach handshake snapshots the ring, the forwarding task behind a       *)
(* bounded broadcast channel, and the child waiter that announces the exit *)
(* independently of the reader.                                            *)
(*                                                                         *)
(* One PTY read is one chunk, and chunk n is the n-th read of the session, *)
(* counted over all daemons that ever served it; its bytes are abstracted  *)
(* to that number and its size to 1.                                       *)
(*                                                                         *)
(* Simplification: the unix socket is a rendezvous (a frame is written by  *)
(* the daemon when the server reads it), so frames wait in the broadcast   *)
(* receiver only.                                                          *)
(***************************************************************************)
EXTENDS Ring, Integers

CONSTANTS
  RingMax,    \* cli.buffer_bytes, in chunks
  DaemonCap,  \* capacity of the daemon's broadcast channel (2048 in the code)
  MaxOut,     \* bound on PTY reads
  MaxSpawns   \* bound on the number of daemons started for the session

ASSUME DaemonAssumption ==
  /\ RingMax \in Nat
  /\ DaemonCap \in Nat \ {0}
  /\ MaxOut \in Nat
  /\ MaxSpawns \in Nat

VARIABLES
  out,     \* number of PTY reads so far
  ring,    \* ByteBuffer.chunks, oldest first
  unsent,  \* the chunk the reader has buffered but not broadcast yet, or 0
  dstate,  \* the daemon process: "down", "up", or "exiting" after the child
  conn,    \* the server's connection: "none", "subscribed", "live"
  dq,      \* that connection's broadcast receiver
  dlost,   \* chunks a lagging broadcast receiver skipped
  spawns   \* daemons started so far

daemonVars == <<out, ring, unsent, dstate, conn, dq, dlost, spawns>>

\* The Event::Exit marker in a receiver; chunks are numbered from 1.
Exit == 0

\* ByteBuffer::append.
RingAppend(s, c) ==
  LET t == Append(s, c) IN Evict(t, [i \in 1 .. Len(t) |-> 1], RingMax)

\* A send on a tokio broadcast channel: a receiver that already holds cap
\* unread events loses the oldest one (RecvError::Lagged, which is skipped).
Push(q, e, cap) == IF Len(q) < cap THEN Append(q, e) ELSE Append(Tail(q), e)

\* What that send makes the receiver lose.
Skipped(q, cap) == IF Len(q) < cap THEN {} ELSE {Head(q)}

\* event_tx.send(e), seen by the connection that holds a receiver.
Broadcast(e) ==
  IF conn = "none"
  THEN UNCHANGED <<dq, dlost>>
  ELSE /\ dq' = Push(dq, e, DaemonCap)
       /\ dlost' = dlost \cup (Skipped(dq, DaemonCap) \ {Exit})

DaemonInit ==
  /\ out = 0
  /\ ring = <<>>
  /\ unsent = 0
  /\ dstate = "down"
  /\ conn = "none"
  /\ dq = <<>>
  /\ dlost = {}
  /\ spawns = 0
----------------------------------------------------------------------------
\* spawn_pty_reader, first half: a read goes into the ring.  The reader
\* thread outlives the child: the PTY may still hold output.
PtyRead ==
  /\ dstate # "down"
  /\ unsent = 0
  /\ out < MaxOut
  /\ out' = out + 1
  /\ ring' = RingAppend(ring, out + 1)
  /\ unsent' = out + 1
  /\ UNCHANGED <<dstate, conn, dq, dlost, spawns>>

\* spawn_pty_reader, second half: the same chunk is broadcast.
PtyBroadcast ==
  /\ unsent # 0
  /\ Broadcast(unsent)
  /\ unsent' = 0
  /\ UNCHANGED <<out, ring, dstate, conn, spawns>>

\* spawn_child_waiter: the exit is broadcast from a thread of its own, so it
\* may overtake a chunk the reader has not broadcast yet.
ChildExit ==
  /\ dstate = "up"
  /\ dstate' = "exiting"
  /\ Broadcast(Exit)
  /\ UNCHANGED <<out, ring, unsent, conn, spawns>>

\* The process ends, orderly after the child or by a crash: the ring and
\* everything not yet forwarded are gone, the socket closes.
DaemonGone ==
  /\ dstate # "down"
  /\ dstate' = "down"
  /\ ring' = <<>>
  /\ unsent' = 0
  /\ conn' = IF conn = "live" THEN "none" ELSE conn
  /\ dq' = <<>>
  /\ UNCHANGED <<out, dlost, spawns>>

\* accept_loop: a connection subscribes to the broadcast when it is accepted,
\* before its Attach frame is read and the ring is copied for the Hello; a
\* fresh daemon is spawned first when none answers on the socket.
Accept ==
  /\ conn = "none"
  /\ conn' = "subscribed"
  /\ dq' = <<>>
  /\ \/ /\ dstate # "down"
        /\ UNCHANGED <<dstate, spawns>>
     \/ /\ dstate = "down"
        /\ spawns < MaxSpawns
        /\ dstate' = "up"
        /\ spawns' = spawns + 1
  /\ UNCHANGED <<out, ring, unsent, dlost>>

\* The chunks of Hello { replay }: ByteBuffer::snapshot.
Replay == {ring[i] : i \in 1 .. Len(ring)}

DaemonTypeOK ==
  /\ out \in 0 .. MaxOut
  /\ ring \in Seq(1 .. MaxOut)
  /\ unsent \in 0 .. MaxOut
  /\ dstate \in {"down", "up", "exiting"}
  /\ conn \in {"none", "subscribed", "live"}
  /\ dq \in Seq(0 .. MaxOut)
  /\ dlost \subseteq 1 .. MaxOut
  /\ spawns \in 0 .. MaxSpawns
============================================================================
