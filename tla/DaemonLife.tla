----------------------------- MODULE DaemonLife -----------------------------
(***************************************************************************)
(* The end of a session's daemon in terminal mode (daemon.rs) and the start *)
(* of another for the same session (attach/daemon.rs, lib.rs): a request to *)
(* end it, a signal and the child's own exit race; the PTY's processes are *)
(* hung up, given a grace and killed; the socket's file is removed by name. *)
(*                                                                         *)
(* Processes of a session are its leader and the jobs it forks; some are   *)
(* deaf to SIGHUP.  A daemon that is started owns the number of its start. *)
(***************************************************************************)
EXTENDS Integers, FiniteSets

CONSTANTS
  MaxStarts,  \* bound on the daemons started
  Jobs,       \* processes that may be forked, beside the leader
  Deaf        \* processes that ignore SIGHUP

Leader == "leader"
Daemons == 1 .. MaxStarts
NoFile == 0

ASSUME LifeAssumption ==
  MaxStarts \in Nat /\ Leader \notin Jobs /\ Deaf \subseteq Jobs \cup {Leader}

VARIABLES
  stage,     \* of each daemon: see Stages
  members,   \* its session's processes
  targets,   \* what its last SIGKILL sweep found in /proc
  slipped,   \* history: processes forked after that look
  signalled, \* it was told to end
  crashed,   \* history: it ended without its clean-up
  sockFile,  \* whose listener the socket's path leads to, or NoFile
  astray,    \* history: daemons that were given up while they started, or that bound the
             \* path between an older one's last accept and the removal of its file
  starter    \* the server's spawn_daemon: "idle", "probed" or "polling"

lifeVars == <<stage, members, targets, slipped, signalled, crashed, sockFile, astray, starter>>

\* The select! is waited in (serving); hung up; swept; the last 200 ms (flushing); the
\* accept loop is aborted (closed); gone.
Stages == {"none", "booting", "serving", "hangup", "sweeping", "flushing", "closed", "gone"}
Listens(d) == stage[d] \in {"serving", "hangup", "sweeping", "flushing"}

LifeInit ==
  /\ stage = [d \in Daemons |-> "none"] /\ members = [d \in Daemons |-> {}]
  /\ targets = [d \in Daemons |-> {}] /\ slipped = [d \in Daemons |-> {}]
  /\ signalled = [d \in Daemons |-> FALSE] /\ crashed = [d \in Daemons |-> FALSE]
  /\ sockFile = NoFile /\ astray = {} /\ starter = "idle"

Enter(d, next) == stage' = [stage EXCEPT ![d] = next]
KeepsServer == UNCHANGED <<sockFile, astray, starter>>

-----------------------------------------------------------------------------
\* is_alive: somebody accepts at the path.
Answers == sockFile # NoFile /\ Listens(sockFile)

\* spawn_daemon: no daemon answers, so what is left of a socket is removed.
Probe ==
  /\ starter = "idle" /\ ~Answers /\ \E d \in Daemons : stage[d] = "none"
  /\ starter' = "probed" /\ sockFile' = NoFile
  /\ UNCHANGED <<stage, members, targets, slipped, signalled, crashed, astray>>

\* The daemon's process starts, with the child of its PTY (run_terminal).
StartDaemon(d) ==
  /\ starter = "probed" /\ stage[d] = "none" /\ \A e \in 1 .. d - 1 : stage[e] # "none"
  /\ starter' = "polling" /\ Enter(d, "booting")
  /\ members' = [members EXCEPT ![d] = {Leader}]
  /\ UNCHANGED <<targets, slipped, signalled, crashed, sockFile, astray>>

\* bind_socket: a file in the way is removed; the accept loop starts.
Bind(d) ==
  /\ stage[d] = "booting" /\ Enter(d, "serving") /\ sockFile' = d
  /\ astray' = IF \E e \in Daemons : stage[e] = "closed" THEN astray \cup {d} ELSE astray
  /\ UNCHANGED <<members, targets, slipped, signalled, crashed, starter>>

\* spawn_daemon polls until a daemon answers, or gives up on one that is slow.
Polled ==
  /\ starter = "polling" /\ starter' = "idle"
  /\ astray' = IF Answers THEN astray
               ELSE astray \cup {d \in Daemons : stage[d] = "booting"}
  /\ UNCHANGED <<stage, members, targets, slipped, signalled, crashed, sockFile>>

-----------------------------------------------------------------------------
\* Processes of the session fork while they live; the leader may end by itself.
Fork(d, j) ==
  /\ members[d] # {} /\ stage[d] # "gone" /\ j \in Jobs \ (members[d] \cup slipped[d])
  /\ members' = [members EXCEPT ![d] = @ \cup {j}]
  /\ slipped' = IF stage[d] = "sweeping" \/ (signalled[d] /\ stage[d] \in {"flushing", "closed"})
                THEN [slipped EXCEPT ![d] = @ \cup {j}] ELSE slipped
  /\ UNCHANGED <<stage, targets, signalled, crashed>> /\ KeepsServer

ProcessExits(d, p) ==
  /\ p \in members[d] /\ stage[d] \in {"booting", "serving", "hangup"}
  /\ members' = [members EXCEPT ![d] = @ \ {p}]
  /\ UNCHANGED <<stage, targets, slipped, signalled, crashed>> /\ KeepsServer

\* spawn_child_waiter: the child has exited by itself, and nobody is signalled.
ChildGone(d) ==
  /\ stage[d] = "serving" /\ Leader \notin members[d]
  /\ Enter(d, "flushing")
  /\ UNCHANGED <<members, targets, slipped, signalled, crashed>> /\ KeepsServer

\* SIGTERM, SIGINT or a client's Kill (request_kill drains the Hello until the Kill
\* is read): the session is hung up.
HangUp(d) ==
  /\ stage[d] = "serving" /\ Enter(d, "hangup")
  /\ signalled' = [signalled EXCEPT ![d] = TRUE]
  /\ members' = [members EXCEPT ![d] = @ \cap Deaf]
  /\ UNCHANGED <<targets, slipped, crashed>> /\ KeepsServer

\* (Mutant of LookUp: the grace has no end.)
LookUpWaiting(d) ==
  /\ stage[d] = "hangup" /\ Leader \notin members[d] /\ Enter(d, "sweeping")
  /\ targets' = [targets EXCEPT ![d] = members[d]]
  /\ UNCHANGED <<members, slipped, signalled, crashed>> /\ KeepsServer

\* The leader is gone, or HANGUP_GRACE has passed: signal_session looks for what is
\* left of the session.
LookUp(d) ==
  /\ stage[d] = "hangup" /\ Enter(d, "sweeping")
  /\ targets' = [targets EXCEPT ![d] = members[d]]
  /\ UNCHANGED <<members, slipped, signalled, crashed>> /\ KeepsServer

\* (Mutant of KillThem: only the leader is killed, as ChildKiller::kill would.)
KillLeader(d) ==
  /\ stage[d] = "sweeping" /\ Enter(d, "flushing")
  /\ members' = [members EXCEPT ![d] = @ \ {Leader}]
  /\ UNCHANGED <<targets, slipped, signalled, crashed>> /\ KeepsServer

\* ... and kills what it found.
KillThem(d) ==
  /\ stage[d] = "sweeping" /\ Enter(d, "flushing")
  /\ members' = [members EXCEPT ![d] = @ \ targets[d]]
  /\ UNCHANGED <<targets, slipped, signalled, crashed>> /\ KeepsServer

\* After 200 ms the accept loop is aborted.
CloseDoor(d) ==
  /\ stage[d] = "flushing" /\ Enter(d, "closed")
  /\ UNCHANGED <<members, targets, slipped, signalled, crashed>> /\ KeepsServer

\* remove_file, whoever's the path is by now; the runtime has 200 ms to shut down.
Unlink(d) ==
  /\ stage[d] = "closed" /\ Enter(d, "gone") /\ sockFile' = NoFile
  /\ UNCHANGED <<members, targets, slipped, signalled, crashed, astray, starter>>

\* A SIGTERM before its handler is there, a SIGKILL, a panic: nothing is cleaned up.
\* The PTY closes, which hangs up what is not deaf.
Crash(d) ==
  /\ stage[d] \notin {"none", "gone"} /\ Enter(d, "gone")
  /\ crashed' = [crashed EXCEPT ![d] = TRUE]
  /\ members' = [members EXCEPT ![d] = @ \cap Deaf]
  /\ UNCHANGED <<targets, slipped, signalled>> /\ KeepsServer

Ends(d) == LookUp(d) \/ KillThem(d) \/ CloseDoor(d) \/ Unlink(d)

LifeNext ==
  \/ Probe \/ Polled
  \/ \E d \in Daemons :
       \/ StartDaemon(d) \/ Bind(d) \/ ChildGone(d) \/ HangUp(d) \/ Ends(d) \/ Crash(d)
       \/ \E j \in Jobs : Fork(d, j)
       \/ \E p \in Jobs \cup {Leader} : ProcessExits(d, p)

\* The daemon's own steps are taken: its task is woken by the exit or the timer.
LifeFairness == \A d \in Daemons : WF_lifeVars(Ends(d))

-----------------------------------------------------------------------------
\* What a daemon that was told to end leaves behind was forked while it swept.
NothingIsOrphaned ==
  \A d \in Daemons : stage[d] = "gone" /\ signalled[d] /\ ~crashed[d] => members[d] \subseteq slipped[d]

\* A daemon that serves is reached at the path of its session, unless some daemon of
\* the session went astray.
ServingIsReached ==
  \A d \in Daemons : stage[d] = "serving" /\ sockFile # d => astray # {}

\* Two daemons never serve one session, with the same exception; and no file is left
\* by a daemon that ended in order.
OneServes ==
  /\ \A d, e \in Daemons : stage[d] = "serving" /\ stage[e] = "serving" /\ d # e => astray # {}
  /\ sockFile # NoFile /\ stage[sockFile] = "gone" => crashed[sockFile]

DaemonInv == stage \in [Daemons -> Stages] /\ NothingIsOrphaned /\ ServingIsReached /\ OneServes

\* A daemon that is told to end does end, whatever its processes do.
KillEnds == \A d \in Daemons : signalled[d] ~> stage[d] = "gone"
=============================================================================
