------------------------------- MODULE Login -------------------------------
(***************************************************************************)
(* Logging in (auth/store.rs, auth/routes.rs, auth/middleware.rs): a fixed *)
(* window of attempts per peer, sessions kept in memory that expire when   *)
(* they are looked at, log out and the answer of the middleware.  The      *)
(* token's hash, the bearer tokens and the allowed origins are not         *)
(* modelled; time is in ticks.                                             *)
(***************************************************************************)
EXTENDS Integers, Sequences, FiniteSets

CONSTANTS
  Peers,      \* addresses
  Limit,      \* LIMIT
  Window,     \* WINDOW
  Lifetime,   \* how long a session lives (30 days)
  MaxTime,    \* bound on time
  MaxAttempts,\* bound on the attempts to log in
  MaxLives    \* bound on how often the server starts again

ASSUME LoginAssumption ==
  /\ Limit \in Nat \ {0} /\ Window \in Nat /\ Lifetime \in Nat \ {0}
  /\ MaxTime \in Nat /\ MaxAttempts \in Nat /\ MaxLives \in Nat

VARIABLES
  clock,
  entries,   \* LoginRateLimiter: [since, count] of the peers that tried
  logins,    \* SessionStore: when each session ends
  attempts,  \* history: [peer, at, admitted, life] of the attempts, in order
  life,      \* history: how often the server was started
  ended      \* history: sessions that were refused, logged out or forgotten

loginVars == <<clock, entries, logins, attempts, life, ended>>

LoginInit ==
  clock = 0 /\ entries = <<>> /\ logins = <<>> /\ attempts = <<>> /\ life = 0 /\ ended = {}

\* (Mutant of Counted: the window starts anew with every attempt.)
CountedSliding(peer) ==
  IF peer \notin DOMAIN entries \/ clock - entries[peer].since > Window
  THEN [since |-> clock, count |-> 1]
  ELSE [since |-> clock, count |-> entries[peer].count + 1]

\* LoginRateLimiter::check: the entry of a peer after an attempt now.
Counted(peer) ==
  IF peer \notin DOMAIN entries \/ clock - entries[peer].since > Window
  THEN [since |-> clock, count |-> 1]
  ELSE [entries[peer] EXCEPT !.count = @ + 1]

\* login_submit: the limiter counts first, whatever the token is; the right token
\* opens a session of a number of its own.
Submits(peer, right) ==
  /\ Len(attempts) < MaxAttempts
  /\ LET e  == Counted(peer)
         in == e.count <= Limit
         id == Len(attempts) + 1
     IN /\ entries' = [p \in DOMAIN entries \cup {peer} |-> IF p = peer THEN e ELSE entries[p]]
        /\ attempts' = Append(attempts, [peer |-> peer, at |-> clock, admitted |-> in,
                                         life |-> life])
        /\ logins' = IF in /\ right
                     THEN [i \in DOMAIN logins \cup {id} |->
                             IF i = id THEN clock + Lifetime ELSE logins[i]]
                     ELSE logins
  /\ UNCHANGED <<clock, life, ended>>

Dropped(id) == [i \in DOMAIN logins \ {id} |-> logins[i]]

\* auth_middleware, whoami: a session that has ended is forgotten when it is used; the
\* use of one that lives changes nothing.
Uses(id) ==
  /\ logins[id] <= clock
  /\ logins' = Dropped(id) /\ ended' = ended \cup {id}
  /\ UNCHANGED <<clock, entries, attempts, life>>

\* logout.
LogsOut(id) ==
  /\ logins' = Dropped(id) /\ ended' = ended \cup {id}
  /\ UNCHANGED <<clock, entries, attempts, life>>

\* The server starts again: sessions and counts were in memory only.
Restarts ==
  /\ life < MaxLives /\ DOMAIN entries # {}
  /\ logins' = <<>> /\ entries' = <<>> /\ life' = life + 1
  /\ ended' = ended \cup DOMAIN logins
  /\ UNCHANGED <<clock, attempts>>

TickLogin ==
  /\ clock < MaxTime /\ clock' = clock + 1
  /\ UNCHANGED <<entries, logins, attempts, life, ended>>

LoginNext ==
  \/ \E p \in Peers, right \in BOOLEAN : Submits(p, right)
  \/ \E id \in DOMAIN logins : Uses(id) \/ LogsOut(id)
  \/ Restarts \/ TickLogin

-----------------------------------------------------------------------------
AdmittedIn(peer, l, from, to) ==
  {j \in DOMAIN attempts : /\ attempts[j].peer = peer /\ attempts[j].life = l
                           /\ attempts[j].admitted /\ attempts[j].at \in from .. to}

\* However the attempts are spread, a window's length never sees twice the limit.
LimitHolds ==
  \A p \in Peers, l \in 0 .. life, from \in 0 .. MaxTime :
    Cardinality(AdmittedIn(p, l, from, from + Window)) < 2 * Limit

\* Nobody is kept out by attempts that were themselves refused: whoever is refused
\* used up the limit within the last window, and one peer never for another.
RefusedWithCause ==
  \A j \in DOMAIN attempts :
    LET a == attempts[j] IN
    ~a.admitted => Cardinality(AdmittedIn(a.peer, a.life, a.at - Window, a.at)) >= Limit

\* A session that was refused once, or logged out, is never let in again, and no
\* session outlives the server.
EndedForGood ==
  /\ ended \cap DOMAIN logins = {}
  /\ \A id \in DOMAIN logins :
       /\ attempts[id].admitted /\ attempts[id].life = life
       /\ logins[id] = attempts[id].at + Lifetime

LoginInv == LimitHolds /\ RefusedWithCause /\ EndedForGood
=============================================================================
