----------------------------- MODULE NameBook -----------------------------
(***************************************************************************)
(* What addressing chat sessions by name promises: a name denotes at most  *)
(* one session and a session has at most one name; a name is claimed when  *)
(* it is free, and is given up only by its own session, which leaves or    *)
(* moves to another free name.  Nothing else ever changes what a name      *)
(* denotes.                                                                *)
(***************************************************************************)
EXTENDS Functions

CONSTANTS Names, Ids

VARIABLE owner  \* name -> session

Init == owner = <<>>

\* A session without a name claims a free one.
Claim(n, id) ==
  /\ n \notin DOMAIN owner
  /\ id \notin Range(owner)
  /\ owner' = [m \in DOMAIN owner \cup {n} |-> IF m = n THEN id ELSE owner[m]]

\* The session called n leaves.
Release(n) ==
  /\ n \in DOMAIN owner
  /\ owner' = Restrict(owner, DOMAIN owner \ {n})

\* The session called old is called new from now on.
Move(old, new) ==
  /\ old \in DOMAIN owner
  /\ new \notin DOMAIN owner
  /\ owner' = [m \in (DOMAIN owner \ {old}) \cup {new} |->
                 IF m = new THEN owner[old] ELSE owner[m]]

Next ==
  \/ \E n \in Names, id \in Ids : Claim(n, id)
  \/ \E n \in Names : Release(n)
  \/ \E old, new \in Names : Move(old, new)

Spec == Init /\ [][Next]_owner
===========================================================================
