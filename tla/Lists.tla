-------------------------------- MODULE Lists --------------------------------
(***************************************************************************)
(* Lists of the pages: what array.filter keeps of one, what array.indexOf  *)
(* finds in it; and saves of a whole document, of which several may be on  *)
(* their way.                                                              *)
(***************************************************************************)
EXTENDS Naturals, Sequences

\* The entries of s that lie in S, in their order.
Among(s, S) ==
  LET kept[n \in 0 .. Len(s)] ==
        IF n = 0 THEN <<>>
        ELSE IF s[n] \in S THEN Append(kept[n - 1], s[n]) ELSE kept[n - 1]
  IN kept[Len(s)]

Entries(s) == {s[i] : i \in 1 .. Len(s)}

\* The first place of e in s, 0 where it has none.
Place(s, e) ==
  LET at == {i \in 1 .. Len(s) : s[i] = e}
  IN IF at = {} THEN 0 ELSE CHOOSE i \in at : \A j \in at : i <= j

-----------------------------------------------------------------------------
\* The newest document of a page was never saved ("none", "unsaved"), is on its way
\* ("sent"), is what the server has ("stored"), or was stored and then replaced by an
\* older one that came late ("overtaken").
Whereabouts == {"none", "unsaved", "sent", "stored", "overtaken"}

\* After the k-th of the saves on their way has reached the server, or failed.
AfterArrival(newest, saves, k) ==
  CASE newest = "sent" /\ k = Len(saves) -> "stored"
    [] newest = "stored"                 -> "overtaken"
    [] OTHER                             -> newest

AfterFailure(newest, saves, k) == IF newest = "sent" /\ k = Len(saves) THEN "unsaved" ELSE newest
=============================================================================
