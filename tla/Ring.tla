------------------------------- MODULE Ring -------------------------------
(***************************************************************************)
(* The bounded FIFO every replay buffer of neige is built on: the daemon's *)
(* ByteBuffer and EventBuffer, and the server's History.  Each of them     *)
(* appends at the back and then evicts whole entries from the front while  *)
(* the budget is exceeded and more than one entry is left.                 *)
(*                                                                         *)
(* A buffer is a sequence of entries; sizes is the sequence of the sizes   *)
(* of its entries, so that the same definitions serve byte chunks, replay  *)
(* blobs and JSON lines.                                                   *)
(***************************************************************************)
EXTENDS Naturals, Sequences

\* The entries of s from position k on.
SuffixFrom(s, k) == SubSeq(s, k, Len(s))

\* total_bytes: what a buffer with these entry sizes holds.
TotalBytes(sizes) ==
  LET sum[i \in 0 .. Len(sizes)] == IF i = 0 THEN 0 ELSE sum[i - 1] + sizes[i]
  IN  sum[Len(sizes)]

\* The eviction loop stops at position k: either only the last entry is left
\* or what is left fits the budget.
StopsAt(sizes, k, max) ==
  \/ k = Len(sizes)
  \/ TotalBytes(SuffixFrom(sizes, k)) <= max

\* The first entry that survives the eviction loop.
KeepFrom(sizes, max) ==
  CHOOSE k \in 1 .. Len(sizes) :
    /\ StopsAt(sizes, k, max)
    /\ \A j \in 1 .. (k - 1) : ~ StopsAt(sizes, j, max)

\* A non-empty buffer after the eviction loop.
Evict(s, sizes, max) == SuffixFrom(s, KeepFrom(sizes, max))

\* Within budget, or down to the one entry that is never evicted.
WithinBudget(sizes, max) ==
  \/ Len(sizes) <= 1
  \/ TotalBytes(sizes) <= max
===========================================================================
