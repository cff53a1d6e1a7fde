---------------------------- MODULE DaemonProofs ----------------------------
(***************************************************************************)
(* What the proofs about the terminal's stream and the chat's share: what  *)
(* the eviction loop of every replay buffer (module Ring) returns, for any *)
(* buffer and any budget, the daemon's ring, its broadcast channel, and    *)
(* the types of its variables.                                             *)
(***************************************************************************)
EXTENDS PtyDaemon, SequenceTheorems, WellFoundedInduction, TLAPS

-----------------------------------------------------------------------------
(* Ring *)

\* The naturals are well ordered: a non-empty set of them has a least element.
LEMMA LeastNat ==
  ASSUME NEW T \in SUBSET Nat, T # {}
  PROVE  \E n \in T : \A m \in T : n <= m
<1> DEFINE R == OpToRel(<, Nat)
<1>1. IsWellFoundedOn(R, Nat)
  BY NatLessThanWellFounded, Zenon
<1>2. \A m, n \in Nat : m < n => <<m, n>> \in R
  BY DEF OpToRel
<1> HIDE DEF R
<1>3. PICK n \in T : \A m \in T : ~ (<<m, n>> \in R)
  BY <1>1, WFMin
<1>4. \A m \in T : ~ (m < n)
  BY <1>2, <1>3
<1> QED
  BY <1>4

\* The eviction loops of ByteBuffer, EventBuffer and History (`while total >
\* max && chunks.len() > 1`) stop at an entry of the buffer, and where they
\* stop the buffer fits the budget or is down to its last entry.
LEMMA EvictionStops ==
  ASSUME NEW sizes \in Seq(Nat), Len(sizes) > 0, NEW max
  PROVE  /\ KeepFrom(sizes, max) \in 1 .. Len(sizes)
         /\ StopsAt(sizes, KeepFrom(sizes, max), max)
         /\ \A j \in 1 .. (KeepFrom(sizes, max) - 1) : ~ StopsAt(sizes, j, max)
<1> DEFINE n == Len(sizes)
           Stops == {k \in 1 .. n : StopsAt(sizes, k, max)}
<1>1. n \in Nat \ {0}
  BY LenProperties
<1>2. n \in Stops
  BY <1>1 DEF StopsAt
<1>3. Stops \in SUBSET Nat
  OBVIOUS
<1> HIDE DEF Stops
<1>4. PICK k \in Stops : \A j \in Stops : k <= j
  BY <1>2, <1>3, LeastNat
<1> USE DEF Stops
<1>5. k \in 1 .. n /\ StopsAt(sizes, k, max)
  BY <1>4
<1>6. \A j \in 1 .. (k - 1) : ~ StopsAt(sizes, j, max)
  BY <1>1, <1>4, <1>5
<1>7. \E i \in 1 .. Len(sizes) :
        /\ StopsAt(sizes, i, max)
        /\ \A j \in 1 .. (i - 1) : ~ StopsAt(sizes, j, max)
  BY <1>5, <1>6
<1> QED
  BY <1>7, Zenon DEF KeepFrom

\* What is left is a suffix of the buffer that keeps its last entry.
LEMMA EvictIsSuffix ==
  ASSUME NEW S, NEW s \in Seq(S), NEW sizes \in Seq(Nat),
         Len(sizes) = Len(s), Len(s) > 0, NEW max
  PROVE  \E k \in 1 .. Len(s) :
           /\ StopsAt(sizes, k, max)
           /\ \A j \in 1 .. (k - 1) : ~ StopsAt(sizes, j, max)
           /\ Evict(s, sizes, max) = SuffixFrom(s, k)
BY EvictionStops DEF Evict

\* A suffix of a sequence, entry by entry.
LEMMA SuffixProperties ==
  ASSUME NEW S, NEW s \in Seq(S), NEW k \in 1 .. (Len(s) + 1)
  PROVE  /\ SuffixFrom(s, k) \in Seq(S)
         /\ Len(SuffixFrom(s, k)) = Len(s) - k + 1
         /\ \A i \in 1 .. (Len(s) - k + 1) : SuffixFrom(s, k)[i] = s[k + i - 1]
<1>1. Len(s) \in Nat /\ \A i \in k .. Len(s) : s[i] \in S
  BY LenProperties, ElementOfSeq
<1> QED
  BY <1>1, SubSeqProperties DEF SuffixFrom

\* Evicting leaves the buffer within its budget.
LEMMA StoppedWithinBudget ==
  ASSUME NEW sizes \in Seq(Nat), NEW k \in 1 .. Len(sizes), NEW max,
         StopsAt(sizes, k, max)
  PROVE  WithinBudget(SuffixFrom(sizes, k), max)
<1>1. Len(sizes) \in Nat
  BY LenProperties
<1>2. Len(SuffixFrom(sizes, k)) = Len(sizes) - k + 1
  BY <1>1, SuffixProperties
<1> QED
  BY <1>1, <1>2 DEF StopsAt, WithinBudget

\* total_bytes is the last of the partial sums, however they are given.
LEMMA TotalIsSum ==
  ASSUME NEW sizes, NEW n \in Nat, n = Len(sizes),
         NEW g, g[0] = 0, \A i \in 1 .. n : g[i] = g[i - 1] + sizes[i]
  PROVE  TotalBytes(sizes) = g[n]
<1> DEFINE Sums(f) == f = [i \in 0 .. n |-> IF i = 0 THEN 0 ELSE f[i - 1] + sizes[i]]
<1>1. \E f : Sums(f)
  <2>1. PICK f : f = [i \in 0 .. n |-> g[i]]
    OBVIOUS
  <2>2. \A i \in 0 .. n : f[i] = IF i = 0 THEN 0 ELSE f[i - 1] + sizes[i]
    BY <2>1
  <2>3. f = [i \in 0 .. n |-> f[i]]
    BY <2>1
  <2> QED
    BY <2>2, <2>3
<1>2. PICK f : f = CHOOSE h : Sums(h)
  OBVIOUS
<1>3. Sums(f)
  BY <1>1, <1>2
<1>4. TotalBytes(sizes) = f[n]
  BY <1>2 DEF TotalBytes
<1>5. f[0] = 0 /\ \A i \in 1 .. n : f[i] = f[i - 1] + sizes[i]
  BY <1>3
<1> HIDE DEF Sums
<1> DEFINE T == {i \in 0 .. n : f[i] # g[i]}
<1>6. ASSUME T # {} PROVE FALSE
  <2>0. T \in SUBSET Nat
    OBVIOUS
  <2>1. PICK i \in T : \A j \in T : i <= j
    <3> HIDE DEF T
    <3> QED
      BY <1>6, <2>0, LeastNat
  <2>2. i \in 1 .. n /\ i - 1 \in 0 .. n /\ i - 1 \notin T
    BY <1>5, <2>1
  <2> QED
    BY <1>5, <2>1, <2>2
<1> QED
  BY <1>4, <1>6

\* A buffer whose entries, all but the first, are of size 1.
LEMMA TotalOfOnes ==
  ASSUME NEW sizes \in Seq(Nat), Len(sizes) > 0, \A i \in 2 .. Len(sizes) : sizes[i] = 1
  PROVE  TotalBytes(sizes) = sizes[1] + Len(sizes) - 1
<1>1. PICK n \in Nat : n = Len(sizes) /\ n > 0
  BY LenProperties
<1>2. sizes[1] \in Nat
  BY <1>1, ElementOfSeq
<1>3. PICK g : g = [i \in 0 .. n |-> IF i = 0 THEN 0 ELSE sizes[1] + i - 1]
  OBVIOUS
<1>4. g[0] = 0 /\ g[n] = sizes[1] + n - 1 /\ \A i \in 1 .. n : g[i] = g[i - 1] + sizes[i]
  <2>1. \A i \in 1 .. n : i = 1 \/ (i \in 2 .. n /\ sizes[i] = 1 /\ i - 1 \in 1 .. n)
    BY <1>1
  <2> QED
    BY <1>1, <1>2, <1>3, <2>1
<1> QED
  BY <1>1, <1>4, TotalIsSum

\* The eviction loop takes nothing that it need not, and nothing too little, where all entries
\* but the first are of size 1 (chunks after a replay) and the first is at most deep.
LEMMA EvictKeeps ==
  ASSUME NEW S, NEW s \in Seq(S), NEW sizes \in Seq(Nat),
         Len(sizes) = Len(s), Len(s) > 0, NEW max \in Nat,
         \A i \in 2 .. Len(s) : sizes[i] = 1
  PROVE  \E k \in 1 .. Len(s) :
           /\ Evict(s, sizes, max) = SuffixFrom(s, k)
           /\ k > 1 => max < sizes[k - 1] + (Len(s) - k + 1)
           /\ sizes[1] = 1 => Len(s) - k + 1 <= max \/ k = Len(s)
<1>1. PICK n \in Nat : n = Len(s) /\ n > 0
  BY LenProperties
<1>2. PICK k \in 1 .. n :
        /\ StopsAt(sizes, k, max)
        /\ \A j \in 1 .. (k - 1) : ~ StopsAt(sizes, j, max)
        /\ Evict(s, sizes, max) = SuffixFrom(s, k)
  BY <1>1, EvictIsSuffix
<1>3. \A i \in 1 .. n : sizes[i] \in Nat
  BY <1>1, ElementOfSeq
<1>4. ASSUME NEW j \in 1 .. n
      PROVE  TotalBytes(SuffixFrom(sizes, j)) = sizes[j] + (n - j)
  <2>1. PICK z : z = SuffixFrom(sizes, j)
    OBVIOUS
  <2>2. j \in 1 .. (Len(sizes) + 1)
    BY <1>1
  <2>3. /\ z \in Seq(Nat) /\ Len(z) = n - j + 1
        /\ \A i \in 1 .. (n - j + 1) : z[i] = sizes[j + i - 1]
    BY <1>1, <2>1, <2>2, SuffixProperties
  <2>4. Len(z) > 0 /\ z[1] = sizes[j]
    BY <2>3
  <2>5. \A i \in 2 .. (n - j + 1) : j + i - 1 \in 2 .. n
    OBVIOUS
  <2>6. \A i \in 2 .. Len(z) : z[i] = 1
    <3>1. ASSUME NEW i \in 2 .. (n - j + 1) PROVE z[i] = 1
      <4>1. i \in 1 .. (n - j + 1) /\ j + i - 1 \in 2 .. n
        BY <2>5
      <4>2. z[i] = sizes[j + i - 1]
        BY <2>3, <4>1
      <4> QED
        BY <1>1, <4>1, <4>2
    <3> QED
      BY <2>3, <3>1
  <2>7. TotalBytes(z) = z[1] + Len(z) - 1
    BY <2>3, <2>4, <2>6, TotalOfOnes
  <2> QED
    BY <1>3, <2>1, <2>3, <2>4, <2>7
<1>5. k > 1 => max < sizes[k - 1] + (n - k + 1)
  <2> SUFFICES ASSUME k > 1 PROVE max < sizes[k - 1] + (n - k + 1)
    OBVIOUS
  <2>1. k - 1 \in 1 .. n /\ k - 1 \in 1 .. (k - 1)
    OBVIOUS
  <2>2. ~ (TotalBytes(SuffixFrom(sizes, k - 1)) <= max)
    BY <1>2, <2>1 DEF StopsAt
  <2>3. TotalBytes(SuffixFrom(sizes, k - 1)) = sizes[k - 1] + (n - (k - 1))
    BY <1>4, <2>1
  <2> QED
    BY <1>3, <2>1, <2>2, <2>3
<1>6. sizes[1] = 1 => n - k + 1 <= max \/ k = n
  <2> SUFFICES ASSUME sizes[1] = 1, k # n PROVE n - k + 1 <= max
    OBVIOUS
  <2>1. sizes[k] = 1
    <3>1. k = 1 \/ k \in 2 .. n
      OBVIOUS
    <3> QED
      BY <1>1, <3>1
  <2>2. TotalBytes(SuffixFrom(sizes, k)) <= max
    BY <1>1, <1>2 DEF StopsAt
  <2> QED
    BY <1>4, <2>1, <2>2
<1> QED
  BY <1>1, <1>2, <1>5, <1>6

-----------------------------------------------------------------------------
(* PtyDaemon *)

\* A broadcast send keeps a receiver well typed and drops only what it held.
LEMMA PushType ==
  ASSUME NEW S, NEW q \in Seq(S), NEW e \in S, NEW cap \in Nat \ {0}
  PROVE  /\ Push(q, e, cap) \in Seq(S)
         /\ Skipped(q, cap) \in SUBSET S
<1>1. CASE Len(q) < cap
  BY <1>1, AppendProperties DEF Push, Skipped
<1>2. CASE ~ (Len(q) < cap)
  <2>1. q # <<>>
    BY <1>2, LenProperties
  <2>2. Head(q) \in S /\ Tail(q) \in Seq(S)
    BY <2>1, HeadTailProperties
  <2> QED
    BY <1>2, <2>2, AppendProperties DEF Push, Skipped
<1> QED
  BY <1>1, <1>2

\* new is s without its first d entries, and e after them.
AddedTo(new, s, d, e) ==
  /\ Len(new) = Len(s) + 1 - d
  /\ Len(s) >= d
  /\ \A i \in 1 .. (Len(s) - d) : new[i] = s[i + d]
  /\ new[Len(s) + 1 - d] = e

\* What a broadcast send makes of a receiver: the new frame is last, and all
\* before it were there, in the same order.
LEMMA PushShape ==
  ASSUME NEW S, NEW q \in Seq(S), NEW e \in S, NEW cap \in Nat \ {0}
  PROVE  \E d \in {0, 1} : AddedTo(Push(q, e, cap), q, d, e)
<1>1. CASE Len(q) < cap
  <2>1. AddedTo(Append(q, e), q, 0, e)
    BY AppendProperties, LenProperties DEF AddedTo
  <2> QED
    BY <1>1, <2>1 DEF Push
<1>2. CASE ~ (Len(q) < cap)
  <2>1. q # <<>> /\ Len(q) \in Nat
    BY <1>2, LenProperties
  <2>2. /\ Tail(q) \in Seq(S)
        /\ Len(Tail(q)) = Len(q) - 1
        /\ \A i \in 1 .. Len(Tail(q)) : Tail(q)[i] = q[i + 1]
    BY <2>1, HeadTailProperties
  <2>3. Push(q, e, cap) = Append(Tail(q), e)
    BY <1>2 DEF Push
  <2>4. /\ Len(Append(Tail(q), e)) = Len(q)
        /\ \A i \in 1 .. (Len(q) - 1) : Append(Tail(q), e)[i] = q[i + 1]
        /\ Append(Tail(q), e)[Len(q)] = e
    BY <2>1, <2>2, AppendProperties
  <2>5. Len(q) >= 1
    BY <2>1, EmptySeq
  <2>6. AddedTo(Append(Tail(q), e), q, 1, e)
    BY <2>1, <2>4, <2>5 DEF AddedTo
  <2> QED
    BY <2>3, <2>6
<1> QED
  BY <1>1, <1>2

\* ByteBuffer::append keeps the ring a sequence of chunks.
LEMMA RingAppendType ==
  ASSUME NEW S, NEW s \in Seq(S), NEW c \in S
  PROVE  RingAppend(s, c) \in Seq(S)
<1> DEFINE t == Append(s, c)
           ones == [i \in 1 .. Len(t) |-> 1]
<1>1. t \in Seq(S) /\ Len(t) \in Nat \ {0}
  BY AppendProperties, LenProperties
<1>2. ones \in Seq(Nat) /\ Len(ones) = Len(t)
  BY <1>1
<1> HIDE DEF ones, t
<1>3. PICK k \in 1 .. Len(t) : Evict(t, ones, RingMax) = SuffixFrom(t, k)
  BY <1>1, <1>2, EvictIsSuffix
<1>4. RingAppend(s, c) = Evict(t, ones, RingMax)
  BY DEF RingAppend, t, ones
<1> QED
  BY <1>1, <1>3, <1>4, SuffixProperties

\* A broadcast to the connection keeps its receiver well typed.
LEMMA BroadcastType ==
  ASSUME DaemonTypeOK, NEW e \in 0 .. MaxOut, Broadcast(e)
  PROVE  dq' \in Seq(0 .. MaxOut) /\ dlost' \in SUBSET (1 .. MaxOut)
<1>1. /\ dq \in Seq(0 .. MaxOut) /\ dlost \in SUBSET (1 .. MaxOut)
      /\ DaemonCap \in Nat \ {0} /\ MaxOut \in Nat
  BY DaemonAssumption DEF DaemonTypeOK, DaemonAssumption
<1>2. CASE conn = "none"
  BY <1>1, <1>2 DEF Broadcast
<1>3. CASE conn # "none"
  <2>1. dq' = Push(dq, e, DaemonCap) /\ dlost' = dlost \cup (Skipped(dq, DaemonCap) \ {Exit})
    BY <1>3 DEF Broadcast
  <2>2. Push(dq, e, DaemonCap) \in Seq(0 .. MaxOut) /\ Skipped(dq, DaemonCap) \in SUBSET (0 .. MaxOut)
    BY <1>1, PushType
  <2>3. \A x \in 0 .. MaxOut : x # Exit => x \in 1 .. MaxOut
    BY <1>1 DEF Exit
  <2> QED
    BY <1>1, <2>1, <2>2, <2>3
<1> QED
  BY <1>2, <1>3

\* The daemon's own steps keep its variables well typed.
LEMMA DaemonTypeStep ==
  ASSUME DaemonTypeOK, PtyRead \/ PtyBroadcast \/ ChildExit \/ DaemonGone
  PROVE  DaemonTypeOK'
<1>1. /\ DaemonTypeOK /\ MaxOut \in Nat
      /\ out \in 0 .. MaxOut /\ ring \in Seq(1 .. MaxOut) /\ unsent \in 0 .. MaxOut
      /\ dq \in Seq(0 .. MaxOut) /\ dlost \in SUBSET (1 .. MaxOut)
  BY DaemonAssumption DEF DaemonTypeOK, DaemonAssumption
<1>2. ASSUME PtyRead PROVE DaemonTypeOK'
  <2>1. out + 1 \in 1 .. MaxOut
    BY <1>1, <1>2 DEF PtyRead
  <2>2. ring' \in Seq(1 .. MaxOut)
    BY <1>1, <1>2, <2>1, RingAppendType DEF PtyRead
  <2> QED
    BY <1>1, <1>2, <2>1, <2>2 DEF PtyRead, DaemonTypeOK
<1>3. ASSUME PtyBroadcast PROVE DaemonTypeOK'
  <2>1. dq' \in Seq(0 .. MaxOut) /\ dlost' \in SUBSET (1 .. MaxOut)
    BY <1>1, <1>3, BroadcastType DEF PtyBroadcast
  <2> QED
    BY <1>1, <1>3, <2>1 DEF PtyBroadcast, DaemonTypeOK
<1>4. ASSUME ChildExit PROVE DaemonTypeOK'
  <2>1. Exit \in 0 .. MaxOut
    BY <1>1 DEF Exit
  <2>2. dq' \in Seq(0 .. MaxOut) /\ dlost' \in SUBSET (1 .. MaxOut)
    BY <1>1, <1>4, <2>1, BroadcastType DEF ChildExit
  <2> QED
    BY <1>1, <1>4, <2>2 DEF ChildExit, DaemonTypeOK
<1>5. ASSUME DaemonGone PROVE DaemonTypeOK'
  BY <1>1, <1>5, EmptySeq DEF DaemonGone, DaemonTypeOK
<1> QED
  BY <1>2, <1>3, <1>4, <1>5

\* Subscribing to a daemon, or to a new one, keeps its variables well typed.
LEMMA AcceptType ==
  ASSUME DaemonTypeOK, Accept
  PROVE  DaemonTypeOK'
<1>1. spawns' \in 0 .. MaxSpawns
  BY DaemonAssumption DEF Accept, DaemonTypeOK, DaemonAssumption
<1>2. dstate' \in {"down", "up", "exiting"} /\ conn' \in {"none", "subscribed", "live"}
  BY DEF Accept, DaemonTypeOK
<1> QED
  BY <1>1, <1>2, EmptySeq DEF Accept, DaemonTypeOK

\* The sizes of entries of size 1.
Ones(s) == [i \in 1 .. Len(s) |-> 1]

\* new is what s holds from position k on.
FromOn(new, s, k) ==
  /\ Len(new) = Len(s) - k + 1
  /\ \A i \in 1 .. (Len(s) - k + 1) : new[i] = s[k + i - 1]

\* What is left of a buffer whose entries have size 1 is a suffix of it,
\* within the budget.
LEMMA EvictOnes ==
  ASSUME NEW S, NEW s \in Seq(S), Len(s) > 0, NEW max,
         NEW new, new = Evict(s, Ones(s), max)
  PROVE  /\ new \in Seq(S)
         /\ WithinBudget(Ones(new), max)
         /\ \E k \in 1 .. Len(s) : FromOn(new, s, k)
<1> DEFINE ones == Ones(s)
<1>1. Len(s) \in Nat \ {0}
  BY LenProperties
<1>2. ones \in Seq(Nat) /\ Len(ones) = Len(s) /\ \A i \in 1 .. Len(s) : ones[i] = 1
  BY <1>1 DEF Ones
<1>0. new = Evict(s, ones, max)
  OBVIOUS
<1> HIDE DEF ones
<1>3. PICK k \in 1 .. Len(s) : StopsAt(ones, k, max) /\ new = SuffixFrom(s, k)
  BY <1>0, <1>1, <1>2, EvictIsSuffix
<1>4. k \in 1 .. (Len(s) + 1) /\ k \in 1 .. Len(ones)
  BY <1>1, <1>2, <1>3
<1>5. /\ new \in Seq(S) /\ Len(new) = Len(s) - k + 1
      /\ \A i \in 1 .. (Len(s) - k + 1) : new[i] = s[k + i - 1]
  BY <1>3, <1>4, SuffixProperties
<1>6. PICK rest : rest = SuffixFrom(ones, k)
  OBVIOUS
<1>7. /\ rest \in Seq(Nat) /\ Len(rest) = Len(new)
      /\ \A i \in 1 .. Len(new) : rest[i] = ones[k + i - 1]
  <2>1. ones \in Seq(Nat) /\ k \in 1 .. (Len(ones) + 1)
    BY <1>2, <1>4
  <2>2. /\ rest \in Seq(Nat) /\ Len(rest) = Len(ones) - k + 1
        /\ \A i \in 1 .. (Len(ones) - k + 1) : rest[i] = ones[k + i - 1]
    BY <1>6, <2>1, SuffixProperties
  <2> QED
    BY <1>2, <1>5, <2>2
<1>8. \A i \in 1 .. Len(new) : rest[i] = 1
  <2>1. \A i \in 1 .. Len(new) : k + i - 1 \in 1 .. Len(s)
    BY <1>1, <1>3, <1>5
  <2> QED
    BY <1>2, <1>7, <2>1
<1>9. PICK all : all = Ones(new)
  OBVIOUS
<1>10. all = rest
  <2>1. Len(new) \in Nat
    BY <1>5, LenProperties
  <2>2. all \in Seq(Nat) /\ Len(all) = Len(new) /\ \A i \in 1 .. Len(new) : all[i] = 1
    BY <1>9, <2>1 DEF Ones
  <2> QED
    BY <1>7, <1>8, <2>2, SeqEqual
<1>11. WithinBudget(rest, max)
  BY <1>2, <1>3, <1>4, <1>6, StoppedWithinBudget
<1> QED
  BY <1>3, <1>5, <1>9, <1>10, <1>11 DEF FromOn
-----------------------------------------------------------------------------
(* What the daemon still owes its connection *)

\* What the daemon still owes the connection: increasing, below what the
\* reader holds in its hand.
LinesInOrder ==
  /\ unsent # 0 => unsent = out
  /\ \A i \in 1 .. Len(dq) : dq[i] <= out /\ (unsent # 0 => dq[i] < unsent)
  /\ \A i, j \in 1 .. Len(dq) : i < j /\ dq[i] # Exit /\ dq[j] # Exit => dq[i] < dq[j]

\* Item e is earlier than all that the daemon still owes the connection.
Awaited(e) ==
  /\ e <= out
  /\ unsent # 0 => e < unsent
  /\ \A i \in 1 .. Len(dq) : dq[i] # Exit => e < dq[i]

\* The reader task on the other side takes the first item that is not the exit.
ItemTaken == dq # <<>> /\ Head(dq) # Exit /\ dq' = Tail(dq) /\ UNCHANGED <<out, unsent>>

\* The connection starts anew or ends, with the daemon or without it.
Emptied == dq' = <<>> /\ out' = out /\ unsent' \in {0, unsent}

\* What any step of the system does to the output that is still owed.
Moves ==
  \/ PtyRead \/ PtyBroadcast \/ ChildExit
  \/ ItemTaken \/ Emptied
  \/ UNCHANGED <<out, unsent, dq>>

\* The lines in a queue are in order; all that is in new is e or was in q.
LinesRise(q) == \A i, j \in 1 .. Len(q) : i < j /\ q[i] # Exit /\ q[j] # Exit => q[i] < q[j]
Sends(new, q, e) == \A i \in 1 .. Len(new) : new[i] = e \/ \E k \in 1 .. Len(q) : new[i] = q[k]

\* A broadcast keeps the queue in order when what is sent is the exit, or a
\* line later than all that are queued.
LEMMA QueueSent ==
  ASSUME NEW q \in Seq(0 .. MaxOut), NEW e \in 0 .. MaxOut, NEW cap \in Nat \ {0},
         NEW new, new = Push(q, e, cap), MaxOut \in Nat, LinesRise(q),
         \A i \in 1 .. Len(q) : e # Exit => q[i] < e
  PROVE  Sends(new, q, e) /\ LinesRise(new)
<1>1. PICK n \in Nat : n = Len(q)
  BY LenProperties
<1>2. PICK d \in {0, 1} :
        /\ Len(new) = n + 1 - d /\ n >= d
        /\ \A i \in 1 .. (n - d) : new[i] = q[i + d]
        /\ new[n + 1 - d] = e
  <2>1. \E d \in {0, 1} : AddedTo(new, q, d, e)
    BY PushShape
  <2> QED
    BY <1>1, <2>1 DEF AddedTo
<1>3. \A i \in 1 .. Len(new) :
        \/ i = Len(new) /\ new[i] = e
        \/ i < Len(new) /\ i + d \in 1 .. n /\ new[i] = q[i + d]
  <2>1. \A i \in 1 .. (n + 1 - d) :
          i = n + 1 - d \/ (i < n + 1 - d /\ i \in 1 .. (n - d) /\ i + d \in 1 .. n)
    BY <1>1, <1>2
  <2>2. ASSUME NEW i \in 1 .. (n + 1 - d)
        PROVE  \/ i = Len(new) /\ new[i] = e
               \/ i < Len(new) /\ i + d \in 1 .. n /\ new[i] = q[i + d]
    <3>1. CASE i = n + 1 - d
      BY <1>2, <3>1
    <3>2. CASE i < n + 1 - d /\ i \in 1 .. (n - d) /\ i + d \in 1 .. n
      BY <1>2, <3>2
    <3> QED
      BY <2>1, <3>1, <3>2
  <2> QED
    BY <1>2, <2>2
<1>4. ASSUME NEW i \in 1 .. Len(new), NEW j \in 1 .. Len(new),
             i < j, new[i] # Exit, new[j] # Exit
      PROVE  new[i] < new[j]
  <2>0. i # Len(new)
    BY <1>1, <1>2, <1>4
  <2>1. i + d \in 1 .. n /\ new[i] = q[i + d]
    BY <1>3, <2>0
  <2>2. CASE new[j] = e
    BY <1>1, <1>4, <2>1, <2>2
  <2>3. CASE j + d \in 1 .. n /\ new[j] = q[j + d]
    <3>1. i + d < j + d
      BY <1>2, <1>4
    <3> QED
      BY <1>1, <1>4, <2>1, <2>3, <3>1 DEF LinesRise
  <2> QED
    BY <1>3, <2>2, <2>3
<1>5. Sends(new, q, e)
  <2>1. ASSUME NEW i \in 1 .. Len(new) PROVE new[i] = e \/ \E k \in 1 .. n : new[i] = q[k]
    BY <1>3
  <2> QED
    BY <1>1, <2>1 DEF Sends
<1> QED
  BY <1>4, <1>5 DEF LinesRise

\* The queue after its first frame was taken.
LEMMA QueueTaken ==
  ASSUME NEW S, NEW q \in Seq(S), q # <<>>, NEW new, new = Tail(q)
  PROVE  /\ Len(q) \in Nat /\ Len(new) = Len(q) - 1 /\ 1 \in 1 .. Len(q)
         /\ Head(q) = q[1] /\ q[1] \in S /\ new \in Seq(S)
         /\ \A i \in 1 .. Len(new) :
              /\ i + 1 \in 1 .. Len(q) /\ i \in 1 .. (Len(q) - 1) /\ new[i] = q[i + 1]
<1>1. Len(q) \in Nat /\ Len(q) # 0
  BY LenProperties, EmptySeq
<1>2. /\ new \in Seq(S) /\ Len(new) = Len(q) - 1
      /\ \A i \in 1 .. Len(new) : new[i] = q[i + 1]
  BY HeadTailProperties
<1>3. Head(q) = q[1] /\ q[1] \in S
  BY HeadTailProperties
<1>4. PICK n \in Nat : n = Len(q) /\ n # 0
  BY <1>1
<1>5. \A i \in 1 .. (n - 1) : i + 1 \in 1 .. n /\ i \in 1 .. (n - 1)
  BY <1>4
<1> QED
  BY <1>2, <1>3, <1>4, <1>5

\* What is owed stays in order.
LEMMA LinesKept ==
  ASSUME DaemonTypeOK, LinesInOrder, Moves
  PROVE  LinesInOrder'
<1>1. /\ MaxOut \in Nat /\ DaemonCap \in Nat \ {0}
      /\ out \in 0 .. MaxOut /\ unsent \in 0 .. MaxOut /\ dq \in Seq(0 .. MaxOut)
      /\ Len(dq) \in Nat /\ \A i \in 1 .. Len(dq) : dq[i] \in 0 .. MaxOut
  BY DaemonAssumption, LenProperties, ElementOfSeq DEF DaemonTypeOK, DaemonAssumption
<1>2. /\ unsent # 0 => unsent = out
      /\ \A i \in 1 .. Len(dq) : dq[i] <= out /\ (unsent # 0 => dq[i] < unsent)
      /\ \A i, j \in 1 .. Len(dq) : i < j /\ dq[i] # Exit /\ dq[j] # Exit => dq[i] < dq[j]
  BY DEF LinesInOrder
<1>3. ASSUME UNCHANGED <<out, unsent, dq>> PROVE LinesInOrder'
  BY <1>3 DEF LinesInOrder
<1>4. CASE Emptied
  BY <1>2, <1>4 DEF Emptied, LinesInOrder
<1>5. CASE PtyRead
  <2>1. /\ unsent = 0 /\ out' = out + 1 /\ unsent' = out + 1 /\ dq' = dq
    BY <1>5 DEF PtyRead
  <2>2. \A i \in 1 .. Len(dq) : dq[i] <= out + 1 /\ dq[i] < out + 1
    BY <1>1, <1>2
  <2> QED
    BY <1>2, <2>1, <2>2 DEF LinesInOrder
<1>6. ASSUME NEW e \in {Exit, unsent}, e # Exit => unsent' = 0 /\ unsent # 0,
             e = Exit => unsent' = unsent, Broadcast(e), out' = out
      PROVE  LinesInOrder'
  <2>1. CASE conn = "none"
    BY <1>2, <1>6, <2>1 DEF LinesInOrder, Broadcast
  <2>2. CASE conn # "none"
    <3>1. PICK new : new = dq'
      OBVIOUS
    <3>2. new = Push(dq, e, DaemonCap)
      BY <1>6, <2>2, <3>1 DEF Broadcast
    <3>3. e \in 0 .. MaxOut /\ e <= out
      BY <1>1, <1>2, <1>6 DEF Exit
    <3>4. \A i \in 1 .. Len(dq) : e # Exit => dq[i] < e
      BY <1>2, <1>6
    <3>5. /\ \A i \in 1 .. Len(new) : new[i] = e \/ \E k \in 1 .. Len(dq) : new[i] = dq[k]
          /\ \A i, j \in 1 .. Len(new) : i < j /\ new[i] # Exit /\ new[j] # Exit => new[i] < new[j]
      <4>1. LinesRise(dq)
        BY <1>2 DEF LinesRise
      <4>2. Sends(new, dq, e) /\ LinesRise(new)
        BY <1>1, <3>2, <3>3, <3>4, <4>1, QueueSent
      <4> QED
        BY <4>2 DEF Sends, LinesRise
    <3>6. \A i \in 1 .. Len(new) : new[i] <= out
      BY <1>2, <3>3, <3>5
    <3>7. unsent' # 0 => e = 0 /\ unsent' = unsent /\ unsent = out
      BY <1>2, <1>6 DEF Exit
    <3>8. unsent' # 0 => \A i \in 1 .. Len(new) : new[i] < unsent'
      BY <1>1, <1>2, <3>5, <3>7
    <3> QED
      BY <1>6, <3>1, <3>5, <3>6, <3>7, <3>8 DEF LinesInOrder
  <2> QED
    BY <2>1, <2>2
<1>7. CASE PtyBroadcast
  BY <1>6, <1>7 DEF PtyBroadcast, Exit
<1>8. CASE ChildExit
  BY <1>6, <1>8 DEF ChildExit, Exit
<1>9. CASE ItemTaken
  <2>1. PICK new : new = dq'
    OBVIOUS
  <2>2. dq # <<>> /\ new = Tail(dq) /\ UNCHANGED <<out, unsent>>
    BY <1>9, <2>1 DEF ItemTaken
  <2>3. \A i \in 1 .. Len(new) : i + 1 \in 1 .. Len(dq) /\ new[i] = dq[i + 1]
    BY <1>1, <2>2, QueueTaken
  <2>4. \A i \in 1 .. Len(new) : new[i] <= out /\ (unsent # 0 => new[i] < unsent)
    BY <1>2, <2>3
  <2>5. ASSUME NEW i \in 1 .. Len(new), NEW j \in 1 .. Len(new),
               i < j, new[i] # Exit, new[j] # Exit
        PROVE  new[i] < new[j]
    <3>1. i + 1 < j + 1
      BY <2>5
    <3> QED
      BY <1>2, <2>3, <2>5, <3>1
  <2> QED
    BY <1>2, <2>1, <2>2, <2>4, <2>5 DEF LinesInOrder
<1> QED
  BY <1>3, <1>4, <1>5, <1>7, <1>8, <1>9 DEF Moves

\* What is earlier than all that is owed stays so.
LEMMA AwaitedKept ==
  ASSUME DaemonTypeOK, NEW e \in Nat, Awaited(e),
         Moves
  PROVE  Awaited(e)'
<1>1. PICK q : q = dq'
  OBVIOUS
<1>2. dq \in Seq(0 .. MaxOut) /\ out \in Nat /\ unsent \in 0 .. MaxOut /\ DaemonCap \in Nat \ {0}
      /\ MaxOut \in Nat
  BY DaemonAssumption DEF DaemonTypeOK, DaemonAssumption
<1>3. e <= out /\ (unsent # 0 => e < unsent) /\ \A i \in 1 .. Len(dq) : dq[i] # Exit => e < dq[i]
  BY DEF Awaited
<1>4. CASE PtyRead
  BY <1>2, <1>3, <1>4 DEF Awaited, PtyRead
<1>5. ASSUME NEW u \in 0 .. MaxOut, Broadcast(u), u # Exit => e < u
      PROVE  \A i \in 1 .. Len(q) : q[i] # Exit => e < q[i]
  <2>1. CASE dq' = dq
    BY <1>1, <1>3, <2>1
  <2>2. CASE q = Push(dq, u, DaemonCap)
    <3>1. PICK d \in {0, 1} : AddedTo(q, dq, d, u)
      BY <1>2, <2>2, PushShape
    <3>2. PICK n : n = Len(dq)
      OBVIOUS
    <3>3. n \in Nat
      BY <1>2, <3>2, LenProperties
    <3>4. /\ Len(q) = n + 1 - d
          /\ \A i \in 1 .. (n - d) : q[i] = dq[i + d]
          /\ q[n + 1 - d] = u
      BY <3>1, <3>2 DEF AddedTo
    <3>5. ASSUME NEW i \in 1 .. Len(q), q[i] # Exit PROVE e < q[i]
      <4>1. CASE i = n + 1 - d
        BY <1>5, <3>4, <3>5, <4>1
      <4>2. CASE i # n + 1 - d
        <5>1. i \in 1 .. (n - d) /\ i + d \in 1 .. n
          BY <3>1, <3>3, <3>4, <3>5, <4>2
        <5> QED
          BY <1>3, <3>2, <3>4, <3>5, <5>1
      <4> QED
        BY <4>1, <4>2
    <3> QED
      BY <3>5
  <2> QED
    BY <1>1, <1>5, <2>1, <2>2 DEF Broadcast
<1>6. CASE PtyBroadcast
  <2>1. Broadcast(unsent) /\ unsent # 0 /\ unsent' = 0 /\ out' = out
    BY <1>6 DEF PtyBroadcast
  <2> QED
    BY <1>1, <1>2, <1>3, <1>5, <2>1 DEF Awaited
<1>7. CASE ChildExit
  <2>1. Broadcast(Exit) /\ unsent' = unsent /\ out' = out
    BY <1>7 DEF ChildExit
  <2>2. Exit \in 0 .. MaxOut
    BY <1>2 DEF Exit
  <2> QED
    BY <1>1, <1>2, <1>3, <1>5, <2>1, <2>2 DEF Awaited
<1>8. CASE UNCHANGED <<out, unsent, dq>>
  BY <1>3, <1>8 DEF Awaited
<1>9. CASE ItemTaken
  <2>1. dq # <<>> /\ q = Tail(dq) /\ out' = out /\ unsent' = unsent
    BY <1>1, <1>9 DEF ItemTaken
  <2>2. \A i \in 1 .. Len(q) : i + 1 \in 1 .. Len(dq) /\ q[i] = dq[i + 1]
    BY <1>2, <2>1, QueueTaken
  <2> QED
    BY <1>1, <1>3, <2>1, <2>2 DEF Awaited
<1>10. CASE Emptied
  BY <1>2, <1>3, <1>10, EmptySeq DEF Emptied, Awaited
<1> QED
  BY <1>4, <1>6, <1>7, <1>8, <1>9, <1>10 DEF Moves

\* The line the reader task takes is earlier than all that is still owed.
LEMMA LineAwaited ==
  ASSUME DaemonTypeOK, LinesInOrder, ItemTaken, NEW e, e = Head(dq)
  PROVE  Awaited(e)'
<1>1. PICK q : q = dq' /\ e = Head(dq)
  OBVIOUS
<1>2. /\ dq # <<>> /\ e # Exit /\ q = Tail(dq) /\ out' = out /\ unsent' = unsent
      /\ dq \in Seq(0 .. MaxOut)
  BY <1>1 DEF ItemTaken, DaemonTypeOK
<1>3. /\ 1 \in 1 .. Len(dq) /\ e = dq[1] /\ Len(dq) \in Nat
      /\ \A i \in 1 .. Len(q) : i + 1 \in 1 .. Len(dq) /\ q[i] = dq[i + 1]
  BY <1>1, <1>2, QueueTaken
<1>4. /\ e <= out /\ (unsent # 0 => e < unsent)
      /\ \A i, j \in 1 .. Len(dq) : i < j /\ dq[i] # Exit /\ dq[j] # Exit => dq[i] < dq[j]
  BY <1>3 DEF LinesInOrder
<1>5. ASSUME NEW i \in 1 .. Len(q), q[i] # Exit PROVE e < q[i]
  <2>1. PICK j : j = i + 1
    OBVIOUS
  <2>2. j \in 1 .. Len(dq) /\ q[i] = dq[j] /\ 1 < j
    BY <1>3, <2>1
  <2> QED
    BY <1>2, <1>3, <1>4, <1>5, <2>2
<1>6. e <= out' /\ (unsent' # 0 => e < unsent') /\ \A i \in 1 .. Len(dq') : dq'[i] # Exit => e < dq'[i]
  BY <1>1, <1>2, <1>4, <1>5
<1> QED
  BY <1>1, <1>6 DEF Awaited
=============================================================================
