-------------------------- MODULE TermStreamProofs --------------------------
(***************************************************************************)
(* Theorems about TermStream, for every number of browsers, every size of  *)
(* the buffers and channels, and every number of restarts, drops, remounts *)
(* and respawns: the type invariant, the shape of the history, that a      *)
(* browser never paints a seq twice or out of order, that output reaches   *)
(* the screen twice only where a daemon's handshake overlaps, and that a   *)
(* browser which was not mounted anew has what its cursor says it has and, *)
(* once nothing is on its way, all that the daemon's ring still holds; and *)
(* that the screens implement Screen.                                      *)
(***************************************************************************)
EXTENDS TermStream, DaemonProofs, FiniteSetTheorems

-----------------------------------------------------------------------------
(* The history *)

\* Sets of chunks are finite.
LEMMA DataFinite ==
  ASSUME NEW d \in SUBSET (1 .. MaxOut)
  PROVE  Cardinality(d) \in Nat
<1>1. IsFiniteSet(1 .. MaxOut)
  BY DaemonAssumption, FS_Interval DEF DaemonAssumption
<1> QED
  BY <1>1, FS_Subset, FS_CardinalityType

\* History::append: the new entry is last, what is before it is a suffix of
\* the old history, and the budget is kept.
LEMMA HistAppendShape ==
  ASSUME NEW h \in Seq(Entry), NEW s \in Nat \ {0}, NEW d \in SUBSET (1 .. MaxOut)
  PROVE  /\ HistAppend(h, s, d) \in Seq(Entry)
         /\ \E k \in 1 .. (Len(h) + 1) :
              HistAppend(h, s, d) = SuffixFrom(Append(h, [seq |-> s, data |-> d]), k)
         /\ WithinBudget([i \in 1 .. Len(HistAppend(h, s, d)) |->
                            Cardinality(HistAppend(h, s, d)[i].data)], HistMax)
<1> DEFINE e == [seq |-> s, data |-> d]
           t == Append(h, e)
           sizes == [i \in 1 .. Len(t) |-> Cardinality(t[i].data)]
           new == HistAppend(h, s, d)
<1>1. e \in Entry
  BY DEF Entry
<1>2. t \in Seq(Entry) /\ Len(t) = Len(h) + 1 /\ Len(t) \in Nat \ {0}
  BY <1>1, AppendProperties, LenProperties
<1>3. \A i \in 1 .. Len(t) : Cardinality(t[i].data) \in Nat
  <2>1. TAKE i \in 1 .. Len(t)
  <2>2. t[i] \in Entry
    BY <1>2, ElementOfSeq
  <2> QED
    BY <2>2, DataFinite DEF Entry
<1>4. sizes \in Seq(Nat) /\ Len(sizes) = Len(t)
      /\ \A i \in 1 .. Len(t) : sizes[i] = Cardinality(t[i].data)
  BY <1>2, <1>3
<1>5. new = Evict(t, sizes, HistMax)
  BY DEF HistAppend
<1> HIDE DEF sizes, t, new
<1>6. PICK k \in 1 .. Len(t) : StopsAt(sizes, k, HistMax) /\ new = SuffixFrom(t, k)
  BY <1>2, <1>4, <1>5, EvictIsSuffix
<1>13. k \in 1 .. (Len(t) + 1) /\ k \in 1 .. (Len(sizes) + 1)
  BY <1>2, <1>4, <1>6
<1>7. /\ new \in Seq(Entry)
      /\ Len(new) = Len(t) - k + 1
      /\ \A i \in 1 .. Len(new) : new[i] = t[k + i - 1]
  BY <1>2, <1>6, <1>13, SuffixProperties
<1>8. /\ SuffixFrom(sizes, k) \in Seq(Nat)
      /\ Len(SuffixFrom(sizes, k)) = Len(t) - k + 1
      /\ \A i \in 1 .. (Len(t) - k + 1) : SuffixFrom(sizes, k)[i] = sizes[k + i - 1]
  <2>1. PICK z \in Seq(Nat) : z = sizes /\ Len(z) = Len(t)
    BY <1>4
  <2>2. k \in 1 .. (Len(z) + 1)
    BY <1>13, <2>1
  <2>3. /\ SuffixFrom(z, k) \in Seq(Nat)
        /\ Len(SuffixFrom(z, k)) = Len(z) - k + 1
        /\ \A i \in 1 .. (Len(z) - k + 1) : SuffixFrom(z, k)[i] = z[k + i - 1]
    BY <2>2, SuffixProperties
  <2> QED
    BY <2>1, <2>3
<1> DEFINE ns == [i \in 1 .. Len(new) |-> Cardinality(new[i].data)]
<1>9. Len(new) \in Nat /\ \A i \in 1 .. Len(new) : k + i - 1 \in 1 .. Len(t)
  BY <1>2, <1>6, <1>7
<1>10. \A i \in 1 .. Len(new) : Cardinality(new[i].data) = SuffixFrom(sizes, k)[i]
  BY <1>4, <1>7, <1>8, <1>9
<1>11. ns = SuffixFrom(sizes, k)
  <2>1. \A i \in 1 .. Len(new) : SuffixFrom(sizes, k)[i] \in Nat
    BY <1>7, <1>8, ElementOfSeq
  <2>2. ns \in Seq(Nat) /\ Len(ns) = Len(new) /\ \A i \in 1 .. Len(ns) : ns[i] = SuffixFrom(sizes, k)[i]
    BY <1>9, <1>10, <2>1
  <2> HIDE DEF ns
  <2> QED
    BY <1>7, <1>8, <2>2, SeqEqual
<1>12. WithinBudget(SuffixFrom(sizes, k), HistMax)
  BY <1>4, <1>6, StoppedWithinBudget
<1> QED
  BY <1>2, <1>6, <1>7, <1>11, <1>12 DEF new, t
-----------------------------------------------------------------------------
(* The catch-up attach() computes *)

\* History::since is the suffix of the history above ls.
LEMMA SinceShape ==
  ASSUME hist \in Seq(Entry), next \in Nat \ {0}, HistorySeqs, NEW ls \in Nat
  PROVE  \E k \in 1 .. (Len(hist) + 1) :
           /\ Since(hist, ls) = SuffixFrom(hist, k)
           /\ \A i \in 1 .. (k - 1) : hist[i].seq <= ls
           /\ \A i \in k .. Len(hist) : hist[i].seq > ls
<1> DEFINE n == Len(hist)
           Splits(k) == /\ \A i \in 1 .. (k - 1) : hist[i].seq <= ls
                        /\ \A i \in k .. n : hist[i].seq > ls
           base == next - 1 - n
           cut == IF ls <= base THEN 1 ELSE IF ls >= next - 1 THEN n + 1 ELSE ls - base + 1
<1>1. n \in Nat /\ base \in Nat /\ \A i \in 1 .. n : hist[i].seq = base + i
  BY LenProperties DEF HistorySeqs, HistoryWindow
<1>2. cut \in 1 .. (n + 1)
  BY <1>1
<1>3. Splits(cut)
  BY <1>1, <1>2
<1>4. \E k \in 1 .. (n + 1) : Splits(k)
  BY <1>2, <1>3
<1>5. PICK k \in 1 .. (n + 1) : Splits(k) /\ Since(hist, ls) = SuffixFrom(hist, k)
  BY <1>4 DEF Since
<1> QED
  BY <1>5

\* attach() sends chunk frames only, in order, none above latest_seq; a
\* snapshot comes alone; and without one every frame is above the claim, which
\* then is the browser's own, of this client.
LEMMA CatchUpShape ==
  ASSUME TypeOK, HistorySeqs, NEW ls \in Nat \cup {Null}, NEW a
  PROVE  LET C == CatchUp(ls, a)
         IN  /\ C \in Seq(Frames)
             /\ \A i \in 1 .. Len(C) :
                  /\ ChunkFrame(C[i])
                  /\ C[i].seq = 0 => Len(C) = 1
                  /\ C[i].top <= LatestSeq
                  /\ a = cid /\ ls # Null /\ C[i].seq # 0 => ls < C[i].seq
             /\ \A i, j \in 1 .. Len(C) : i < j => C[i].top < C[j].seq
             /\ C = <<>> \/ C[1].seq # 0 => a = cid /\ ls # Null
<1> DEFINE C == CatchUp(ls, a)
           claim == IF a = cid THEN ls ELSE Null
           delta == Since(hist, claim)
           snapshot == Frame(0, FullSnapshot(hist), LatestSeq)
           chunk(i) == Frame(delta[i].seq, delta[i].data, delta[i].seq)
<1>0. /\ hist \in Seq(Entry) /\ next \in Nat \ {0} /\ Len(hist) \in Nat
      /\ \A i \in 1 .. Len(hist) :
           /\ hist[i] \in Entry
           /\ hist[i].seq \in Nat \ {0}
           /\ hist[i].data \in SUBSET (1 .. MaxOut)
  <2>1. hist \in Seq(Entry) /\ next \in Nat \ {0}
    BY DEF TypeOK, ClientTypeOK
  <2>2. Len(hist) \in Nat /\ \A i \in 1 .. Len(hist) : hist[i] \in Entry
    BY <2>1, LenProperties, ElementOfSeq
  <2> QED
    BY <2>1, <2>2 DEF Entry
<1>1. CASE claim # Null /\ claim >= LatestSeq
  <2>1. C = <<>> /\ a = cid /\ ls # Null
    BY <1>1 DEF CatchUp
  <2> QED
    BY <2>1, EmptySeq
<1>2. CASE /\ ~ (claim # Null /\ claim >= LatestSeq)
           /\ claim # Null /\ hist # <<>> /\ claim >= hist[1].seq - 1
  <2>1. a = cid /\ ls # Null /\ claim = ls /\ ls \in Nat
    BY <1>2
  <2>2. C = [i \in 1 .. Len(delta) |-> chunk(i)]
    BY <1>2 DEF CatchUp
  <2>3. PICK k \in 1 .. (Len(hist) + 1) :
          delta = SuffixFrom(hist, k) /\ \A i \in k .. Len(hist) : hist[i].seq > ls
    BY <1>0, <2>1, SinceShape
  <2>4. /\ delta \in Seq(Entry) /\ Len(delta) = Len(hist) - k + 1 /\ Len(delta) \in Nat
        /\ \A i \in 1 .. Len(delta) : delta[i] = hist[k + i - 1]
    BY <1>0, <2>3, SuffixProperties
  <2>5. \A i \in 1 .. Len(delta) :
          /\ delta[i] \in Entry
          /\ delta[i].seq \in Nat \ {0}
          /\ delta[i].data \in SUBSET (1 .. MaxOut)
          /\ delta[i].seq > ls
          /\ delta[i].seq = next - 1 - Len(hist) + k + i - 1
    <3>1. TAKE i \in 1 .. Len(delta)
    <3>2. k + i - 1 \in k .. Len(hist) /\ k + i - 1 \in 1 .. Len(hist)
      BY <1>0, <2>3, <2>4, <3>1
    <3>3. delta[i] = hist[k + i - 1]
      BY <2>4, <3>1
    <3> HIDE DEF delta
    <3>4. i \in Int /\ k \in Int
      BY <2>3, <2>4, <3>1
    <3>5. hist[k + i - 1].seq = next - 1 - Len(hist) + (k + i - 1)
      BY <3>2 DEF HistorySeqs, HistoryWindow
    <3>6. hist[k + i - 1].seq = next - 1 - Len(hist) + k + i - 1
      BY <1>0, <3>4, <3>5
    <3> QED
      BY <1>0, <2>3, <3>2, <3>3, <3>6
  <2> HIDE DEF delta
  <2>6. \A i \in 1 .. Len(delta) :
          /\ chunk(i) \in Frames /\ chunk(i).kind = "chunk"
          /\ chunk(i).seq = delta[i].seq /\ chunk(i).top = delta[i].seq
    BY <2>5 DEF Frame, Frames
  <2> HIDE DEF chunk
  <2>7. C \in Seq(Frames) /\ Len(C) = Len(delta)
        /\ \A i \in 1 .. Len(C) : C[i] = chunk(i)
    <3> HIDE DEF C
    <3> QED
      BY <2>2, <2>4, <2>6
  <2> HIDE DEF C
  <2>8. \A i \in 1 .. Len(C) :
          /\ C[i].kind = "chunk" /\ C[i].seq = delta[i].seq /\ C[i].top = delta[i].seq
    BY <2>6, <2>7
  <2>9. \A i \in 1 .. Len(C) :
          /\ C[i].seq > ls /\ C[i].seq # 0 /\ C[i].top = C[i].seq /\ C[i].top <= LatestSeq
          /\ \A j \in 1 .. Len(C) : i < j => C[i].seq < C[j].seq
    <3>1. TAKE i \in 1 .. Len(C)
    <3>2. /\ C[i].seq > ls /\ C[i].seq \in Nat \ {0} /\ C[i].top = C[i].seq
          /\ C[i].seq = next - 1 - Len(hist) + k + i - 1
      BY <2>5, <2>7, <2>8, <3>1
    <3>3. C[i].top <= LatestSeq
      <4>1. i <= Len(hist) - k + 1
        BY <2>4, <2>7, <3>1
      <4>2. C[i].top = next - 1 - Len(hist) + k + i - 1
        BY <3>2
      <4> QED
        BY <1>0, <2>3, <2>4, <2>7, <3>1, <4>1, <4>2 DEF LatestSeq
    <3>4. ASSUME NEW j \in 1 .. Len(C), i < j
          PROVE  C[i].seq < C[j].seq
      <4>1. C[j].seq = next - 1 - Len(hist) + k + j - 1
        BY <2>5, <2>7, <2>8
      <4> QED
        BY <1>0, <2>3, <2>4, <2>7, <3>1, <3>2, <3>4, <4>1
    <3> QED
      BY <3>2, <3>3, <3>4
  <2>10. \A i \in 1 .. Len(C) : ChunkFrame(C[i])
    BY <2>8, <2>9 DEF ChunkFrame
  <2> QED
    BY <2>1, <2>7, <2>9, <2>10 DEF C
<1>3. CASE /\ ~ (claim # Null /\ claim >= LatestSeq)
           /\ ~ (claim # Null /\ hist # <<>> /\ claim >= hist[1].seq - 1)
  <2>1. C = <<snapshot>>
    BY <1>3 DEF CatchUp
  <2>2. FullSnapshot(hist) \in SUBSET (1 .. MaxOut)
    BY <1>0 DEF FullSnapshot
  <2>3. /\ snapshot \in Frames /\ snapshot.seq = 0 /\ snapshot.kind = "chunk"
        /\ snapshot.top = LatestSeq /\ LatestSeq \in Nat
    BY <1>0, <2>2 DEF Frame, Frames, LatestSeq
  <2> HIDE DEF snapshot
  <2>4. Len(C) = 1 /\ C[1] = snapshot /\ C \in Seq(Frames) /\ C # <<>>
    BY <2>1, <2>3
  <2>5. ChunkFrame(snapshot)
    BY <2>3 DEF ChunkFrame
  <2> HIDE DEF C
  <2> QED
    BY <2>3, <2>4, <2>5 DEF C
<1> QED
  BY <1>1, <1>2, <1>3
-----------------------------------------------------------------------------
(* The type invariant and the history *)

\* What History::append makes of a consecutive history.
LEMMA HistAppendWindow ==
  ASSUME NEW h \in Seq(Entry), NEW s \in Nat \ {0}, NEW d \in SUBSET (1 .. MaxOut),
         \A i \in 1 .. Len(h) : h[i].seq = s - 1 - Len(h) + i,
         Len(h) <= s - 1
  PROVE  LET new == HistAppend(h, s, d)
         IN  /\ \A i \in 1 .. Len(new) : new[i].seq = s - Len(new) + i
             /\ Len(new) <= s
             /\ new # <<>>
<1> DEFINE e == [seq |-> s, data |-> d]
           t == Append(h, e)
           new == HistAppend(h, s, d)
<1>1. e \in Entry /\ e.seq = s
  BY DEF Entry
<1>2. /\ t \in Seq(Entry) /\ Len(h) \in Nat /\ Len(t) = Len(h) + 1
      /\ \A i \in 1 .. Len(h) : t[i] = h[i]
      /\ t[Len(h) + 1] = e
  BY <1>1, AppendProperties, LenProperties
<1>3. \A i \in 1 .. Len(t) : t[i].seq = s - Len(t) + i
  <2> HIDE DEF t
  <2>1. TAKE i \in 1 .. Len(t)
  <2>2. CASE i \in 1 .. Len(h)
    BY <1>2, <2>2
  <2>3. CASE i = Len(h) + 1
    BY <1>1, <1>2, <2>3
  <2> QED
    BY <1>2, <2>1, <2>2, <2>3
<1>4. PICK k \in 1 .. (Len(h) + 1) : new = SuffixFrom(t, k)
  BY HistAppendShape
<1>5. /\ Len(new) = Len(t) - k + 1
      /\ \A i \in 1 .. (Len(t) - k + 1) : new[i] = t[k + i - 1]
  <2>1. k \in 1 .. (Len(t) + 1)
    BY <1>2
  <2> HIDE DEF t, new
  <2> QED
    BY <1>2, <1>4, <2>1, SuffixProperties
<1> HIDE DEF e, t, new
<1>6. \A i \in 1 .. Len(new) : new[i].seq = s - Len(new) + i
  <2>1. TAKE i \in 1 .. Len(new)
  <2>2. k + i - 1 \in 1 .. Len(t) /\ new[i] = t[k + i - 1]
    BY <1>2, <1>4, <1>5
  <2>3. new[i].seq = s - Len(t) + (k + i - 1)
    BY <1>3, <2>2
  <2> QED
    BY <1>2, <1>4, <1>5, <2>3
<1>7. Len(new) <= s /\ Len(new) >= 1
  BY <1>2, <1>4, <1>5
<1>8. new # <<>>
  BY <1>7, EmptySeq
<1> QED
  BY <1>6, <1>7, <1>8 DEF new

\* A painted frame keeps the page's variables well typed.
LEMMA PaintType ==
  ASSUME TypeOK, NEW b \in Browsers, NEW f \in Frames, Paint(b, f)
  PROVE  /\ lastSeq' \in [Browsers -> Nat \cup {Null}]
         /\ aid' \in [Browsers -> Nat]
         /\ view' \in [Browsers -> Seq(Frames)]
<1>1. f.seq \in Nat /\ f.id \in Nat
  BY DEF Frames
<1>2. view[b] \in Seq(Frames)
  BY DEF TypeOK, PageTypeOK
<1>3. <<f>> \in Seq(Frames) /\ Append(view[b], f) \in Seq(Frames)
  BY <1>2, AppendProperties
<1> QED
  BY <1>1, <1>3 DEF Paint, TypeOK, PageTypeOK

\* The next frame of a connection is a frame, and so is the rest.
LEMMA QueueType ==
  ASSUME NEW q \in [Browsers -> Seq(Frames)], NEW b \in Browsers, q[b] # <<>>
  PROVE  /\ Head(q[b]) \in Frames
         /\ [q EXCEPT ![b] = Tail(@)] \in [Browsers -> Seq(Frames)]
<1>1. q[b] \in Seq(Frames)
  OBVIOUS
<1>2. Head(q[b]) \in Frames /\ Tail(q[b]) \in Seq(Frames)
  BY <1>1, HeadTailProperties
<1> QED
  BY <1>2

\* What an action leaves alone stays well typed.
LEMMA UnchangedTypes ==
  ASSUME TypeOK
  PROVE  /\ UNCHANGED daemonVars => DaemonTypeOK'
         /\ UNCHANGED clientVars => ClientTypeOK'
         /\ UNCHANGED wsVars => WsTypeOK'
         /\ UNCHANGED pageVars => PageTypeOK'
         /\ UNCHANGED faultVars => FaultTypeOK'
<1>1. UNCHANGED daemonVars => DaemonTypeOK'
  BY DEF TypeOK, daemonVars, DaemonTypeOK
<1>2. UNCHANGED clientVars => ClientTypeOK'
  <2> SUFFICES ASSUME UNCHANGED clientVars PROVE ClientTypeOK'
    OBVIOUS
  <2>1. alive' = alive
    BY DEF clientVars
  <2>2. alive' \in BOOLEAN
    BY <2>1, Zenon DEF TypeOK, ClientTypeOK
  <2>3. cid' = cid /\ epochs' = epochs /\ hist' = hist /\ next' = next
    BY DEF clientVars
  <2> QED
    BY <2>2, <2>3, Zenon DEF TypeOK, ClientTypeOK
<1>3. UNCHANGED wsVars => WsTypeOK'
  BY DEF TypeOK, wsVars, WsTypeOK
<1>4. UNCHANGED pageVars => PageTypeOK'
  BY DEF TypeOK, pageVars, PageTypeOK
<1>5. UNCHANGED faultVars => FaultTypeOK'
  BY DEF TypeOK, faultVars, FaultTypeOK
<1> QED
  BY <1>1, <1>2, <1>3, <1>4, <1>5

LEMMA InitTypeOK == Init => TypeOK /\ HistorySeqs
<1> SUFFICES ASSUME Init PROVE TypeOK /\ HistorySeqs
  OBVIOUS
<1>1. DaemonTypeOK
  BY DaemonAssumption DEF Init, DaemonInit, DaemonTypeOK, DaemonAssumption
<1>2. ClientTypeOK
  <2>1. cid \in Nat /\ epochs \in Nat /\ hist \in Seq(Entry) /\ next \in Nat \ {0}
    BY EmptySeq DEF Init
  <2>2. alive \in BOOLEAN
    BY Zenon DEF Init
  <2> QED
    BY <2>1, <2>2, Zenon DEF ClientTypeOK
<1>3. WsTypeOK
  BY EmptySeq DEF Init, WsTypeOK
<1>4. PageTypeOK
  BY EmptySeq DEF Init, PageTypeOK
<1>5. FaultTypeOK
  <2>1. /\ restarts \in 0 .. MaxRestarts /\ drops \in 0 .. MaxDrops
        /\ remounts \in 0 .. MaxRemounts
    BY ServerAssumption DEF Init, ServerAssumption
  <2>2. overrun \in BOOLEAN
    BY Zenon DEF Init
  <2> QED
    BY <2>1, <2>2, Zenon DEF FaultTypeOK
<1>6. resumer \in Browsers \cup {Nobody}
  BY DEF Init
<1>7. HistoryWindow /\ Len(hist) <= next - 1
  BY DEF Init, HistoryWindow, WithinBudget
<1> QED
  BY <1>1, <1>2, <1>3, <1>4, <1>5, <1>6, <1>7 DEF TypeOK, HistorySeqs

\* The daemon's own steps keep its variables well typed.
LEMMA DaemonStepType == TypeOK /\ DaemonStep => TypeOK'
<1> SUFFICES ASSUME TypeOK, DaemonStep PROVE TypeOK'
  OBVIOUS
<1>1. DaemonTypeOK'
  BY DaemonTypeStep DEF TypeOK, DaemonStep
<1>2. /\ UNCHANGED clientVars /\ UNCHANGED resumer /\ UNCHANGED wsVars
      /\ UNCHANGED pageVars /\ UNCHANGED faultVars
  BY DEF DaemonStep, serverVars
<1> QED
  BY <1>1, <1>2, UnchangedTypes DEF TypeOK

\* The manager's steps keep their variables well typed.
LEMMA ResumeType ==
  TypeOK /\ (\E who \in Browsers \cup {Nobody} : Resume(who)) => TypeOK'
<1> SUFFICES ASSUME TypeOK, NEW who \in Browsers \cup {Nobody}, Resume(who) PROVE TypeOK'
  OBVIOUS
<1>1. DaemonTypeOK'
  <2>1. spawns' \in 0 .. MaxSpawns
    BY DaemonAssumption DEF Resume, Accept, TypeOK, DaemonTypeOK, DaemonAssumption
  <2>2. dstate' \in {"down", "up", "exiting"} /\ conn' \in {"none", "subscribed", "live"}
    BY DEF Resume, Accept, TypeOK, DaemonTypeOK
  <2> QED
    BY <2>1, <2>2, EmptySeq DEF Resume, Accept, TypeOK, DaemonTypeOK
<1>2. /\ UNCHANGED clientVars /\ UNCHANGED wsVars
      /\ UNCHANGED pageVars /\ UNCHANGED faultVars /\ resumer' = who
  BY DEF Resume
<1> QED
  BY <1>1, <1>2, UnchangedTypes DEF TypeOK

\* What the daemon replays are chunks.
LEMMA ReplayChunks == TypeOK => Replay \in SUBSET (1 .. MaxOut)
<1> SUFFICES ASSUME TypeOK PROVE Replay \in SUBSET (1 .. MaxOut)
  OBVIOUS
<1>1. ring \in Seq(1 .. MaxOut)
  BY DEF TypeOK, DaemonTypeOK
<1>2. \A i \in 1 .. Len(ring) : ring[i] \in 1 .. MaxOut
  BY <1>1, ElementOfSeq
<1> QED
  BY <1>2 DEF Replay

LEMMA ConnectedType == TypeOK /\ Connected => TypeOK'
<1> SUFFICES ASSUME TypeOK, Connected PROVE TypeOK'
  OBVIOUS
<1>1. DaemonTypeOK'
  BY DEF Connected, TypeOK, DaemonTypeOK
<1>2. ClientTypeOK'
  <2>1. Replay \in SUBSET (1 .. MaxOut)
    BY ReplayChunks
  <2>2. <<>> \in Seq(Entry) /\ 1 \in Nat \ {0}
    OBVIOUS
  <2>3. HistAppend(<<>>, 1, Replay) \in Seq(Entry)
    BY <2>1, <2>2, HistAppendShape
  <2>6. hist' \in Seq(Entry) /\ next' \in Nat \ {0}
    <3>1. \/ hist' = <<>> /\ next' = 1
          \/ hist' = HistAppend(<<>>, 1, Replay) /\ next' = 2
      BY DEF Connected
    <3>2. hist' \in Seq(Entry)
      BY <2>2, <2>3, <3>1, Zenon
    <3>3. next' \in Nat \ {0}
      BY <3>1
    <3> QED
      BY <3>2, <3>3
  <2>4. cid' \in Nat /\ epochs' \in Nat
    BY DEF Connected, TypeOK, ClientTypeOK
  <2>5. alive' \in BOOLEAN
    BY Zenon DEF Connected
  <2> QED
    BY <2>4, <2>5, <2>6, Zenon DEF ClientTypeOK
<1>3. WsTypeOK'
  BY DEF Connected, TypeOK, WsTypeOK
<1>4. resumer' \in Browsers \cup {Nobody}
  BY DEF Connected
<1>5. UNCHANGED pageVars
  BY DEF Connected
<1>6. FaultTypeOK'
  <2>1. /\ restarts' \in 0 .. MaxRestarts /\ drops' \in 0 .. MaxDrops
        /\ remounts' \in 0 .. MaxRemounts
    BY DEF Connected, TypeOK, FaultTypeOK
  <2>2. overrun' \in BOOLEAN
    BY Zenon DEF Connected
  <2> QED
    BY <2>1, <2>2, Zenon DEF FaultTypeOK
<1> QED
  BY <1>1, <1>2, <1>3, <1>4, <1>5, <1>6, UnchangedTypes DEF TypeOK

LEMMA ResumeFailedType == TypeOK /\ ResumeFailed => TypeOK'
<1> SUFFICES ASSUME TypeOK, ResumeFailed PROVE TypeOK'
  OBVIOUS
<1>1. DaemonTypeOK'
  BY DEF ResumeFailed, TypeOK, DaemonTypeOK
<1>2. WsTypeOK'
  BY DEF ResumeFailed, TypeOK, WsTypeOK
<1>3. resumer' \in Browsers \cup {Nobody} /\ UNCHANGED clientVars
      /\ UNCHANGED pageVars /\ UNCHANGED faultVars
  BY DEF ResumeFailed
<1> QED
  BY <1>1, <1>2, <1>3, UnchangedTypes DEF TypeOK

\* The reader task's steps keep their variables well typed.
LEMMA ReadStdoutType == TypeOK /\ ReadStdout => TypeOK'
<1> SUFFICES ASSUME TypeOK, ReadStdout PROVE TypeOK'
  OBVIOUS
<1> DEFINE c == Head(dq)
           f == Frame(next, {c}, next)
           listening(b) == bst[b] = "open" /\ ep[b] = cid
<1>1. /\ dq \in Seq(0 .. MaxOut) /\ next \in Nat \ {0} /\ hist \in Seq(Entry)
      /\ MaxOut \in Nat /\ WsCap \in Nat \ {0}
      /\ rx \in [Browsers -> Seq(Frames)]
      /\ lost \in [Browsers -> SUBSET (1 .. MaxOut)]
  BY DaemonAssumption, ServerAssumption
     DEF TypeOK, DaemonTypeOK, ClientTypeOK, WsTypeOK, DaemonAssumption, ServerAssumption
<1>2. /\ dq # <<>> /\ c # 0 /\ dq' = Tail(dq)
      /\ hist' = HistAppend(hist, next, {c}) /\ next' = next + 1
      /\ rx' = [b \in Browsers |-> IF listening(b) THEN Push(rx[b], f, WsCap) ELSE rx[b]]
      /\ lost' = [b \in Browsers |->
                    IF listening(b)
                    THEN lost[b] \cup UNION {g.data : g \in Skipped(rx[b], WsCap)}
                    ELSE lost[b]]
      /\ UNCHANGED <<out, ring, unsent, dstate, conn, dlost, spawns>>
      /\ UNCHANGED <<cid, epochs>> /\ UNCHANGED resumer /\ UNCHANGED <<bst, ep, prime>>
      /\ UNCHANGED pageVars /\ UNCHANGED faultVars
  BY DEF ReadStdout, Exit
<1>3. c \in 1 .. MaxOut /\ dq' \in Seq(0 .. MaxOut)
  BY <1>1, <1>2, HeadTailProperties
<1>4. f \in Frames /\ {c} \in SUBSET (1 .. MaxOut)
  BY <1>1, <1>3 DEF Frame, Frames
<1> HIDE DEF c, f
<1>5. DaemonTypeOK'
  BY <1>2, <1>3 DEF TypeOK, DaemonTypeOK
<1>6. ClientTypeOK'
  <2>1. hist' \in Seq(Entry) /\ next' \in Nat \ {0}
    <3>1. HistAppend(hist, next, {c}) \in Seq(Entry)
      BY <1>1, <1>4, HistAppendShape
    <3>2. hist' \in Seq(Entry)
      BY <1>2, <3>1, Zenon
    <3>3. next' \in Nat \ {0}
      BY <1>1, <1>2
    <3> QED
      BY <3>2, <3>3
  <2>2. cid' \in Nat /\ epochs' \in Nat
    BY <1>2 DEF TypeOK, ClientTypeOK
  <2>3. alive' = alive
    BY DEF ReadStdout
  <2>4. alive' \in BOOLEAN
    BY <2>3, Zenon DEF TypeOK, ClientTypeOK
  <2> QED
    BY <2>1, <2>2, <2>4, Zenon DEF ClientTypeOK
<1>7. WsTypeOK'
  <2>1. \A b \in Browsers : /\ Push(rx[b], f, WsCap) \in Seq(Frames)
                            /\ Skipped(rx[b], WsCap) \in SUBSET Frames
    BY <1>1, <1>4, PushType
  <2>2. \A g \in Frames : g.data \in SUBSET (1 .. MaxOut)
    BY DEF Frames
  <2>3. rx' \in [Browsers -> Seq(Frames)]
    BY <1>1, <1>2, <2>1
  <2>4. \A b \in Browsers : UNION {g.data : g \in Skipped(rx[b], WsCap)} \in SUBSET (1 .. MaxOut)
    BY <2>1, <2>2
  <2>5. lost' \in [Browsers -> SUBSET (1 .. MaxOut)]
    BY <1>1, <1>2, <2>4
  <2> QED
    BY <1>2, <2>3, <2>5 DEF TypeOK, WsTypeOK
<1> QED
  BY <1>2, <1>5, <1>6, <1>7, UnchangedTypes DEF TypeOK

LEMMA ReadEndType == TypeOK /\ (ReadExit \/ ReadEof) => TypeOK'
<1> SUFFICES ASSUME TypeOK, ReadExit \/ ReadEof PROVE TypeOK'
  OBVIOUS
<1>1. DaemonTypeOK'
  <2>1. /\ conn' \in {"none", "subscribed", "live"} /\ dq' \in Seq(0 .. MaxOut)
        /\ UNCHANGED <<out, ring, unsent, dstate, dlost, spawns>>
    BY EmptySeq DEF ReadExit, ReadEof, daemonVars, TypeOK, DaemonTypeOK
  <2> QED
    BY <2>1 DEF TypeOK, DaemonTypeOK
<1>2. ClientTypeOK'
  <2>1. alive' = FALSE /\ UNCHANGED <<cid, epochs, hist, next>>
    BY DEF ReadExit, ReadEof
  <2>2. alive' \in BOOLEAN
    BY <2>1, Zenon
  <2> QED
    BY <2>1, <2>2, Zenon DEF TypeOK, ClientTypeOK
<1>3. /\ UNCHANGED resumer /\ UNCHANGED wsVars
      /\ UNCHANGED pageVars /\ UNCHANGED faultVars
  BY DEF ReadExit, ReadEof
<1> QED
  BY <1>1, <1>2, <1>3, UnchangedTypes DEF TypeOK

LEMMA RestartType == TypeOK /\ Restart => TypeOK'
<1> SUFFICES ASSUME TypeOK, Restart PROVE TypeOK'
  OBVIOUS
<1>1. DaemonTypeOK'
  BY EmptySeq DEF Restart, TypeOK, DaemonTypeOK
<1>2. ClientTypeOK'
  <2>1. cid' = 0 /\ epochs' = epochs /\ hist' = <<>> /\ next' = 1 /\ alive' = FALSE
    BY DEF Restart
  <2>2. alive' \in BOOLEAN
    BY <2>1, Zenon
  <2>3. cid' \in Nat /\ epochs' \in Nat /\ hist' \in Seq(Entry) /\ next' \in Nat \ {0}
    BY <2>1, EmptySeq DEF TypeOK, ClientTypeOK
  <2> QED
    BY <2>2, <2>3, Zenon DEF ClientTypeOK
<1>3. WsTypeOK'
  BY EmptySeq DEF Restart, TypeOK, WsTypeOK
<1>4. FaultTypeOK'
  BY ServerAssumption DEF Restart, TypeOK, FaultTypeOK, ServerAssumption
<1>5. resumer' = Nobody /\ UNCHANGED pageVars
  BY DEF Restart
<1> QED
  BY <1>1, <1>2, <1>3, <1>4, <1>5, UnchangedTypes DEF TypeOK

\* The WebSocket handler's and the page's steps keep their variables well typed.
LEMMA AttachType ==
  TypeOK /\ HistorySeqs /\ (\E b \in Browsers : Upgrade(b) \/ Attach(b)) => TypeOK'
<1> SUFFICES ASSUME TypeOK, HistorySeqs, NEW b \in Browsers, Upgrade(b) \/ Attach(b)
             PROVE  TypeOK'
  OBVIOUS
<1>1. ASSUME Upgrade(b) PROVE WsTypeOK'
  BY <1>1 DEF Upgrade, TypeOK, WsTypeOK
<1>2. ASSUME Attach(b) PROVE WsTypeOK'
  <2> DEFINE C == CatchUp(lastSeq[b], aid[b])
             h == HelloFrame(LatestSeq, cid)
  <2>1. lastSeq[b] \in Nat \cup {Null}
    BY DEF TypeOK, PageTypeOK
  <2>2. C \in Seq(Frames)
    BY <2>1, CatchUpShape
  <2>3. LatestSeq \in Nat /\ cid \in Nat
    BY DEF TypeOK, ClientTypeOK, LatestSeq
  <2>4. h \in Frames
    BY <2>3 DEF HelloFrame, Frames
  <2>5. Append(C, h) \in Seq(Frames)
    BY <2>2, <2>4, AppendProperties
  <2>6. /\ bst' = [bst EXCEPT ![b] = "open"] /\ ep' = [ep EXCEPT ![b] = cid]
        /\ prime' = [prime EXCEPT ![b] = Append(C, h)] /\ rx' = [rx EXCEPT ![b] = <<>>]
        /\ lost' = lost
    BY <1>2 DEF Attach
  <2> HIDE DEF C, h
  <2> QED
    BY <2>3, <2>5, <2>6, EmptySeq DEF TypeOK, WsTypeOK
<1>3. /\ UNCHANGED daemonVars /\ UNCHANGED clientVars /\ UNCHANGED resumer
      /\ UNCHANGED pageVars /\ UNCHANGED faultVars
  BY DEF Upgrade, Attach
<1> QED
  BY <1>1, <1>2, <1>3, UnchangedTypes DEF TypeOK

LEMMA ReceiveType == TypeOK /\ (\E b \in Browsers : Receive(b)) => TypeOK'
<1> SUFFICES ASSUME TypeOK, NEW b \in Browsers, Receive(b) PROVE TypeOK'
  OBVIOUS
<1>1. prime \in [Browsers -> Seq(Frames)] /\ rx \in [Browsers -> Seq(Frames)]
  BY DEF TypeOK, WsTypeOK
<1>2. PageTypeOK' /\ prime' \in [Browsers -> Seq(Frames)] /\ rx' \in [Browsers -> Seq(Frames)]
  <2>1. ASSUME prime[b] # <<>>, Paint(b, Head(prime[b])),
               prime' = [prime EXCEPT ![b] = Tail(@)], rx' = rx
        PROVE  PageTypeOK' /\ prime' \in [Browsers -> Seq(Frames)] /\ rx' \in [Browsers -> Seq(Frames)]
    BY <1>1, <2>1, QueueType, PaintType DEF PageTypeOK
  <2>2. ASSUME rx[b] # <<>>, Paint(b, Head(rx[b])),
               rx' = [rx EXCEPT ![b] = Tail(@)], prime' = prime
        PROVE  PageTypeOK' /\ prime' \in [Browsers -> Seq(Frames)] /\ rx' \in [Browsers -> Seq(Frames)]
    BY <1>1, <2>2, QueueType, PaintType DEF PageTypeOK
  <2> QED
    BY <2>1, <2>2 DEF Receive
<1>3. /\ UNCHANGED daemonVars /\ UNCHANGED clientVars /\ UNCHANGED resumer
      /\ UNCHANGED <<bst, ep, lost>> /\ UNCHANGED faultVars
  BY DEF Receive
<1>4. WsTypeOK'
  BY <1>2, <1>3 DEF TypeOK, WsTypeOK
<1> QED
  BY <1>2, <1>3, <1>4, UnchangedTypes DEF TypeOK

LEMMA DropType == TypeOK /\ (\E b \in Browsers : Drop(b) \/ Remount(b)) => TypeOK'
<1> SUFFICES ASSUME TypeOK, NEW b \in Browsers, Drop(b) \/ Remount(b) PROVE TypeOK'
  OBVIOUS
<1>1. WsTypeOK'
  <2>1. Disconnect(b) /\ lost' = lost
    BY DEF Drop, Remount
  <2> QED
    BY <2>1, EmptySeq DEF Disconnect, TypeOK, WsTypeOK
<1>2. PageTypeOK'
  BY EmptySeq DEF Drop, Remount, TypeOK, PageTypeOK, pageVars
<1>3. FaultTypeOK'
  BY ServerAssumption DEF Drop, Remount, TypeOK, FaultTypeOK, ServerAssumption
<1>4. UNCHANGED daemonVars /\ UNCHANGED clientVars /\ UNCHANGED resumer
  BY DEF Drop, Remount
<1> QED
  BY <1>1, <1>2, <1>3, <1>4, UnchangedTypes DEF TypeOK

\* The history's window: only Connected, ReadStdout and Restart touch it.
LEMMA HistoryStep == TypeOK /\ HistorySeqs /\ [Next]_vars => HistorySeqs'
<1> SUFFICES ASSUME TypeOK, HistorySeqs, [Next]_vars PROVE HistorySeqs'
  OBVIOUS
<1>0. hist \in Seq(Entry) /\ next \in Nat \ {0}
  BY DEF TypeOK, ClientTypeOK
<1>1. ASSUME UNCHANGED <<hist, next>> PROVE HistorySeqs'
  BY <1>1 DEF HistorySeqs, HistoryWindow
<1>2. ASSUME hist' = <<>>, next' = 1 PROVE HistorySeqs'
  BY <1>2 DEF HistorySeqs, HistoryWindow, WithinBudget
<1>3. ASSUME NEW h \in Seq(Entry), NEW s \in Nat \ {0}, NEW d \in SUBSET (1 .. MaxOut),
             \A i \in 1 .. Len(h) : h[i].seq = s - 1 - Len(h) + i, Len(h) <= s - 1,
             hist' = HistAppend(h, s, d), next' = s + 1
      PROVE  HistorySeqs'
  <2>1. /\ \A i \in 1 .. Len(hist') : hist'[i].seq = s - Len(hist') + i
        /\ Len(hist') <= s /\ hist' # <<>>
    BY <1>3, HistAppendWindow, Zenon
  <2>2. WithinBudget([i \in 1 .. Len(hist') |-> Cardinality(hist'[i].data)], HistMax)
    BY <1>3, HistAppendShape, Zenon
  <2>3. hist' \in Seq(Entry)
    BY <1>3, HistAppendShape, Zenon
  <2>4. Len(hist') \in Nat
    BY <2>3, LenProperties
  <2>5. next' - 1 = s
    BY <1>3
  <2>6. \A i \in 1 .. Len(hist') : hist'[i].seq = next' - 1 - Len(hist') + i
    BY <2>1, <2>5
  <2> QED
    BY <2>1, <2>2, <2>5, <2>6 DEF HistorySeqs, HistoryWindow
<1>4. CASE Connected
  <2>1. Replay \in SUBSET (1 .. MaxOut)
    BY <1>4, ReplayChunks
  <2>2. CASE ring = <<>>
    BY <1>2, <1>4, <2>2 DEF Connected
  <2>3. CASE ring # <<>>
    <3>1. hist' = HistAppend(<<>>, 1, Replay) /\ next' = 1 + 1
      BY <1>4, <2>3 DEF Connected
    <3>2. /\ <<>> \in Seq(Entry) /\ 1 \in Nat \ {0} /\ Len(<<>>) <= 1 - 1
          /\ \A i \in 1 .. Len(<<>>) : <<>>[i].seq = 1 - 1 - Len(<<>>) + i
      OBVIOUS
    <3> QED
      BY <1>3, <2>1, <3>1, <3>2
  <2> QED
    BY <2>2, <2>3
<1>5. CASE ReadStdout
  <2>1. Head(dq) \in 1 .. MaxOut
    <3>1. dq \in Seq(0 .. MaxOut) /\ MaxOut \in Nat
      BY DaemonAssumption DEF TypeOK, DaemonTypeOK, DaemonAssumption
    <3>2. dq # <<>> /\ Head(dq) # 0
      BY <1>5 DEF ReadStdout, Exit
    <3> QED
      BY <3>1, <3>2, HeadTailProperties
  <2>2. {Head(dq)} \in SUBSET (1 .. MaxOut)
    BY <2>1
  <2>3. hist' = HistAppend(hist, next, {Head(dq)}) /\ next' = next + 1
    BY <1>5 DEF ReadStdout
  <2>4. Len(hist) <= next - 1 /\ \A i \in 1 .. Len(hist) : hist[i].seq = next - 1 - Len(hist) + i
    BY DEF HistorySeqs, HistoryWindow
  <2> QED
    BY <1>0, <1>3, <2>2, <2>3, <2>4
<1>6. CASE Restart
  BY <1>2, <1>6 DEF Restart
<1>7. CASE DaemonStep
  BY <1>1, <1>7 DEF DaemonStep, serverVars, clientVars
<1>8. CASE \E who \in Browsers \cup {Nobody} : Resume(who)
  BY <1>1, <1>8 DEF Resume, clientVars
<1>9. CASE ResumeFailed \/ ReadExit \/ ReadEof
  BY <1>1, <1>9 DEF ResumeFailed, ReadExit, ReadEof, clientVars
<1>10. CASE \E b \in Browsers : Upgrade(b) \/ Attach(b) \/ Receive(b)
  BY <1>1, <1>10 DEF Upgrade, Attach, Receive, clientVars
<1>11. CASE \E b \in Browsers : Drop(b) \/ Remount(b)
  BY <1>1, <1>11 DEF Drop, Remount, clientVars
<1>12. CASE UNCHANGED vars
  BY <1>1, <1>12 DEF vars, serverVars, clientVars
<1> QED
  BY <1>4, <1>5, <1>6, <1>7, <1>8, <1>9, <1>10, <1>11, <1>12 DEF Next

\* TypeOK is inductive together with the history's window, which attach()
\* needs to find the place of a cursor.
LEMMA TypeStep == TypeOK /\ HistorySeqs /\ [Next]_vars => TypeOK'
<1> SUFFICES ASSUME TypeOK, HistorySeqs, [Next]_vars PROVE TypeOK'
  OBVIOUS
<1>1. CASE UNCHANGED vars
  BY <1>1, UnchangedTypes DEF TypeOK, vars, serverVars
<1>2. CASE \E b \in Browsers : Upgrade(b) \/ Attach(b) \/ Receive(b)
  BY <1>2, AttachType, ReceiveType
<1> QED
  BY <1>1, <1>2, DaemonStepType, ResumeType, ConnectedType, ResumeFailedType,
     ReadStdoutType, ReadEndType, RestartType, DropType DEF Next

\* Every variable stays in its type.
THEOREM TypeCorrect == Spec => []TypeOK
<1>1. Init => TypeOK /\ HistorySeqs
  BY InitTypeOK
<1>2. TypeOK /\ HistorySeqs /\ [Next]_vars => (TypeOK /\ HistorySeqs)'
  BY TypeStep, HistoryStep
<1> QED
  BY <1>1, <1>2, PTL DEF Spec

\* The server's history is always a gapless window of seqs that ends just
\* below next_seq and keeps its byte budget (History::append, connect's seed).
THEOREM HistoryCorrect == Spec => []HistoryWindow
<1>1. Init => TypeOK /\ HistorySeqs
  BY InitTypeOK
<1>2. TypeOK /\ HistorySeqs /\ [Next]_vars => (TypeOK /\ HistorySeqs)'
  BY TypeStep, HistoryStep
<1>3. HistorySeqs => HistoryWindow
  BY DEF HistorySeqs
<1> QED
  BY <1>1, <1>2, <1>3, PTL DEF Spec
-----------------------------------------------------------------------------
(* The order of what is painted *)

Streams(b) == PrimeInOrder(b) /\ LiveInOrder(b) /\ ScreenInOrder(b)

\* The numbers of a frame.
LEMMA FrameFields ==
  ASSUME NEW q \in Seq(Frames), NEW i \in 1 .. Len(q)
  PROVE  /\ q[i] \in Frames
         /\ q[i].seq \in Nat /\ q[i].top \in Nat /\ q[i].id \in Nat
         /\ q[i].kind \in {"chunk", "hello"}
<1>1. q[i] \in Frames
  BY ElementOfSeq
<1> QED
  BY <1>1 DEF Frames

\* The queues of a browser, their lengths and their frames.
LEMMA BrowserTypes ==
  ASSUME TypeOK, NEW b \in Browsers
  PROVE  /\ prime[b] \in Seq(Frames) /\ rx[b] \in Seq(Frames) /\ view[b] \in Seq(Frames)
         /\ Len(prime[b]) \in Nat /\ Len(rx[b]) \in Nat /\ Len(view[b]) \in Nat
         /\ ep[b] \in Nat /\ aid[b] \in Nat /\ lastSeq[b] \in Nat \cup {Null}
         /\ cid \in Nat /\ epochs \in Nat /\ next \in Nat \ {0}
<1>1. prime[b] \in Seq(Frames) /\ rx[b] \in Seq(Frames) /\ view[b] \in Seq(Frames)
  BY DEF TypeOK, WsTypeOK, PageTypeOK
<1>2. Len(prime[b]) \in Nat /\ Len(rx[b]) \in Nat /\ Len(view[b]) \in Nat
  BY <1>1, LenProperties
<1> QED
  BY <1>1, <1>2 DEF TypeOK, WsTypeOK, PageTypeOK, ClientTypeOK

\* Nothing happens to b: its frames and its cursor stay, and the client is
\* the same, or is one b has no cursor of.
LEMMA StreamsStill ==
  ASSUME TypeOK, NEW b \in Browsers, Streams(b),
         ep'[b] = ep[b], prime'[b] = prime[b], rx'[b] = rx[b],
         lastSeq'[b] = lastSeq[b], aid'[b] = aid[b], view'[b] = view[b],
         bst'[b] = "open" <=> bst[b] = "open",
         (cid' = cid /\ next' = next) \/ (ep[b] # cid' /\ aid[b] # cid')
  PROVE  Streams(b)'
<1>1. PrimeInOrder(b)'
  BY DEF Streams, PrimeInOrder, ChunkFrame
<1>2. LiveInOrder(b)'
  BY DEF Streams, LiveInOrder, ChunkFrame
<1>3. ScreenInOrder(b)'
  BY DEF Streams, ScreenInOrder
<1> QED
  BY <1>1, <1>2, <1>3 DEF Streams

\* The connection of b is gone; the page keeps its cursor and its screen, or
\* loses the screen only.
LEMMA StreamsClosed ==
  ASSUME TypeOK, NEW b \in Browsers, Streams(b),
         bst'[b] = "closed", prime'[b] = <<>>, rx'[b] = <<>>,
         lastSeq'[b] = lastSeq[b], aid'[b] = aid[b],
         view'[b] = view[b] \/ view'[b] = <<>>,
         (cid' = cid /\ next' = next) \/ cid' = 0
  PROVE  Streams(b)'
<1>1. PrimeInOrder(b)'
  BY DEF PrimeInOrder
<1>2. LiveInOrder(b)'
  BY DEF LiveInOrder
<1>3. ScreenInOrder(b)'
  BY DEF Streams, ScreenInOrder
<1> QED
  BY <1>1, <1>2, <1>3 DEF Streams

\* attach() primes b in order.
LEMMA StreamsAttach ==
  ASSUME TypeOK, HistorySeqs, NEW b \in Browsers, Streams(b), Attach(b)
  PROVE  Streams(b)'
<1> DEFINE C == CatchUp(lastSeq[b], aid[b])
           h == HelloFrame(LatestSeq, cid)
           P == prime'[b]
           V == view[b]
<1>1. /\ lastSeq[b] \in Nat \cup {Null} /\ next \in Nat \ {0} /\ cid \in Nat
      /\ V \in Seq(Frames) /\ Len(V) \in Nat
  BY BrowserTypes
<1>2. /\ C \in Seq(Frames) /\ Len(C) \in Nat
      /\ \A i \in 1 .. Len(C) :
           /\ ChunkFrame(C[i])
           /\ C[i].seq = 0 => Len(C) = 1
           /\ C[i].top <= LatestSeq
           /\ aid[b] = cid /\ lastSeq[b] # Null /\ C[i].seq # 0 => lastSeq[b] < C[i].seq
           /\ C[i].seq \in Nat /\ C[i].top \in Nat
      /\ \A i, j \in 1 .. Len(C) : i < j => C[i].top < C[j].seq
      /\ C = <<>> \/ C[1].seq # 0 => aid[b] = cid /\ lastSeq[b] # Null
  <2>1. C \in Seq(Frames)
    BY <1>1, CatchUpShape
  <2>2. Len(C) \in Nat
    BY <2>1, LenProperties
  <2>3. \A i \in 1 .. Len(C) : C[i].seq \in Nat /\ C[i].top \in Nat
    BY <2>1, FrameFields
  <2> HIDE DEF C
  <2> QED
    BY <1>1, <2>1, <2>2, <2>3, CatchUpShape DEF C
<1>3. h \in Frames /\ h.kind = "hello" /\ h.seq = LatestSeq /\ h.id = cid /\ LatestSeq \in Nat
  BY <1>1 DEF HelloFrame, Frames, LatestSeq
<1>4. /\ prime'[b] = Append(C, h) /\ rx'[b] = <<>> /\ bst'[b] = "open" /\ ep'[b] = cid
      /\ cid' = cid /\ next' = next /\ view' = view /\ lastSeq' = lastSeq /\ aid' = aid
      /\ cid # 0
  BY DEF Attach, TypeOK, WsTypeOK, clientVars, pageVars
<1> HIDE DEF C, h
<1>5. /\ Len(P) = Len(C) + 1 /\ P[Len(C) + 1] = h /\ P # <<>>
      /\ \A i \in 1 .. Len(C) : P[i] = C[i]
  BY <1>2, <1>3, <1>4, AppendProperties
<1> HIDE DEF P, V
<1>6. PrimeInOrder(b)'
  <2>1. /\ P[Len(P)].kind = "hello" /\ P[Len(P)].id = ep'[b]
        /\ P[Len(P)].seq = LatestSeq /\ LatestSeq < next'
    BY <1>1, <1>2, <1>3, <1>4, <1>5 DEF LatestSeq
  <2>2. \A i \in 1 .. (Len(P) - 1) :
          ChunkFrame(P[i]) /\ (P[i].seq = 0 => i = 1) /\ P[i].top <= P[Len(P)].seq
    BY <1>2, <1>5, <2>1
  <2>3. \A i, j \in 1 .. (Len(P) - 1) : i < j => P[i].top < P[j].seq
    BY <1>2, <1>5
  <2> QED
    BY <1>4, <2>1, <2>2, <2>3 DEF PrimeInOrder, P, ChunkFrame
<1>7. LiveInOrder(b)'
  BY <1>4 DEF LiveInOrder
<1>8. ScreenInOrder(b)'
  <2>1. \A i \in 1 .. Len(V) : V[i].top \in Nat
    BY <1>1, FrameFields
  <2>2. /\ \A i, j \in 1 .. Len(V) : i < j => V[i].top < V[j].seq
        /\ lastSeq[b] # Null => \A i \in 1 .. Len(V) : V[i].top <= lastSeq[b]
        /\ aid[b] = cid /\ cid # 0 /\ lastSeq[b] # Null => lastSeq[b] < next
    BY DEF Streams, ScreenInOrder, V
  <2>3. ASSUME P[1].kind = "hello" \/ P[1].seq # 0, NEW i \in 1 .. Len(V)
        PROVE  V[i].top <= P[Len(P)].seq /\ \A j \in 1 .. (Len(P) - 1) : V[i].top < P[j].seq
    <3>1. C = <<>> \/ C[1].seq # 0
      <4>1. CASE C # <<>>
        <5>1. 1 \in 1 .. Len(C)
          BY <1>2, <4>1, EmptySeq
        <5>2. P[1] = C[1] /\ C[1].kind = "chunk"
          BY <1>2, <1>5, <5>1 DEF ChunkFrame
        <5> QED
          BY <2>3, <5>2
      <4> QED
        BY <4>1
    <3>2. aid[b] = cid /\ lastSeq[b] # Null /\ lastSeq[b] \in Nat
      BY <1>1, <1>2, <3>1
    <3>3. V[i].top <= lastSeq[b] /\ lastSeq[b] <= LatestSeq /\ P[Len(P)].seq = LatestSeq
      BY <1>1, <1>2, <1>3, <1>4, <1>5, <2>2, <2>3, <3>2 DEF LatestSeq
    <3>4. V[i].top <= P[Len(P)].seq
      BY <1>3, <2>1, <3>2, <3>3
    <3>5. ASSUME NEW j \in 1 .. (Len(P) - 1) PROVE V[i].top < P[j].seq
      <4>1. j \in 1 .. Len(C) /\ P[j] = C[j]
        BY <1>2, <1>5
      <4>2. C[j].seq # 0
        <5>1. ASSUME C[j].seq = 0 PROVE FALSE
          <6>1. Len(C) = 1 /\ j = 1 /\ C # <<>>
            BY <1>2, <4>1, <5>1, EmptySeq
          <6> QED
            BY <3>1, <5>1, <6>1
        <5> QED
          BY <5>1
      <4>3. lastSeq[b] < C[j].seq /\ C[j].seq \in Nat
        BY <1>2, <3>2, <4>1, <4>2
      <4> QED
        BY <2>1, <3>2, <3>3, <4>1, <4>3
    <3> QED
      BY <3>4, <3>5
  <2> QED
    BY <1>4, <1>5, <2>2, <2>3 DEF ScreenInOrder, P, V
<1> QED
  BY <1>6, <1>7, <1>8 DEF Streams

\* A live chunk is broadcast to b with the next seq.
LEMMA StreamsRead ==
  ASSUME TypeOK, NEW b \in Browsers, Streams(b), ReadStdout
  PROVE  Streams(b)'
<1> DEFINE f == Frame(next, {Head(dq)}, next)
           R == rx[b]
           Q == rx'[b]
<1>1. /\ UNCHANGED <<cid, bst, ep, prime>> /\ UNCHANGED <<lastSeq, aid, view>>
      /\ next' = next + 1
      /\ rx'[b] = IF bst[b] = "open" /\ ep[b] = cid THEN Push(R, f, WsCap) ELSE R
  BY DEF ReadStdout, pageVars
<1>2. /\ next \in Nat \ {0} /\ R \in Seq(Frames) /\ Len(R) \in Nat
      /\ prime[b] \in Seq(Frames) /\ Len(prime[b]) \in Nat
      /\ view[b] \in Seq(Frames) /\ Len(view[b]) \in Nat
      /\ lastSeq[b] \in Nat \cup {Null} /\ WsCap \in Nat \ {0}
  BY BrowserTypes, ServerAssumption DEF ServerAssumption
<1>3. \A i \in 1 .. Len(R) : R[i].seq \in Nat /\ R[i].top \in Nat
  BY <1>2, FrameFields
<1>4. \A i \in 1 .. Len(prime[b]) : prime[b][i].seq \in Nat /\ prime[b][i].top \in Nat
  BY <1>2, FrameFields
<1>5. \A i \in 1 .. Len(view[b]) : view[b][i].seq \in Nat /\ view[b][i].top \in Nat
  BY <1>2, FrameFields
<1>6. prime[b] # <<>> => Len(prime[b]) \in 1 .. Len(prime[b])
  BY <1>2, EmptySeq
<1>7. CASE ~ (bst[b] = "open" /\ ep[b] = cid)
  <2>1. rx'[b] = rx[b]
    BY <1>1, <1>7
  <2>2. PrimeInOrder(b)'
    BY <1>1, <1>7 DEF Streams, PrimeInOrder, ChunkFrame
  <2>3. LiveInOrder(b)'
    BY <1>1, <1>7, <2>1 DEF Streams, LiveInOrder, ChunkFrame
  <2>4. ScreenInOrder(b)'
    <3>1. aid[b] = cid /\ cid # 0 /\ lastSeq[b] # Null => lastSeq'[b] < next'
      BY <1>1, <1>2 DEF Streams, ScreenInOrder
    <3> QED
      BY <1>1, <1>7, <2>1, <3>1 DEF Streams, ScreenInOrder
  <2> QED
    BY <2>2, <2>3, <2>4 DEF Streams
<1>8. CASE bst[b] = "open" /\ ep[b] = cid
  <2>1. f.kind = "chunk" /\ f.seq = next /\ f.top = next
    BY DEF Frame
  <2>2. f \in Frames
    <3>1. dq \in Seq(0 .. MaxOut) /\ dq # <<>> /\ Head(dq) # 0 /\ MaxOut \in Nat
      BY DaemonAssumption DEF TypeOK, DaemonTypeOK, ReadStdout, Exit, DaemonAssumption
    <3>2. Head(dq) \in 1 .. MaxOut
      BY <3>1, HeadTailProperties
    <3> QED
      BY <1>2, <3>2 DEF Frame, Frames
  <2> HIDE DEF f
  <2>3. Q = Push(R, f, WsCap)
    BY <1>1, <1>8
  <2>4. PICK d \in {0, 1} :
          /\ Len(Q) = Len(R) + 1 - d /\ Len(R) >= d
          /\ \A i \in 1 .. (Len(R) - d) : Q[i] = R[i + d]
          /\ Q[Len(R) + 1 - d] = f
    <3>1. R \in Seq(Frames) /\ WsCap \in Nat \ {0}
      BY <1>2
    <3> HIDE DEF Q, R
    <3>2. \E d \in {0, 1} :
            /\ Len(Push(R, f, WsCap)) = Len(R) + 1 - d /\ Len(R) >= d
            /\ \A i \in 1 .. (Len(R) - d) : Push(R, f, WsCap)[i] = R[i + d]
            /\ Push(R, f, WsCap)[Len(R) + 1 - d] = f
      BY <2>2, <3>1, PushShape DEF AddedTo
    <3> QED
      BY <2>3, <3>2
  <2> HIDE DEF Q, R
  <2>5. \A i \in 1 .. Len(Q) :
          \/ i = Len(Q) /\ Q[i] = f
          \/ i < Len(Q) /\ i + d \in 1 .. Len(R) /\ Q[i] = R[i + d]
    BY <1>2, <2>4
  <2>6. \A i \in 1 .. Len(R) : /\ ChunkFrame(R[i]) /\ R[i].seq # 0 /\ R[i].seq < next
                               /\ \A j \in 1 .. Len(R) : i < j => R[i].seq < R[j].seq
                               /\ prime[b] # <<>> => prime[b][Len(prime[b])].seq < R[i].seq
    BY <1>8 DEF Streams, LiveInOrder, R
  <2>7. \A i \in 1 .. Len(Q) : ChunkFrame(Q[i]) /\ Q[i].seq # 0 /\ Q[i].seq < next'
    <3>1. TAKE i \in 1 .. Len(Q)
    <3>2. CASE i = Len(Q) /\ Q[i] = f
      BY <1>1, <1>2, <2>1, <3>2 DEF ChunkFrame
    <3>3. CASE i < Len(Q) /\ i + d \in 1 .. Len(R) /\ Q[i] = R[i + d]
      <4>1. ChunkFrame(R[i + d]) /\ R[i + d].seq # 0 /\ R[i + d].seq < next
        BY <2>6, <3>3
      <4>2. R[i + d].seq \in Nat
        BY <1>3, <3>3 DEF R
      <4> QED
        BY <1>1, <1>2, <3>3, <4>1, <4>2
    <3> QED
      BY <2>5, <3>1, <3>2, <3>3
  <2>8. \A i, j \in 1 .. Len(Q) : i < j => Q[i].seq < Q[j].seq
    <3>1. SUFFICES ASSUME NEW i \in 1 .. Len(Q), NEW j \in 1 .. Len(Q), i < j
                   PROVE  Q[i].seq < Q[j].seq
      OBVIOUS
    <3>2. i + d \in 1 .. Len(R) /\ Q[i] = R[i + d]
      BY <1>2, <2>4, <2>5, <3>1
    <3>3. CASE j = Len(Q) /\ Q[j] = f
      BY <2>1, <2>6, <3>2, <3>3
    <3>4. CASE j < Len(Q) /\ j + d \in 1 .. Len(R) /\ Q[j] = R[j + d]
      <4>1. i + d < j + d
        BY <2>4, <3>1
      <4> QED
        BY <2>6, <3>2, <3>4, <4>1
    <3> QED
      BY <2>5, <3>3, <3>4
  <2>9. prime[b] # <<>> => \A i \in 1 .. Len(Q) : prime[b][Len(prime[b])].seq < Q[i].seq
    <3>1. SUFFICES ASSUME prime[b] # <<>>, NEW i \in 1 .. Len(Q)
                   PROVE  prime[b][Len(prime[b])].seq < Q[i].seq
      OBVIOUS
    <3>2. prime[b][Len(prime[b])].seq < next
      BY <1>8, <3>1 DEF Streams, PrimeInOrder
    <3>3. CASE Q[i] = f
      BY <2>1, <3>2, <3>3
    <3>4. CASE i + d \in 1 .. Len(R) /\ Q[i] = R[i + d]
      BY <2>6, <3>1, <3>4
    <3> QED
      BY <2>5, <3>3, <3>4
  <2>10. PrimeInOrder(b)'
    <3>1. prime[b] # <<>> => prime[b][Len(prime[b])].seq < next'
      <4>1. prime[b] # <<>> => prime[b][Len(prime[b])].seq < next
        BY <1>8 DEF Streams, PrimeInOrder
      <4>2. prime[b] # <<>> => prime[b][Len(prime[b])].seq \in Nat
        BY <1>4, <1>6
      <4> QED
        BY <1>1, <1>2, <4>1, <4>2
    <3> QED
      BY <1>1, <3>1 DEF Streams, PrimeInOrder, ChunkFrame
  <2>11. LiveInOrder(b)'
    BY <1>1, <1>8, <2>7, <2>8, <2>9 DEF LiveInOrder, Q, ChunkFrame
  <2>12. ScreenInOrder(b)'
    <3>1. aid[b] = cid /\ cid # 0 /\ lastSeq[b] # Null => lastSeq'[b] < next'
      BY <1>1, <1>2 DEF Streams, ScreenInOrder
    <3>2. prime[b] = <<>> => \A i \in 1 .. Len(view[b]) :
            view[b][i].top < next' /\ \A j \in 1 .. Len(Q) : view[b][i].top < Q[j].seq
      <4>1. SUFFICES ASSUME prime[b] = <<>>, NEW i \in 1 .. Len(view[b])
                     PROVE  view[b][i].top < next' /\ \A j \in 1 .. Len(Q) : view[b][i].top < Q[j].seq
        OBVIOUS
      <4>2. view[b][i].top < next /\ \A j \in 1 .. Len(R) : view[b][i].top < R[j].seq
        BY <1>8, <4>1 DEF Streams, ScreenInOrder, R
      <4>3. view[b][i].top < next'
        BY <1>1, <1>2, <1>5, <4>2
      <4>4. \A j \in 1 .. Len(Q) : view[b][i].top < Q[j].seq
        <5>1. TAKE j \in 1 .. Len(Q)
        <5>2. CASE Q[j] = f
          BY <2>1, <4>2, <5>2
        <5>3. CASE j + d \in 1 .. Len(R) /\ Q[j] = R[j + d]
          BY <4>2, <5>3
        <5> QED
          BY <2>5, <5>2, <5>3
      <4> QED
        BY <4>3, <4>4
    <3> QED
      BY <1>1, <1>8, <3>1, <3>2 DEF Streams, ScreenInOrder, Q
  <2> QED
    BY <2>10, <2>11, <2>12 DEF Streams
<1> QED
  BY <1>7, <1>8

\* What painting does to the screen and the cursor of b.
LEMMA PaintEffect ==
  ASSUME TypeOK, NEW b \in Browsers, NEW f \in Frames, Paint(b, f)
  PROVE  /\ f.kind = "hello" =>
              view'[b] = view[b] /\ lastSeq'[b] = f.seq /\ aid'[b] = f.id
         /\ f.kind = "chunk" =>
              /\ aid'[b] = aid[b]
              /\ lastSeq'[b] = IF f.seq = 0 THEN Null ELSE f.seq
              /\ \A i \in 1 .. Len(view'[b]) :
                   \/ view'[b][i] = f /\ i = Len(view'[b])
                   \/ /\ f.seq # 0 /\ i \in 1 .. Len(view[b]) /\ i < Len(view'[b])
                      /\ view'[b][i] = view[b][i]
              /\ Len(view'[b]) \in Nat
<1>1. lastSeq' \in [Browsers -> Nat \cup {Null}] /\ aid \in [Browsers -> Nat]
      /\ lastSeq \in [Browsers -> Nat \cup {Null}] /\ view \in [Browsers -> Seq(Frames)]
  BY PaintType DEF TypeOK, PageTypeOK
<1>2. CASE f.kind = "hello"
  BY <1>1, <1>2 DEF Paint
<1>3. CASE f.kind = "chunk"
  <2>1. /\ view' = [view EXCEPT ![b] = IF f.seq = 0 THEN <<f>> ELSE Append(@, f)]
        /\ lastSeq' = [lastSeq EXCEPT ![b] = IF f.seq = 0 THEN Null ELSE f.seq]
        /\ aid' = aid
    BY <1>3 DEF Paint
  <2>2. /\ view'[b] = IF f.seq = 0 THEN <<f>> ELSE Append(view[b], f)
        /\ lastSeq'[b] = IF f.seq = 0 THEN Null ELSE f.seq
    BY <1>1, <2>1
  <2>3. view[b] \in Seq(Frames) /\ Len(view[b]) \in Nat
    BY BrowserTypes
  <2>4. CASE f.seq = 0
    <3>1. view'[b] = <<f>> /\ Len(<<f>>) = 1 /\ <<f>>[1] = f
      BY <2>2, <2>4
    <3>2. \A i \in 1 .. Len(view'[b]) : view'[b][i] = f /\ i = Len(view'[b])
      BY <3>1
    <3> QED
      BY <1>3, <2>1, <2>2, <3>1, <3>2
  <2>5. CASE f.seq # 0
    <3>1. /\ Len(view'[b]) = Len(view[b]) + 1
          /\ \A i \in 1 .. Len(view[b]) : view'[b][i] = view[b][i]
          /\ view'[b][Len(view[b]) + 1] = f
      BY <2>2, <2>3, <2>5, AppendProperties
    <3>2. \A i \in 1 .. Len(view'[b]) :
            \/ view'[b][i] = f /\ i = Len(view'[b])
            \/ i \in 1 .. Len(view[b]) /\ i < Len(view'[b]) /\ view'[b][i] = view[b][i]
      BY <2>3, <3>1
    <3> QED
      BY <1>3, <2>1, <2>2, <2>3, <2>5, <3>1, <3>2
  <2> QED
    BY <2>4, <2>5
<1>4. f.kind \in {"chunk", "hello"}
  BY DEF Frames
<1> QED
  BY <1>2, <1>3, <1>4

\* b receives a frame of the catch-up.
LEMMA StreamsPrimed ==
  ASSUME TypeOK, EpochsInOrder, NEW b \in Browsers, Streams(b),
         bst[b] = "open", prime[b] # <<>>, Paint(b, Head(prime[b])),
         prime'[b] = Tail(prime[b]),
         rx'[b] = rx[b], bst'[b] = bst[b], ep'[b] = ep[b], cid' = cid, next' = next
  PROVE  Streams(b)'
<1> DEFINE P == prime[b]
           n == Len(P)
           f == Head(P)
           V == view[b]
           W == view'[b]
           Q == prime'[b]
           R == rx[b]
<1>1. /\ P \in Seq(Frames) /\ n \in Nat /\ n >= 1
      /\ V \in Seq(Frames) /\ R \in Seq(Frames) /\ Len(R) \in Nat
      /\ ep[b] \in Nat /\ aid[b] \in Nat /\ cid \in Nat /\ epochs \in Nat
      /\ next \in Nat
  BY BrowserTypes, EmptySeq
<1>2. /\ f = P[1] /\ f \in Frames
      /\ Q \in Seq(Frames) /\ Len(Q) = n - 1 /\ \A i \in 1 .. Len(Q) : Q[i] = P[i + 1]
  BY <1>1, HeadTailProperties
<1>3. \A i \in 1 .. n : P[i].seq \in Nat /\ P[i].top \in Nat
  BY <1>1, FrameFields
<1>4. \A i \in 1 .. Len(V) : V[i].seq \in Nat /\ V[i].top \in Nat
  BY <1>1, FrameFields
<1>5. \A i \in 1 .. Len(R) : R[i].seq \in Nat
  BY <1>1, FrameFields
<1>6. /\ P[n].kind = "hello" /\ P[n].id = ep[b] /\ (ep[b] = cid => P[n].seq < next)
      /\ \A i \in 1 .. (n - 1) :
           ChunkFrame(P[i]) /\ (P[i].seq = 0 => i = 1) /\ P[i].top <= P[n].seq
      /\ \A i, j \in 1 .. (n - 1) : i < j => P[i].top < P[j].seq
  BY DEF Streams, PrimeInOrder
<1>7. \A i \in 1 .. Len(R) :
        /\ ChunkFrame(R[i]) /\ R[i].seq # 0
        /\ \A j \in 1 .. Len(R) : i < j => R[i].seq < R[j].seq
        /\ P[n].seq < R[i].seq
        /\ ep[b] = cid => R[i].seq < next
  BY DEF Streams, LiveInOrder
<1>8. /\ \A i, j \in 1 .. Len(V) : i < j => V[i].top < V[j].seq
      /\ f.kind = "hello" \/ f.seq # 0 =>
           \A i \in 1 .. Len(V) :
             V[i].top <= P[n].seq /\ \A j \in 1 .. (n - 1) : V[i].top < P[j].seq
  BY <1>2 DEF Streams, ScreenInOrder
<1>9. aid[b] = cid /\ cid # 0 => ep[b] = cid
  BY <1>1 DEF EpochsInOrder
<1>10. CASE n = 1
  <2>1. f.kind = "hello" /\ f.id = ep[b] /\ f.seq = P[n].seq /\ f.seq \in Nat
    BY <1>1, <1>2, <1>3, <1>6, <1>10
  <2>2. Q = <<>>
    BY <1>2, <1>10, EmptySeq
  <2>3. view'[b] = view[b] /\ lastSeq'[b] = f.seq /\ aid'[b] = ep[b]
    BY <1>2, <2>1, PaintEffect
  <2>4. \A i \in 1 .. Len(V) : V[i].top <= f.seq
    BY <1>8, <2>1
  <2>5. \A i \in 1 .. Len(V) : \A j \in 1 .. Len(R) : V[i].top < R[j].seq
    <3>1. SUFFICES ASSUME NEW i \in 1 .. Len(V), NEW j \in 1 .. Len(R)
                   PROVE  V[i].top < R[j].seq
      OBVIOUS
    <3>2. V[i].top <= f.seq /\ f.seq < R[j].seq
      BY <1>7, <2>1, <2>4, <3>1
    <3>3. V[i].top \in Nat /\ f.seq \in Nat /\ R[j].seq \in Nat
      BY <1>4, <1>5, <2>1, <3>1
    <3> QED
      BY <3>2, <3>3
  <2>6. ep[b] = cid => f.seq < next /\ \A i \in 1 .. Len(V) : V[i].top < next
    BY <1>1, <1>4, <1>6, <2>1, <2>4
  <2> HIDE DEF P, n, f, V, Q, R, W
  <2>7. PrimeInOrder(b)'
    BY <2>2 DEF PrimeInOrder, Q
  <2>8. LiveInOrder(b)'
    BY <1>7, <2>2 DEF LiveInOrder, ChunkFrame, Q, R
  <2>9. ScreenInOrder(b)'
    BY <1>8, <2>2, <2>3, <2>4, <2>5, <2>6 DEF ScreenInOrder, Q, R, V
  <2> QED
    BY <2>7, <2>8, <2>9 DEF Streams
<1>11. CASE n > 1
  <2>1. 1 \in 1 .. (n - 1) /\ ChunkFrame(f) /\ f.kind = "chunk" /\ f.seq \in Nat /\ f.top \in Nat
        /\ f.top <= P[n].seq
    <3> HIDE DEF P, n, f, V, Q, R, W
    <3>1. 1 \in 1 .. (n - 1) /\ 1 \in 1 .. n
      BY <1>1, <1>11
    <3>2. ChunkFrame(f) /\ f.top <= P[n].seq
      BY <1>2, <1>6, <3>1
    <3>3. f.seq \in Nat /\ f.top \in Nat
      BY <1>2, <1>3, <3>1
    <3>4. f.kind = "chunk"
      BY <3>2 DEF ChunkFrame
    <3> QED
      BY <3>1, <3>2, <3>3, <3>4
  <2>2. /\ aid'[b] = aid[b]
        /\ lastSeq'[b] = IF f.seq = 0 THEN Null ELSE f.seq
        /\ \A i \in 1 .. Len(W) :
             \/ W[i] = f /\ i = Len(W)
             \/ f.seq # 0 /\ i \in 1 .. Len(V) /\ i < Len(W) /\ W[i] = V[i]
        /\ Len(W) \in Nat
    BY <1>2, <2>1, PaintEffect
  <2> HIDE DEF P, n, f, V, Q, R, W
  <2>3. Len(Q) = n - 1 /\ Q # <<>> /\ Q[Len(Q)] = P[n]
    <3>1. n \in Nat /\ n > 1 /\ Len(Q) = n - 1
      BY <1>1, <1>2, <1>11
    <3>2. Len(Q) \in 1 .. Len(Q) /\ Len(Q) + 1 = n
      BY <3>1
    <3>3. Q # <<>>
      BY <3>1, EmptySeq
    <3> QED
      BY <1>2, <3>1, <3>2, <3>3
  <2>4. \A i \in 1 .. (Len(Q) - 1) : i + 1 \in 1 .. (n - 1) /\ Q[i] = P[i + 1]
    <3>1. TAKE i \in 1 .. (Len(Q) - 1)
    <3>2. n \in Nat /\ Len(Q) = n - 1
      BY <1>1, <2>3
    <3>3. i \in 1 .. Len(Q) /\ i + 1 \in 1 .. (n - 1)
      BY <3>1, <3>2
    <3> QED
      BY <1>2, <3>3
  <2>5. \A i \in 1 .. (Len(Q) - 1) :
          ChunkFrame(Q[i]) /\ Q[i].seq # 0 /\ Q[i].top <= P[n].seq /\ f.top < Q[i].seq
    <3>1. TAKE i \in 1 .. (Len(Q) - 1)
    <3>2. i + 1 \in 1 .. (n - 1) /\ Q[i] = P[i + 1] /\ i + 1 # 1 /\ 1 < i + 1
      BY <1>1, <2>3, <2>4, <3>1
    <3>3. f.top < P[i + 1].seq
      BY <1>2, <1>6, <2>1, <3>2
    <3> QED
      BY <1>6, <3>2, <3>3
  <2>6. \A i, j \in 1 .. (Len(Q) - 1) : i < j => Q[i].top < Q[j].seq
    <3>1. SUFFICES ASSUME NEW i \in 1 .. (Len(Q) - 1), NEW j \in 1 .. (Len(Q) - 1), i < j
                   PROVE  Q[i].top < Q[j].seq
      OBVIOUS
    <3>2. i + 1 < j + 1
      BY <1>1, <2>3, <3>1
    <3> QED
      BY <1>6, <2>4, <3>1, <3>2
  <2>7. \A i \in 1 .. Len(V) : f.seq # 0 =>
          V[i].top <= P[n].seq /\ \A j \in 1 .. (n - 1) : V[i].top < P[j].seq
    BY <1>8
  <2>8. \A i, j \in 1 .. Len(W) : i < j => W[i].top < W[j].seq
    <3>1. SUFFICES ASSUME NEW i \in 1 .. Len(W), NEW j \in 1 .. Len(W), i < j
                   PROVE  W[i].top < W[j].seq
      OBVIOUS
    <3>2. f.seq # 0 /\ i \in 1 .. Len(V) /\ W[i] = V[i]
      BY <2>2, <3>1
    <3>3. CASE W[j] = f
      BY <1>2, <2>1, <2>7, <3>2, <3>3
    <3>4. CASE j \in 1 .. Len(V) /\ W[j] = V[j]
      BY <1>8, <3>1, <3>2, <3>4
    <3> QED
      BY <2>2, <3>3, <3>4
  <2>9. lastSeq'[b] # Null => \A i \in 1 .. Len(W) : W[i].top <= lastSeq'[b]
    <3>1. SUFFICES ASSUME lastSeq'[b] # Null, NEW i \in 1 .. Len(W)
                   PROVE  W[i].top <= lastSeq'[b]
      OBVIOUS
    <3>2. lastSeq'[b] = f.seq /\ f.top = f.seq /\ f.seq # 0
      BY <2>1, <2>2, <3>1 DEF ChunkFrame
    <3>3. CASE W[i] = f
      BY <2>1, <3>2, <3>3
    <3>4. CASE i \in 1 .. Len(V) /\ W[i] = V[i]
      <4>1. V[i].top < f.seq
        BY <1>2, <2>1, <2>7, <3>2, <3>4
      <4> QED
        BY <1>4, <2>1, <3>2, <3>4, <4>1
    <3> QED
      BY <2>2, <3>3, <3>4
  <2>10. \A i \in 1 .. Len(W) :
           W[i].top <= P[n].seq /\ \A j \in 1 .. (Len(Q) - 1) : W[i].top < Q[j].seq
    <3>1. TAKE i \in 1 .. Len(W)
    <3>2. CASE W[i] = f
      BY <2>1, <2>5, <3>2
    <3>3. CASE f.seq # 0 /\ i \in 1 .. Len(V) /\ W[i] = V[i]
      BY <2>4, <2>7, <3>3
    <3> QED
      BY <2>2, <3>2, <3>3
  <2>11. aid'[b] = cid /\ cid # 0 /\ lastSeq'[b] # Null => lastSeq'[b] < next
    <3>1. SUFFICES ASSUME aid[b] = cid, cid # 0, lastSeq'[b] # Null
                   PROVE  lastSeq'[b] < next
      BY <2>2
    <3>2. lastSeq'[b] = f.top
      BY <2>1, <2>2, <3>1 DEF ChunkFrame
    <3>3. P[n].seq < next /\ P[n].seq \in Nat
      BY <1>1, <1>3, <1>6, <1>9, <3>1
    <3> QED
      BY <1>1, <2>1, <3>2, <3>3
  <2>12. PrimeInOrder(b)'
    BY <1>6, <2>3, <2>5, <2>6 DEF PrimeInOrder, ChunkFrame, Q
  <2>13. LiveInOrder(b)'
    BY <1>7, <2>3 DEF LiveInOrder, ChunkFrame, Q, R
  <2>14. ScreenInOrder(b)'
    BY <2>3, <2>8, <2>9, <2>10, <2>11 DEF ScreenInOrder, Q, W
  <2> QED
    BY <2>12, <2>13, <2>14 DEF Streams
<1>12. n = 1 \/ n > 1
  <2> HIDE DEF n
  <2> QED
    BY <1>1
<1> QED
  BY <1>10, <1>11, <1>12

\* b receives a live frame.
LEMMA StreamsLive ==
  ASSUME TypeOK, EpochsInOrder, NEW b \in Browsers, Streams(b),
         bst[b] = "open", prime[b] = <<>>, rx[b] # <<>>, Paint(b, Head(rx[b])),
         rx'[b] = Tail(rx[b]), prime'[b] = prime[b],
         bst'[b] = bst[b], ep'[b] = ep[b], cid' = cid, next' = next
  PROVE  Streams(b)'
<1> DEFINE R == rx[b]
           n == Len(R)
           f == Head(R)
           V == view[b]
           W == view'[b]
           Q == rx'[b]
<1>1. /\ R \in Seq(Frames) /\ n \in Nat /\ n >= 1
      /\ V \in Seq(Frames) /\ Len(V) \in Nat
      /\ ep[b] \in Nat /\ aid[b] \in Nat /\ cid \in Nat /\ epochs \in Nat
      /\ next \in Nat
  BY BrowserTypes, EmptySeq
<1>2. /\ f = R[1] /\ f \in Frames
      /\ Q \in Seq(Frames) /\ Len(Q) = n - 1 /\ \A i \in 1 .. Len(Q) : Q[i] = R[i + 1]
  BY <1>1, HeadTailProperties
<1>3. \A i \in 1 .. n : R[i].seq \in Nat /\ R[i].top \in Nat
  BY <1>1, FrameFields
<1>4. \A i \in 1 .. Len(V) : V[i].seq \in Nat /\ V[i].top \in Nat
  BY <1>1, FrameFields
<1>5. \A i \in 1 .. n :
        /\ ChunkFrame(R[i]) /\ R[i].seq # 0
        /\ \A j \in 1 .. n : i < j => R[i].seq < R[j].seq
        /\ ep[b] = cid => R[i].seq < next
  BY DEF Streams, LiveInOrder
<1>6. /\ \A i, j \in 1 .. Len(V) : i < j => V[i].top < V[j].seq
      /\ \A i \in 1 .. Len(V) : /\ \A j \in 1 .. n : V[i].top < R[j].seq
                                /\ ep[b] = cid => V[i].top < next
  BY DEF Streams, ScreenInOrder
<1>7. aid[b] = cid /\ cid # 0 => ep[b] = cid
  BY <1>1 DEF EpochsInOrder
<1> HIDE DEF n
<1>8. 1 \in 1 .. n
  BY <1>1
<1>9. /\ f.kind = "chunk" /\ f.seq \in Nat \ {0} /\ f.top = f.seq
      /\ ep[b] = cid => f.seq < next
  BY <1>2, <1>3, <1>5, <1>8 DEF ChunkFrame
<1>10. /\ aid'[b] = aid[b]
       /\ lastSeq'[b] = f.seq
       /\ \A i \in 1 .. Len(W) :
            \/ W[i] = f /\ i = Len(W)
            \/ i \in 1 .. Len(V) /\ i < Len(W) /\ W[i] = V[i]
       /\ Len(W) \in Nat
  BY <1>2, <1>9, PaintEffect
<1>11. \A i \in 1 .. Len(Q) : i + 1 \in 1 .. n /\ Q[i] = R[i + 1]
  <2> HIDE DEF Q
  <2> QED
    BY <1>1, <1>2
<1> HIDE DEF f, V, Q, R, W
<1>12. \A i \in 1 .. Len(Q) :
         /\ ChunkFrame(Q[i]) /\ Q[i].seq # 0
         /\ \A j \in 1 .. Len(Q) : i < j => Q[i].seq < Q[j].seq
         /\ ep[b] = cid => Q[i].seq < next
         /\ f.seq < Q[i].seq
  <2>1. TAKE i \in 1 .. Len(Q)
  <2>2. i + 1 \in 1 .. n /\ Q[i] = R[i + 1] /\ 1 < i + 1
    BY <1>1, <1>2, <1>11, <2>1
  <2>3. ASSUME NEW j \in 1 .. Len(Q), i < j PROVE Q[i].seq < Q[j].seq
    <3>1. j + 1 \in 1 .. n /\ Q[j] = R[j + 1] /\ i + 1 < j + 1
      BY <1>1, <1>2, <1>11, <2>3
    <3> QED
      BY <1>5, <2>2, <3>1
  <2>4. f.seq < R[i + 1].seq
    BY <1>2, <1>5, <1>8, <2>2
  <2> QED
    BY <1>5, <2>2, <2>3, <2>4
<1>13. \A i, j \in 1 .. Len(W) : i < j => W[i].top < W[j].seq
  <2>1. SUFFICES ASSUME NEW i \in 1 .. Len(W), NEW j \in 1 .. Len(W), i < j
                 PROVE  W[i].top < W[j].seq
    OBVIOUS
  <2>2. i \in 1 .. Len(V) /\ W[i] = V[i]
    BY <1>10, <2>1
  <2>3. CASE W[j] = f
    BY <1>2, <1>6, <1>8, <2>2, <2>3
  <2>4. CASE j \in 1 .. Len(V) /\ W[j] = V[j]
    BY <1>6, <2>1, <2>2, <2>4
  <2> QED
    BY <1>10, <2>3, <2>4
<1>14. \A i \in 1 .. Len(W) :
         /\ W[i].top <= f.seq
         /\ \A j \in 1 .. Len(Q) : W[i].top < Q[j].seq
         /\ ep[b] = cid => W[i].top < next
  <2>1. TAKE i \in 1 .. Len(W)
  <2>2. CASE W[i] = f
    BY <1>9, <1>12, <2>2
  <2>3. CASE i \in 1 .. Len(V) /\ W[i] = V[i]
    <3>1. V[i].top < f.seq /\ V[i].top \in Nat
      BY <1>2, <1>4, <1>6, <1>8, <2>3
    <3>2. \A j \in 1 .. Len(Q) : V[i].top < Q[j].seq
      BY <1>6, <1>11, <2>3
    <3> QED
      BY <1>6, <1>9, <2>3, <3>1, <3>2
  <2> QED
    BY <1>10, <2>2, <2>3
<1>15. PrimeInOrder(b)'
  BY DEF PrimeInOrder
<1>16. LiveInOrder(b)'
  BY <1>12 DEF LiveInOrder, ChunkFrame, Q
<1>17. ScreenInOrder(b)'
  BY <1>7, <1>9, <1>10, <1>13, <1>14 DEF ScreenInOrder, Q, W
<1> QED
  BY <1>15, <1>16, <1>17 DEF Streams

\* What Receive does to the cursor's attach_id: only the hello, last of the
\* catch-up, sets it, to that of the connection.
LEMMA ReceiveEpoch ==
  ASSUME TypeOK, EpochsInOrder, NEW b \in Browsers, Streams(b), Receive(b)
  PROVE  /\ aid'[b] \in {aid[b], ep[b]}
         /\ prime'[b] = <<>> => aid'[b] = ep[b]
         /\ \A a \in Browsers \ {b} : aid'[a] = aid[a] /\ prime'[a] = prime[a]
<1>1. /\ prime[b] \in Seq(Frames) /\ rx[b] \in Seq(Frames)
      /\ aid \in [Browsers -> Nat] /\ prime \in [Browsers -> Seq(Frames)]
  BY BrowserTypes DEF TypeOK, WsTypeOK, PageTypeOK
<1>2. bst[b] = "open"
  BY DEF Receive
<1>3. ASSUME prime[b] # <<>>, Paint(b, Head(prime[b])), prime' = [prime EXCEPT ![b] = Tail(@)]
      PROVE  /\ aid'[b] \in {aid[b], ep[b]}
             /\ prime'[b] = <<>> => aid'[b] = ep[b]
  <2> DEFINE P == prime[b]
             f == Head(P)
  <2>1. /\ f = P[1] /\ f \in Frames /\ Len(P) \in Nat /\ Len(P) >= 1
        /\ Tail(P) \in Seq(Frames) /\ Len(Tail(P)) = Len(P) - 1 /\ prime'[b] = Tail(P)
    BY <1>1, <1>3, EmptySeq, HeadTailProperties
  <2>2. /\ P[Len(P)].kind = "hello" /\ P[Len(P)].id = ep[b]
        /\ \A i \in 1 .. (Len(P) - 1) : P[i].kind = "chunk"
    BY <1>3 DEF Streams, PrimeInOrder, ChunkFrame
  <2>3. CASE Len(P) = 1
    <3>1. f.kind = "hello" /\ f.id = ep[b]
      BY <2>1, <2>2, <2>3
    <3>2. aid'[b] = ep[b]
      BY <1>3, <2>1, <3>1, PaintEffect
    <3> QED
      BY <3>2
  <2>4. CASE Len(P) > 1
    <3>1. f.kind = "chunk"
      BY <2>1, <2>2, <2>4
    <3>2. aid'[b] = aid[b]
      BY <1>3, <2>1, <3>1, PaintEffect
    <3>3. prime'[b] # <<>>
      <4> HIDE DEF P
      <4>1. Len(Tail(P)) >= 1
        BY <2>1, <2>4
      <4> QED
        BY <2>1, <4>1, EmptySeq
    <3> QED
      BY <3>2, <3>3
  <2> HIDE DEF P
  <2>5. Len(P) = 1 \/ Len(P) > 1
    BY <2>1
  <2> QED
    BY <2>3, <2>4, <2>5
<1>4. ASSUME prime[b] = <<>>, rx[b] # <<>>, Paint(b, Head(rx[b])), prime' = prime
      PROVE  aid'[b] = aid[b] /\ aid[b] = ep[b]
  <2>1. Head(rx[b]) \in Frames /\ Head(rx[b]) = rx[b][1] /\ 1 \in 1 .. Len(rx[b])
    BY <1>1, <1>4, EmptySeq, HeadTailProperties, LenProperties
  <2>2. Head(rx[b]).kind = "chunk"
    BY <2>1 DEF Streams, LiveInOrder, ChunkFrame
  <2>3. aid'[b] = aid[b]
    BY <1>4, <2>1, <2>2, PaintEffect
  <2> QED
    BY <1>2, <1>4, <2>3 DEF EpochsInOrder
<1>5. \A a \in Browsers \ {b} : aid'[a] = aid[a] /\ prime'[a] = prime[a]
  <2>1. \A a \in Browsers \ {b} : prime'[a] = prime[a]
    BY <1>1 DEF Receive
  <2>2. ASSUME NEW f, Paint(b, f) PROVE \A a \in Browsers \ {b} : aid'[a] = aid[a]
    BY <1>1, <2>2 DEF Paint
  <2> QED
    BY <2>1, <2>2 DEF Receive
<1>6. CASE prime[b] # <<>>
  BY <1>3, <1>5, <1>6 DEF Receive
<1>7. CASE prime[b] = <<>>
  BY <1>4, <1>5, <1>7 DEF Receive
<1> QED
  BY <1>6, <1>7

\* attach_ids stay in order.
LEMMA EpochsStep ==
  TypeOK /\ HistorySeqs /\ ResumerWaits /\ EpochsInOrder
    /\ (\A b \in Browsers : Streams(b)) /\ [Next]_vars
    => EpochsInOrder'
<1> SUFFICES ASSUME TypeOK, HistorySeqs, ResumerWaits, EpochsInOrder,
                    \A b \in Browsers : Streams(b), [Next]_vars
             PROVE  EpochsInOrder'
  OBVIOUS
<1>0. /\ cid \in Nat /\ epochs \in Nat
      /\ ep \in [Browsers -> Nat] /\ aid \in [Browsers -> Nat]
      /\ prime \in [Browsers -> Seq(Frames)]
      /\ bst \in [Browsers -> {"closed", "upgraded", "open"}]
  BY DEF TypeOK, ClientTypeOK, WsTypeOK, PageTypeOK
<1>1. ASSUME cid' = cid, epochs' = epochs, ep' = ep, aid' = aid, prime' = prime,
             \A b \in Browsers : bst'[b] = "open" => bst[b] = "open"
      PROVE  EpochsInOrder'
  BY <1>1 DEF EpochsInOrder
<1>2. CASE Connected
  <2>1. /\ cid' = epochs + 1 /\ epochs' = epochs + 1 /\ ep' = ep /\ aid' = aid /\ prime' = prime
        /\ \A b \in Browsers : bst'[b] = "open" => bst[b] = "open"
    BY <1>0, <1>2 DEF Connected, pageVars
  <2> QED
    BY <1>0, <2>1 DEF EpochsInOrder
<1>3. CASE ResumeFailed
  <2>1. \A b \in Browsers : bst'[b] = "open" => bst[b] = "open"
    BY <1>0, <1>3 DEF ResumeFailed
  <2> QED
    BY <1>1, <1>3, <2>1 DEF ResumeFailed, clientVars, pageVars
<1>4. CASE Restart
  BY <1>0, <1>4 DEF Restart, EpochsInOrder, pageVars
<1>5. ASSUME NEW b \in Browsers, Attach(b) PROVE EpochsInOrder'
  <2>1. /\ cid' = cid /\ epochs' = epochs /\ aid' = aid /\ cid # 0
        /\ bst' = [bst EXCEPT ![b] = "open"] /\ ep' = [ep EXCEPT ![b] = cid]
        /\ \A a \in Browsers \ {b} : prime'[a] = prime[a]
        /\ prime'[b] = Append(CatchUp(lastSeq[b], aid[b]), HelloFrame(LatestSeq, cid))
    BY <1>0, <1>5 DEF Attach, clientVars, pageVars
  <2>2. prime'[b] # <<>>
    <3>1. CatchUp(lastSeq[b], aid[b]) \in Seq(Frames)
      BY BrowserTypes, CatchUpShape
    <3>2. HelloFrame(LatestSeq, cid) \in Frames
      BY <1>0 DEF HelloFrame, Frames, LatestSeq, TypeOK, ClientTypeOK
    <3> QED
      BY <2>1, <3>1, <3>2, AppendProperties
  <2>3. cid = epochs
    BY <2>1 DEF EpochsInOrder
  <2> QED
    BY <1>0, <2>1, <2>2, <2>3 DEF EpochsInOrder
<1>6. ASSUME NEW b \in Browsers, Receive(b) PROVE EpochsInOrder'
  <2>1. /\ aid'[b] \in {aid[b], ep[b]}
        /\ prime'[b] = <<>> => aid'[b] = ep[b]
        /\ \A a \in Browsers \ {b} : aid'[a] = aid[a] /\ prime'[a] = prime[a]
    BY <1>6, ReceiveEpoch
  <2>2. cid' = cid /\ epochs' = epochs /\ bst' = bst /\ ep' = ep
    BY <1>6 DEF Receive, clientVars
  <2>3. bst[b] = "open"
    BY <1>6 DEF Receive
  <2> QED
    BY <1>0, <2>1, <2>2, <2>3 DEF EpochsInOrder
<1>7. ASSUME NEW b \in Browsers, Drop(b) \/ Remount(b) PROVE EpochsInOrder'
  <2>1. /\ cid' = cid /\ epochs' = epochs /\ aid' = aid
        /\ ep' = [ep EXCEPT ![b] = 0] /\ bst' = [bst EXCEPT ![b] = "closed"]
        /\ prime' = [prime EXCEPT ![b] = <<>>]
    BY <1>7 DEF Drop, Remount, Disconnect, clientVars, pageVars
  <2> QED
    BY <1>0, <2>1 DEF EpochsInOrder
<1>8. ASSUME NEW b \in Browsers, Upgrade(b) PROVE EpochsInOrder'
  <2>1. \A a \in Browsers : bst'[a] = "open" => bst[a] = "open"
    BY <1>0, <1>8 DEF Upgrade
  <2> QED
    BY <1>1, <1>8, <2>1 DEF Upgrade, clientVars, pageVars
<1>9. CASE DaemonStep
  BY <1>1, <1>9 DEF DaemonStep, serverVars, clientVars, wsVars, pageVars
<1>10. CASE \E who \in Browsers \cup {Nobody} : Resume(who)
  BY <1>1, <1>10 DEF Resume, clientVars, wsVars, pageVars
<1>11. CASE ReadStdout \/ ReadExit \/ ReadEof
  BY <1>1, <1>11 DEF ReadStdout, ReadExit, ReadEof, wsVars, pageVars
<1>12. CASE UNCHANGED vars
  BY <1>1, <1>12 DEF vars, serverVars, clientVars, wsVars, pageVars
<1> QED
  BY <1>2, <1>3, <1>4, <1>5, <1>6, <1>7, <1>8, <1>9, <1>10, <1>11, <1>12 DEF Next

\* A WebSocket request that is being resumed stays without a WebSocket.
LEMMA ResumerStep == TypeOK /\ ResumerWaits /\ [Next]_vars => ResumerWaits'
<1> SUFFICES ASSUME TypeOK, ResumerWaits, [Next]_vars PROVE ResumerWaits'
  OBVIOUS
<1>0. bst \in [Browsers -> {"closed", "upgraded", "open"}] /\ resumer \in Browsers \cup {Nobody}
  BY DEF TypeOK, WsTypeOK
<1>1. ASSUME resumer' = resumer, conn' = conn \/ conn # "subscribed", bst' = bst
      PROVE  ResumerWaits'
  BY <1>1 DEF ResumerWaits
<1>2. CASE DaemonStep
  <2>1. resumer' = resumer /\ bst' = bst
    BY <1>2 DEF DaemonStep, serverVars, wsVars
  <2>2. conn' = conn \/ conn # "subscribed"
    BY <1>2 DEF DaemonStep, PtyRead, PtyBroadcast, ChildExit, DaemonGone
  <2> QED
    BY <1>1, <2>1, <2>2
<1>3. CASE \E who \in Browsers \cup {Nobody} : Resume(who)
  BY <1>3 DEF Resume, Accept, wsVars, ResumerWaits
<1>4. CASE Connected \/ ResumeFailed \/ Restart
  BY <1>4 DEF Connected, ResumeFailed, Restart, ResumerWaits
<1>5. CASE ReadStdout \/ ReadExit \/ ReadEof
  BY <1>1, <1>5 DEF ReadStdout, ReadExit, ReadEof, wsVars, daemonVars
<1>6. ASSUME NEW b \in Browsers, Upgrade(b) \/ Attach(b) PROVE ResumerWaits'
  BY <1>0, <1>6 DEF Upgrade, Attach, LockFree, daemonVars, ResumerWaits
<1>7. ASSUME NEW b \in Browsers, Receive(b) PROVE ResumerWaits'
  BY <1>1, <1>7 DEF Receive, daemonVars
<1>8. ASSUME NEW b \in Browsers, Drop(b) \/ Remount(b) PROVE ResumerWaits'
  BY <1>0, <1>8 DEF Drop, Remount, Disconnect, daemonVars, ResumerWaits
<1>9. CASE UNCHANGED vars
  BY <1>1, <1>9 DEF vars, serverVars, daemonVars, wsVars
<1> QED
  BY <1>2, <1>3, <1>4, <1>5, <1>6, <1>7, <1>8, <1>9 DEF Next

\* Every step keeps the frames of every browser in order.
LEMMA StreamsStep ==
  TypeOK /\ HistorySeqs /\ ResumerWaits /\ EpochsInOrder
    /\ (\A b \in Browsers : Streams(b)) /\ [Next]_vars
    => (\A b \in Browsers : Streams(b))'
<1> SUFFICES ASSUME TypeOK, HistorySeqs, ResumerWaits, EpochsInOrder,
                    \A a \in Browsers : Streams(a), [Next]_vars, NEW b \in Browsers
             PROVE  Streams(b)'
  OBVIOUS
<1>0. /\ cid \in Nat /\ epochs \in Nat /\ ep[b] \in Nat /\ aid[b] \in Nat
      /\ bst \in [Browsers -> {"closed", "upgraded", "open"}]
      /\ ep \in [Browsers -> Nat] /\ aid \in [Browsers -> Nat]
      /\ lastSeq \in [Browsers -> Nat \cup {Null}]
      /\ prime \in [Browsers -> Seq(Frames)] /\ rx \in [Browsers -> Seq(Frames)]
      /\ view \in [Browsers -> Seq(Frames)]
  BY BrowserTypes DEF TypeOK, ClientTypeOK, WsTypeOK, PageTypeOK
<1>1. ASSUME cid' = cid, next' = next, ep'[b] = ep[b], prime'[b] = prime[b], rx'[b] = rx[b],
             lastSeq'[b] = lastSeq[b], aid'[b] = aid[b], view'[b] = view[b],
             bst'[b] = "open" <=> bst[b] = "open"
      PROVE  Streams(b)'
  BY <1>1, StreamsStill
<1>2. CASE Connected
  <2>1. /\ cid' = epochs + 1 /\ ep' = ep /\ prime' = prime /\ rx' = rx
        /\ lastSeq' = lastSeq /\ aid' = aid /\ view' = view
    BY <1>2 DEF Connected, pageVars
  <2>2. bst'[b] = "open" <=> bst[b] = "open"
    BY <1>0, <1>2 DEF Connected, ResumerWaits
  <2>3. ep[b] # cid' /\ aid[b] # cid'
    BY <1>0, <2>1 DEF EpochsInOrder
  <2> QED
    BY <2>1, <2>2, <2>3, StreamsStill
<1>3. CASE ResumeFailed
  <2>1. bst'[b] = "open" <=> bst[b] = "open"
    BY <1>0, <1>3 DEF ResumeFailed, ResumerWaits
  <2> QED
    BY <1>1, <1>3, <2>1 DEF ResumeFailed, clientVars, pageVars
<1>4. CASE ReadStdout
  BY <1>4, StreamsRead
<1>5. CASE Restart
  <2>1. /\ bst'[b] = "closed" /\ prime'[b] = <<>> /\ rx'[b] = <<>> /\ cid' = 0
        /\ lastSeq'[b] = lastSeq[b] /\ aid'[b] = aid[b] /\ view'[b] = view[b]
    BY <1>5 DEF Restart, pageVars
  <2> QED
    BY <2>1, StreamsClosed
<1>6. ASSUME NEW a \in Browsers, Attach(a) PROVE Streams(b)'
  <2>1. CASE a = b
    BY <1>6, <2>1, StreamsAttach
  <2>2. CASE a # b
    BY <1>0, <1>1, <1>6, <2>2 DEF Attach, clientVars, pageVars
  <2> QED
    BY <2>1, <2>2
<1>7. ASSUME NEW a \in Browsers, Receive(a) PROVE Streams(b)'
  <2>1. CASE a = b
    <3>1. /\ bst[b] = "open" /\ bst'[b] = bst[b] /\ ep'[b] = ep[b]
          /\ cid' = cid /\ next' = next
      BY <1>7, <2>1 DEF Receive, clientVars
    <3>2. ASSUME prime[b] # <<>>, Paint(b, Head(prime[b])),
                 prime' = [prime EXCEPT ![b] = Tail(@)], rx' = rx
          PROVE  Streams(b)'
      BY <1>0, <3>1, <3>2, StreamsPrimed
    <3>3. ASSUME prime[b] = <<>>, rx[b] # <<>>, Paint(b, Head(rx[b])),
                 rx' = [rx EXCEPT ![b] = Tail(@)], prime' = prime
          PROVE  Streams(b)'
      BY <1>0, <3>1, <3>3, StreamsLive
    <3> QED
      BY <1>7, <2>1, <3>2, <3>3 DEF Receive
  <2>2. CASE a # b
    <3>1. \A f : Paint(a, f) =>
            lastSeq'[b] = lastSeq[b] /\ aid'[b] = aid[b] /\ view'[b] = view[b]
      BY <1>0, <2>2 DEF Paint
    <3>2. lastSeq'[b] = lastSeq[b] /\ aid'[b] = aid[b] /\ view'[b] = view[b]
      BY <1>7, <3>1 DEF Receive
    <3>3. prime'[b] = prime[b] /\ rx'[b] = rx[b]
      BY <1>0, <1>7, <2>2 DEF Receive
    <3> QED
      BY <1>1, <1>7, <3>2, <3>3 DEF Receive, clientVars
  <2> QED
    BY <2>1, <2>2
<1>8. ASSUME NEW a \in Browsers, Drop(a) \/ Remount(a) PROVE Streams(b)'
  <2>1. /\ cid' = cid /\ next' = next /\ lastSeq' = lastSeq /\ aid' = aid
        /\ view' = view \/ view' = [view EXCEPT ![a] = <<>>]
    BY <1>8 DEF Drop, Remount, clientVars, pageVars
  <2>2. Disconnect(a)
    BY <1>8 DEF Drop, Remount
  <2>3. CASE a = b
    BY <1>0, <2>1, <2>2, <2>3, StreamsClosed DEF Disconnect
  <2>4. CASE a # b
    BY <1>0, <1>1, <2>1, <2>2, <2>4 DEF Disconnect
  <2> QED
    BY <2>3, <2>4
<1>9. ASSUME NEW a \in Browsers, Upgrade(a) PROVE Streams(b)'
  <2>1. bst'[b] = "open" <=> bst[b] = "open"
    BY <1>0, <1>9 DEF Upgrade
  <2> QED
    BY <1>1, <1>9, <2>1 DEF Upgrade, clientVars, pageVars
<1>10. CASE DaemonStep
  BY <1>1, <1>10 DEF DaemonStep, serverVars, clientVars, wsVars, pageVars
<1>11. CASE \E who \in Browsers \cup {Nobody} : Resume(who)
  BY <1>1, <1>11 DEF Resume, clientVars, wsVars, pageVars
<1>12. CASE ReadExit \/ ReadEof
  BY <1>1, <1>12 DEF ReadExit, ReadEof, wsVars, pageVars
<1>13. CASE UNCHANGED vars
  BY <1>1, <1>13 DEF vars, serverVars, clientVars, wsVars, pageVars
<1> QED
  BY <1>2, <1>3, <1>4, <1>5, <1>6, <1>7, <1>8, <1>9, <1>10, <1>11, <1>12, <1>13 DEF Next

\* At first nothing is painted or on its way.
LEMMA InitOrder == Init => ResumerWaits /\ EpochsInOrder /\ \A b \in Browsers : Streams(b)
<1> SUFFICES ASSUME Init
             PROVE  ResumerWaits /\ EpochsInOrder /\ \A b \in Browsers : Streams(b)
  OBVIOUS
<1>1. ResumerWaits /\ EpochsInOrder
  BY DEF Init, ResumerWaits, EpochsInOrder
<1>2. ASSUME NEW b \in Browsers PROVE Streams(b)
  <2>1. /\ bst[b] = "closed" /\ prime[b] = <<>> /\ rx[b] = <<>> /\ view[b] = <<>>
        /\ lastSeq[b] = Null
    BY DEF Init
  <2> QED
    BY <2>1 DEF Streams, PrimeInOrder, LiveInOrder, ScreenInOrder
<1> QED
  BY <1>1, <1>2

\* The inductive invariant: history, attach_ids, frames and cursors fit together.
THEOREM InvariantCorrect == Spec => []IInv
<1>1. IInv <=> /\ TypeOK /\ HistorySeqs /\ ResumerWaits /\ EpochsInOrder
               /\ \A b \in Browsers : Streams(b)
  BY DEF IInv, Streams
<1>2. Init => IInv
  BY <1>1, InitTypeOK, InitOrder
<1>3. IInv /\ [Next]_vars => IInv'
  <2> SUFFICES ASSUME IInv, [Next]_vars PROVE IInv'
    OBVIOUS
  <2>1. TypeOK' /\ HistorySeqs'
    BY <1>1, TypeStep, HistoryStep
  <2>2. ResumerWaits' /\ EpochsInOrder'
    BY <1>1, ResumerStep, EpochsStep
  <2>3. (\A b \in Browsers : Streams(b))'
    BY <1>1, StreamsStep
  <2> QED
    BY <2>1, <2>2, <2>3 DEF IInv, Streams
<1> QED
  BY <1>2, <1>3, PTL DEF Spec

\* No browser ever paints a seq twice, or one below what its screen covers:
\* across lags, drops, remounts, server restarts and respawned daemons.
THEOREM OrderCorrect == Spec => []PaintedInOrder
<1>1. IInv => PaintedInOrder
  BY DEF IInv, ScreenInOrder, PaintedInOrder
<1> QED
  BY <1>1, InvariantCorrect, PTL

-----------------------------------------------------------------------------
(* What is painted: cursors and output *)

\* What a queue of frames, a screen or a history holds, in whatever order.
Items(q)  == {q[i] : i \in 1 .. Len(q)}
Chunks(q) == {f \in Items(q) : f.kind = "chunk"}

\* What is on its way to b; a snapshot on its way will clear the screen.
OnTheWay(b) == Chunks(prime[b]) \cup Chunks(rx[b])
Redrawn(b)  == \E f \in OnTheWay(b) : f.seq = 0

\* What b will show of all that.
Destined(b) == OnTheWay(b) \cup (IF Redrawn(b) THEN {} ELSE Items(view[b]))

\* What entry h of the history becomes for b: it is on its way, in a frame of its own or in a
\* snapshot.
Coming(b, h) == \E f \in OnTheWay(b) : f.seq \in {0, h.seq} /\ h.data \subseteq f.data

\* What b has had: on its screen, or lost to a lag.
Had(b) == Shown(b) \cup lost[b]

\* An honoured cursor covers what b has had; a browser on the live client
\* has had, or has still coming, all that the history holds.
Claimed(b) ==
  aid[b] = cid /\ cid # 0 /\ lastSeq[b] # Null =>
    \A h \in Items(hist) : h.seq <= lastSeq[b] => h.data \subseteq Had(b)

Arriving(b) ==
  bst[b] = "open" /\ ep[b] = cid =>
    \A h \in Items(hist) :
      \/ h.data \subseteq lost[b]
      \/ Coming(b, h)
      \/ ~ Redrawn(b) /\ h.data \subseteq Had(b)

\* Live output (all but the replay, which is seq 1): what has a higher seq is later output.
Rises(f, g) ==
  f.seq > 1 /\ f.seq < g.seq => \A x \in f.data : \A y \in g.data : x < y
AllRise(S) == \A f, g \in S : Rises(f, g)
Precede(S) == \A f \in S : f.seq > 1 => \A x \in f.data : Awaited(x)

\* What b shows or will show of the live client's output.
OfClient(b) ==
  (IF aid[b] = cid /\ lastSeq[b] # Null THEN Items(view[b]) ELSE {}) \cup
  (IF bst[b] = "open" /\ ep[b] = cid THEN Destined(b) ELSE {})

OutputRises(b) ==
  /\ \A f \in Items(view[b]) : ChunkFrame(f)
  /\ AllRise(Items(view[b]))
  /\ AllRise(Destined(b))
  /\ cid # 0 =>
       /\ AllRise(OfClient(b) \cup Items(hist))
       /\ Precede(OfClient(b) \cup Items(hist))

\* What a sequence holds after an append, without its first entry, of a suffix.
LEMMA ItemsOf ==
  ASSUME NEW S, NEW q \in Seq(S)
  PROVE  Items(q) \in SUBSET S
BY ElementOfSeq DEF Items

LEMMA ItemsAppended ==
  ASSUME NEW S, NEW q \in Seq(S), NEW e \in S
  PROVE  Items(Append(q, e)) = Items(q) \cup {e}
<1>1. PICK t : t = Append(q, e)
  OBVIOUS
<1>2. PICK n \in Nat : n = Len(q)
  BY LenProperties
<1>3. Len(t) = n + 1 /\ t[n + 1] = e /\ \A i \in 1 .. n : t[i] = q[i]
  BY <1>1, <1>2, AppendProperties
<1>4. ASSUME NEW x \in Items(q) \cup {e} PROVE x \in Items(t)
  <2>1. CASE x = e
    BY <1>2, <1>3, <2>1 DEF Items
  <2>2. CASE x \in Items(q)
    <3>1. PICK i \in 1 .. n : x = q[i]
      BY <1>2, <2>2 DEF Items
    <3>2. i \in 1 .. (n + 1)
      BY <1>2
    <3> QED
      BY <1>3, <3>1, <3>2 DEF Items
  <2> QED
    BY <1>4, <2>1, <2>2
<1>5. ASSUME NEW x \in Items(t) PROVE x \in Items(q) \cup {e}
  <2>1. PICK i \in 1 .. (n + 1) : x = t[i]
    BY <1>3 DEF Items
  <2>2. i \in 1 .. n \/ i = n + 1
    BY <1>2
  <2> QED
    BY <1>2, <1>3, <2>1, <2>2 DEF Items
<1> QED
  BY <1>1, <1>4, <1>5

LEMMA ItemsTaken ==
  ASSUME NEW S, NEW q \in Seq(S), q # <<>>
  PROVE  Items(q) = {Head(q)} \cup Items(Tail(q))
<1>1. PICK t : t = Tail(q)
  OBVIOUS
<1>2. /\ Len(q) \in Nat /\ Len(t) = Len(q) - 1 /\ 1 \in 1 .. Len(q) /\ Head(q) = q[1]
      /\ \A i \in 1 .. Len(t) : i + 1 \in 1 .. Len(q) /\ t[i] = q[i + 1]
  BY <1>1, QueueTaken
<1>3. ASSUME NEW x \in Items(q) PROVE x \in {Head(q)} \cup Items(t)
  <2>1. PICK i \in 1 .. Len(q) : x = q[i]
    BY DEF Items
  <2>2. CASE i = 1
    BY <1>2, <2>1, <2>2
  <2>3. CASE i # 1
    <3>1. PICK j : j = i - 1
      OBVIOUS
    <3>2. j \in 1 .. Len(t) /\ i = j + 1
      BY <1>2, <2>3, <3>1
    <3>3. x = t[j]
      BY <1>2, <2>1, <3>2
    <3> QED
      BY <3>2, <3>3 DEF Items
  <2> QED
    BY <2>2, <2>3
<1>4. Items(t) \subseteq Items(q)
  BY <1>2 DEF Items
<1>5. Head(q) \in Items(q)
  BY <1>2 DEF Items
<1> QED
  BY <1>1, <1>3, <1>4, <1>5

LEMMA ItemsOfSuffix ==
  ASSUME NEW S, NEW q \in Seq(S), NEW k \in 1 .. (Len(q) + 1)
  PROVE  Items(SuffixFrom(q, k)) \in SUBSET Items(q)
<1>1. PICK t : t = SuffixFrom(q, k)
  OBVIOUS
<1>2. PICK n \in Nat : n = Len(q)
  BY LenProperties
<1>3. Len(t) = n - k + 1 /\ \A i \in 1 .. (n - k + 1) : t[i] = q[k + i - 1]
  BY <1>1, <1>2, SuffixProperties
<1>4. \A i \in 1 .. (n - k + 1) : k + i - 1 \in 1 .. n
  BY <1>2
<1> QED
  BY <1>1, <1>2, <1>3, <1>4 DEF Items

\* A broadcast: what was waiting still waits or was skipped, the new item waits.
Sent(new, old, e, gone) ==
  /\ e \in new
  /\ new \subseteq old \cup {e}
  /\ old \subseteq new \cup gone

LEMMA ItemsPushed ==
  ASSUME NEW S, NEW q \in Seq(S), NEW e \in S, NEW cap \in Nat \ {0}
  PROVE  Sent(Items(Push(q, e, cap)), Items(q), e, Skipped(q, cap))
<1>1. CASE Len(q) < cap
  BY <1>1, ItemsAppended DEF Push, Skipped, Sent
<1>2. CASE ~ (Len(q) < cap)
  <2>1. q # <<>>
    BY <1>2, LenProperties
  <2>2. Tail(q) \in Seq(S)
    BY <2>1, HeadTailProperties
  <2>3. Items(q) = {Head(q)} \cup Items(Tail(q))
    BY <2>1, ItemsTaken
  <2>4. PICK t \in Seq(S) : t = Tail(q)
    BY <2>2
  <2>5. Items(Append(t, e)) = Items(t) \cup {e}
    BY ItemsAppended
  <2> QED
    BY <1>2, <2>3, <2>4, <2>5 DEF Push, Skipped, Sent
<1> QED
  BY <1>1, <1>2

-----------------------------------------------------------------------------
(* What attach(), the reader task and a received frame do to these sets *)

\* The catch-up C for the claim ls, a as a set: frames of entries, or one snapshot
\* of all; what it leaves out the claim covers.
Covers(C, ls, a) ==
  /\ \A f \in C : f.seq # 0 => \E h \in Items(hist) : h.seq = f.seq /\ h.data = f.data
  /\ (\E f \in C : f.seq = 0) =>
       \E f \in C : f.seq = 0 /\ \A h \in Items(hist) : h.data \subseteq f.data
  /\ (\A f \in C : f.seq # 0) =>
       /\ a = cid /\ ls # Null
       /\ \A h \in Items(hist) : h.seq <= ls \/ \E f \in C : f.seq = h.seq /\ f.data = h.data

LEMMA CatchUpCovers ==
  ASSUME TypeOK, HistorySeqs, NEW ls \in Nat \cup {Null}, NEW a, NEW C, C = CatchUp(ls, a)
  PROVE  Covers(Items(C), ls, a)
<1>0. PICK n \in Nat : n = Len(hist)
  BY LenProperties DEF TypeOK, ClientTypeOK
<1>1. /\ hist \in Seq(Entry) /\ next \in Nat \ {0}
      /\ \A i \in 1 .. n : hist[i].seq = next - 1 - n + i /\ hist[i].seq \in Nat \ {0}
  <2>1. hist \in Seq(Entry) /\ next \in Nat \ {0}
    BY DEF TypeOK, ClientTypeOK
  <2>2. \A i \in 1 .. n : hist[i] \in Entry
    BY <1>0, <2>1, ElementOfSeq
  <2> QED
    BY <1>0, <2>1, <2>2 DEF HistorySeqs, HistoryWindow, Entry
<1>2. PICK claim : claim = IF a = cid THEN ls ELSE Null
  OBVIOUS
<1>3. CASE claim # Null /\ claim >= LatestSeq
  <2>1. C = <<>> /\ a = cid /\ ls # Null /\ claim = ls /\ ls \in Nat
    BY <1>2, <1>3 DEF CatchUp
  <2>2. Items(C) = {}
    BY <2>1 DEF Items
  <2>3. ASSUME NEW h \in Items(hist) PROVE h.seq <= ls
    <3>1. PICK i \in 1 .. n : h = hist[i]
      BY <1>0 DEF Items
    <3>2. h.seq = next - 1 - n + i
      BY <1>1, <3>1
    <3> QED
      BY <1>0, <1>1, <1>3, <2>1, <3>2 DEF LatestSeq
  <2> QED
    BY <2>1, <2>2, <2>3 DEF Covers
<1>4. CASE /\ ~ (claim # Null /\ claim >= LatestSeq)
           /\ claim # Null /\ hist # <<>> /\ claim >= hist[1].seq - 1
  <2>1. a = cid /\ ls # Null /\ claim = ls /\ ls \in Nat
    BY <1>2, <1>4
  <2>2. PICK d : d = Since(hist, ls)
    OBVIOUS
  <2>3. PICK k \in 1 .. (n + 1) :
          /\ d = SuffixFrom(hist, k)
          /\ \A i \in 1 .. (k - 1) : hist[i].seq <= ls
    BY <1>0, <1>1, <2>1, <2>2, SinceShape
  <2>4. PICK m : m = Len(d)
    OBVIOUS
  <2>5. m = n - k + 1 /\ m \in Nat /\ \A i \in 1 .. m : d[i] = hist[k + i - 1]
    <3>1. k \in 1 .. (Len(hist) + 1)
      BY <1>0
    <3>2. hist \in Seq(Entry)
      BY <1>1
    <3>3. /\ Len(SuffixFrom(hist, k)) = Len(hist) - k + 1
          /\ \A i \in 1 .. (Len(hist) - k + 1) : SuffixFrom(hist, k)[i] = hist[k + i - 1]
      BY <3>1, <3>2, SuffixProperties
    <3>4. m = n - k + 1
      BY <1>0, <2>3, <2>4, <3>3
    <3>5. n - k + 1 \in Nat
      OBVIOUS
    <3>6. \A i \in 1 .. (n - k + 1) : d[i] = hist[k + i - 1]
      BY <1>0, <2>3, <3>3
    <3> QED
      BY <3>4, <3>5, <3>6
  <2>6. C = [i \in 1 .. m |-> Frame(d[i].seq, d[i].data, d[i].seq)]
    BY <1>2, <1>4, <2>1, <2>2, <2>4 DEF CatchUp
  <2>7. Len(C) = m
    BY <2>5, <2>6
  <2>8. \A i \in 1 .. m : C[i].seq = hist[k + i - 1].seq /\ C[i].data = hist[k + i - 1].data
    BY <2>5, <2>6 DEF Frame
  <2>9. \A i \in 1 .. m : k + i - 1 \in 1 .. n /\ hist[k + i - 1].seq # 0
    <3>1. \A i \in 1 .. m : k + i - 1 \in 1 .. n
      BY <1>0, <2>5
    <3> QED
      BY <1>1, <3>1
  <2>10. ASSUME NEW f \in Items(C)
         PROVE  f.seq # 0 /\ \E h \in Items(hist) : h.seq = f.seq /\ h.data = f.data
    <3>1. PICK i \in 1 .. m : f = C[i]
      BY <2>7 DEF Items
    <3>2. PICK h : h = hist[k + i - 1]
      OBVIOUS
    <3>3. h \in Items(hist)
      BY <1>0, <2>9, <3>2 DEF Items
    <3>4. h.seq = f.seq /\ h.data = f.data /\ f.seq # 0
      BY <2>8, <2>9, <3>1, <3>2
    <3> QED
      BY <3>3, <3>4
  <2>11. ASSUME NEW h \in Items(hist)
         PROVE  h.seq <= ls \/ \E f \in Items(C) : f.seq = h.seq /\ f.data = h.data
    <3>1. PICK j \in 1 .. n : h = hist[j]
      BY <1>0 DEF Items
    <3>2. CASE j \in 1 .. (k - 1)
      BY <2>3, <3>1, <3>2
    <3>3. CASE ~ (j \in 1 .. (k - 1))
      <4>1. PICK i : i = j - k + 1
        OBVIOUS
      <4>2. i \in 1 .. m /\ k + i - 1 = j
        BY <1>0, <2>5, <3>3, <4>1
      <4>3. C[i] \in Items(C) /\ C[i].seq = h.seq /\ C[i].data = h.data
        BY <2>7, <2>8, <3>1, <4>2 DEF Items
      <4> QED
        BY <4>3
    <3> QED
      BY <3>2, <3>3
  <2> QED
    BY <2>1, <2>10, <2>11 DEF Covers
<1>5. CASE /\ ~ (claim # Null /\ claim >= LatestSeq)
           /\ ~ (claim # Null /\ hist # <<>> /\ claim >= hist[1].seq - 1)
  <2>1. PICK s : s = Frame(0, FullSnapshot(hist), LatestSeq)
    OBVIOUS
  <2>2. C = <<s>> /\ s.seq = 0 /\ s.data = FullSnapshot(hist)
    BY <1>2, <1>5, <2>1 DEF CatchUp, Frame
  <2>3. Items(C) = {s}
    BY <2>2 DEF Items
  <2>4. \A h \in Items(hist) : h.data \subseteq s.data
    BY <2>2 DEF Items, FullSnapshot
  <2> QED
    BY <2>2, <2>3, <2>4 DEF Covers
<1> QED
  BY <1>3, <1>4, <1>5

\* Nothing happens to b, or to the client.
Idle(b) ==
  /\ prime'[b] = prime[b] /\ rx'[b] = rx[b] /\ lost'[b] = lost[b] /\ ep'[b] = ep[b]
  /\ bst'[b] = "open" <=> bst[b] = "open"
  /\ lastSeq'[b] = lastSeq[b] /\ aid'[b] = aid[b] /\ view'[b] = view[b]
ClientSame == cid' = cid /\ hist' = hist /\ next' = next

\* The connection of b goes; with it the screen, when the page remounts.
Closing(b) ==
  /\ bst'[b] = "closed" /\ prime'[b] = <<>> /\ rx'[b] = <<>> /\ lost'[b] = lost[b]
  /\ lastSeq'[b] = lastSeq[b] /\ aid'[b] = aid[b]
  /\ view'[b] = view[b] \/ (view'[b] = <<>> /\ remounts' # 0)
  /\ ClientSame \/ cid' = 0

\* b takes the frame f.
Taking(b, f) ==
  /\ bst[b] = "open" /\ bst'[b] = bst[b] /\ ep'[b] = ep[b] /\ lost'[b] = lost[b]
  /\ ClientSame
  /\ Paint(b, f)
  /\ \/ prime[b] # <<>> /\ f = Head(prime[b]) /\ prime'[b] = Tail(prime[b]) /\ rx'[b] = rx[b]
     \/ /\ prime[b] = <<>> /\ prime'[b] = <<>>
        /\ rx[b] # <<>> /\ f = Head(rx[b]) /\ rx'[b] = Tail(rx[b])

\* What a step is to browser b.
LEMMA StepOf ==
  ASSUME TypeOK, ResumerWaits, [Next]_vars, NEW b \in Browsers
  PROVE  \/ Idle(b) /\ (ClientSame \/ Connected)
         \/ Closing(b)
         \/ Attach(b)
         \/ ReadStdout
         \/ \E f : Taking(b, f)
<1>0. /\ bst \in [Browsers -> {"closed", "upgraded", "open"}]
      /\ ep \in [Browsers -> Nat] /\ aid \in [Browsers -> Nat]
      /\ lastSeq \in [Browsers -> Nat \cup {Null}]
      /\ prime \in [Browsers -> Seq(Frames)] /\ rx \in [Browsers -> Seq(Frames)]
      /\ view \in [Browsers -> Seq(Frames)]
      /\ remounts \in Nat
  BY ServerAssumption DEF TypeOK, WsTypeOK, PageTypeOK, FaultTypeOK, ServerAssumption
<1>1. CASE Connected
  <2>1. bst'[b] = "open" <=> bst[b] = "open"
    BY <1>0, <1>1 DEF Connected, ResumerWaits
  <2> QED
    BY <1>1, <2>1 DEF Connected, pageVars, Idle
<1>2. CASE ResumeFailed
  <2>1. bst'[b] = "open" <=> bst[b] = "open"
    BY <1>0, <1>2 DEF ResumeFailed, ResumerWaits
  <2> QED
    BY <1>2, <2>1 DEF ResumeFailed, clientVars, pageVars, Idle, ClientSame
<1>3. CASE Restart
  BY <1>3 DEF Restart, pageVars, Closing
<1>4. ASSUME NEW a \in Browsers, Attach(a), a # b PROVE Idle(b) /\ ClientSame
  BY <1>0, <1>4 DEF Attach, clientVars, pageVars, Idle, ClientSame
<1>5. ASSUME NEW a \in Browsers, Receive(a) PROVE (Idle(b) /\ ClientSame) \/ \E f : Taking(b, f)
  <2>1. CASE a = b
    <3>1. /\ bst[b] = "open" /\ bst'[b] = bst[b] /\ ep'[b] = ep[b] /\ lost'[b] = lost[b]
          /\ ClientSame
      BY <1>5, <2>1 DEF Receive, clientVars, ClientSame
    <3>2. ASSUME prime[b] # <<>>, Paint(b, Head(prime[b])),
                 prime' = [prime EXCEPT ![b] = Tail(@)], rx' = rx
          PROVE  Taking(b, Head(prime[b]))
      BY <1>0, <3>1, <3>2 DEF Taking
    <3>3. ASSUME prime[b] = <<>>, rx[b] # <<>>, Paint(b, Head(rx[b])),
                 rx' = [rx EXCEPT ![b] = Tail(@)], prime' = prime
          PROVE  Taking(b, Head(rx[b]))
      BY <1>0, <3>1, <3>3 DEF Taking
    <3> QED
      BY <1>5, <2>1, <3>2, <3>3 DEF Receive
  <2>2. CASE a # b
    <3>1. \A f : Paint(a, f) =>
            lastSeq'[b] = lastSeq[b] /\ aid'[b] = aid[b] /\ view'[b] = view[b]
      BY <1>0, <2>2 DEF Paint
    <3>2. lastSeq'[b] = lastSeq[b] /\ aid'[b] = aid[b] /\ view'[b] = view[b]
      BY <1>5, <3>1 DEF Receive
    <3>3. prime'[b] = prime[b] /\ rx'[b] = rx[b]
      BY <1>0, <1>5, <2>2 DEF Receive
    <3> QED
      BY <1>5, <3>2, <3>3 DEF Receive, clientVars, Idle, ClientSame
  <2> QED
    BY <2>1, <2>2
<1>6. ASSUME NEW a \in Browsers, Drop(a) \/ Remount(a)
      PROVE  Closing(b) \/ (Idle(b) /\ ClientSame)
  <2>1. /\ ClientSame /\ lost' = lost /\ lastSeq' = lastSeq /\ aid' = aid
        /\ view' = view \/ (view' = [view EXCEPT ![a] = <<>>] /\ remounts' # 0)
    BY <1>0, <1>6 DEF Drop, Remount, clientVars, pageVars, ClientSame
  <2>2. Disconnect(a)
    BY <1>6 DEF Drop, Remount
  <2>3. CASE a = b
    BY <1>0, <2>1, <2>2, <2>3 DEF Disconnect, Closing
  <2>4. CASE a # b
    BY <1>0, <2>1, <2>2, <2>4 DEF Disconnect, Idle
  <2> QED
    BY <2>3, <2>4
<1>7. ASSUME NEW a \in Browsers, Upgrade(a) PROVE Idle(b) /\ ClientSame
  <2>1. bst'[b] = "open" <=> bst[b] = "open"
    BY <1>0, <1>7 DEF Upgrade
  <2> QED
    BY <1>7, <2>1 DEF Upgrade, clientVars, pageVars, Idle, ClientSame
<1>8. CASE DaemonStep
  BY <1>8 DEF DaemonStep, serverVars, clientVars, wsVars, pageVars, Idle, ClientSame
<1>9. CASE \E who \in Browsers \cup {Nobody} : Resume(who)
  BY <1>9 DEF Resume, clientVars, wsVars, pageVars, Idle, ClientSame
<1>10. CASE ReadExit \/ ReadEof
  BY <1>10 DEF ReadExit, ReadEof, wsVars, pageVars, Idle, ClientSame
<1>11. CASE UNCHANGED vars
  BY <1>11 DEF vars, serverVars, clientVars, wsVars, pageVars, Idle, ClientSame
<1> QED
  BY <1>1, <1>2, <1>3, <1>4, <1>5, <1>6, <1>7, <1>8, <1>9, <1>10, <1>11 DEF Next

\* What a step does to the output that is still owed; no step takes remounts back.
LEMMA StepMoves ==
  ASSUME [Next]_vars
  PROVE  Moves
<1>1. ASSUME UNCHANGED <<out, unsent, dq>> PROVE Moves
  BY <1>1 DEF Moves
<1>2. ASSUME dq' = <<>>, unsent' = 0 \/ unsent' = unsent, out' = out PROVE Moves
  BY <1>2 DEF Moves, Emptied
<1>3. CASE PtyRead \/ PtyBroadcast \/ ChildExit
  BY <1>3 DEF Moves
<1>4. CASE DaemonGone
  BY <1>2, <1>4 DEF DaemonGone
<1>5. ASSUME NEW who \in Browsers \cup {Nobody}, Resume(who) PROVE Moves
  BY <1>2, <1>5 DEF Resume, Accept
<1>6. CASE Connected \/ ResumeFailed
  BY <1>1, <1>6 DEF Connected, ResumeFailed
<1>7. CASE ReadStdout
  BY <1>7 DEF ReadStdout, Moves, ItemTaken
<1>8. CASE ReadExit \/ Restart
  BY <1>2, <1>8 DEF ReadExit, Restart
<1>9. CASE ReadEof
  BY <1>1, <1>9 DEF ReadEof, daemonVars
<1>10. ASSUME NEW b \in Browsers, Upgrade(b) \/ Attach(b) \/ Receive(b) \/ Drop(b) \/ Remount(b)
       PROVE  Moves
  BY <1>1, <1>10 DEF Upgrade, Attach, Receive, Drop, Remount, daemonVars
<1>11. CASE UNCHANGED vars
  BY <1>1, <1>11 DEF vars, daemonVars
<1> QED
  BY <1>3, <1>4, <1>5, <1>6, <1>7, <1>8, <1>9, <1>10, <1>11 DEF Next, DaemonStep

LEMMA RemountsGrow ==
  ASSUME TypeOK, [Next]_vars, remounts' = 0
  PROVE  remounts = 0
<1>1. remounts \in Nat
  BY ServerAssumption DEF TypeOK, FaultTypeOK, ServerAssumption
<1>2. remounts' \in {remounts, remounts + 1}
  BY DEF Next, DaemonStep, Resume, Connected, ResumeFailed, ReadStdout, ReadExit, ReadEof,
         Restart, Upgrade, Attach, Receive, Drop, Remount, vars, serverVars, faultVars
<1> QED
  BY <1>1, <1>2

\* What painting f does to the frames b shows.
LEMMA PaintItems ==
  ASSUME TypeOK, NEW b \in Browsers, NEW f \in Frames, Paint(b, f)
  PROVE  /\ f.kind = "hello" => view'[b] = view[b] /\ lastSeq'[b] = f.seq /\ aid'[b] = f.id
         /\ f.kind = "chunk" =>
              /\ Items(view'[b]) = {f} \cup (IF f.seq = 0 THEN {} ELSE Items(view[b]))
              /\ lastSeq'[b] = (IF f.seq = 0 THEN Null ELSE f.seq)
              /\ aid'[b] = aid[b]
<1>1. /\ lastSeq \in [Browsers -> Nat \cup {Null}] /\ view \in [Browsers -> Seq(Frames)]
      /\ view[b] \in Seq(Frames)
  BY DEF TypeOK, PageTypeOK
<1>2. ASSUME f.kind = "chunk"
      PROVE  Items(view'[b]) = {f} \cup (IF f.seq = 0 THEN {} ELSE Items(view[b]))
  <2>1. view'[b] = IF f.seq = 0 THEN <<f>> ELSE Append(view[b], f)
    BY <1>1, <1>2 DEF Paint
  <2>2. Items(<<f>>) = {f}
    BY DEF Items
  <2>3. Items(Append(view[b], f)) = Items(view[b]) \cup {f}
    BY <1>1, ItemsAppended
  <2> QED
    BY <2>1, <2>2, <2>3
<1> QED
  BY <1>2, PaintEffect

\* The frame b takes: a hello ends the catch-up; a chunk is painted; what is
\* still on its way is later.
Took(b, f) ==
  /\ f.seq \in Nat /\ f.kind \in {"hello", "chunk"}
  /\ f.kind = "hello" =>
       /\ OnTheWay(b)' = OnTheWay(b) /\ ~ Redrawn(b)
       /\ view'[b] = view[b] /\ lastSeq'[b] = f.seq /\ aid'[b] = ep[b]
  /\ f.kind = "chunk" =>
       /\ ChunkFrame(f)
       /\ OnTheWay(b) = {f} \cup OnTheWay(b)'
       /\ Items(view'[b]) = {f} \cup (IF f.seq = 0 THEN {} ELSE Items(view[b]))
       /\ lastSeq'[b] = (IF f.seq = 0 THEN Null ELSE f.seq)
       /\ aid'[b] = aid[b]
  /\ \A g \in OnTheWay(b)' : g.seq # 0 /\ f.seq < g.seq

\* The head f of a queue q of chunks in order, none a snapshot.
LEMMA HeadOfLive ==
  ASSUME NEW b \in Browsers, TypeOK, LiveInOrder(b), rx[b] # <<>>
  PROVE  /\ Head(rx[b]) \in Frames /\ ChunkFrame(Head(rx[b])) /\ Head(rx[b]).seq # 0
         /\ \A g \in Items(Tail(rx[b])) : g.seq # 0 /\ Head(rx[b]).seq < g.seq
<1>0. PICK q \in Seq(Frames) : q = rx[b]
  BY BrowserTypes
<1>1. PICK t : q = rx[b] /\ t = Tail(q)
  BY <1>0
<1>2. /\ 1 \in 1 .. Len(q) /\ Head(q) = q[1] /\ q[1] \in Frames
      /\ \A i \in 1 .. Len(t) : i + 1 \in 1 .. Len(q) /\ t[i] = q[i + 1]
      /\ Len(t) \in Nat
  BY <1>1, QueueTaken, LenProperties
<1>3. \A i \in 1 .. Len(q) : ChunkFrame(q[i]) /\ q[i].seq # 0
  BY <1>1 DEF LiveInOrder
<1>4. \A i, j \in 1 .. Len(q) : i < j => q[i].seq < q[j].seq
  BY <1>1 DEF LiveInOrder
<1>5. ASSUME NEW g \in Items(t) PROVE g.seq # 0 /\ q[1].seq < g.seq
  <2>1. PICK i \in 1 .. Len(t) : g = t[i]
    BY DEF Items
  <2>2. PICK j : j = i + 1
    OBVIOUS
  <2>3. j \in 1 .. Len(q) /\ g = q[j] /\ 1 < j
    BY <1>2, <2>1, <2>2
  <2> QED
    BY <1>2, <1>3, <1>4, <2>3
<1> QED
  BY <1>1, <1>2, <1>3, <1>5

LEMMA LiveFrames ==
  ASSUME NEW b \in Browsers, TypeOK, LiveInOrder(b)
  PROVE  /\ Chunks(rx[b]) = Items(rx[b])
         /\ \A g \in Items(rx[b]) :
              /\ g \in Frames /\ ChunkFrame(g) /\ g.seq # 0
              /\ prime[b] # <<>> => prime[b][Len(prime[b])].seq < g.seq
              /\ ep[b] = cid => g.seq < next
<1>1. PICK q \in Seq(Frames) : q = rx[b]
  BY BrowserTypes
<1>2. ASSUME NEW g \in Items(q)
      PROVE  /\ g \in Frames /\ ChunkFrame(g) /\ g.seq # 0
             /\ prime[b] # <<>> => prime[b][Len(prime[b])].seq < g.seq
             /\ ep[b] = cid => g.seq < next
  <2>1. PICK i \in 1 .. Len(q) : g = q[i]
    BY DEF Items
  <2>2. q[i] \in Frames
    BY ElementOfSeq
  <2> QED
    BY <1>1, <2>1, <2>2 DEF LiveInOrder
<1>3. Chunks(q) = Items(q)
  BY <1>2 DEF Chunks, ChunkFrame
<1> QED
  BY <1>1, <1>2, <1>3

\* The head of the catch-up: either the hello, which is alone, or a chunk below
\* what follows.
LEMMA HeadOfPrime ==
  ASSUME NEW b \in Browsers, TypeOK, PrimeInOrder(b), prime[b] # <<>>,
         NEW f, f = Head(prime[b])
  PROVE  /\ f \in Frames
         /\ f.kind = "hello" => Chunks(prime[b]) = {} /\ Tail(prime[b]) = <<>> /\ f.id = ep[b]
                                  /\ f = prime[b][Len(prime[b])]
         /\ f.kind = "chunk" =>
              /\ ChunkFrame(f)
              /\ Chunks(prime[b]) = {f} \cup Chunks(Tail(prime[b]))
              /\ f.seq <= prime[b][Len(prime[b])].seq
         /\ \A g \in Chunks(Tail(prime[b])) : g.seq # 0 /\ f.seq < g.seq
<1>0. PICK q \in Seq(Frames), n \in Nat : q = prime[b] /\ n = Len(q)
  BY BrowserTypes
<1>1. PICK t : q = prime[b] /\ t = Tail(q) /\ n = Len(q)
  BY <1>0
<1>2. /\ 1 \in 1 .. n /\ f = q[1] /\ f \in Frames
      /\ Len(t) = n - 1 /\ t \in Seq(Frames)
      /\ \A i \in 1 .. Len(t) : i + 1 \in 1 .. n /\ t[i] = q[i + 1]
  BY <1>1, QueueTaken
<1>3. /\ q[n].kind = "hello" /\ q[n].id = ep[b]
      /\ \A i \in 1 .. (n - 1) : ChunkFrame(q[i]) /\ q[i].top <= q[n].seq
  BY <1>1, <1>2 DEF PrimeInOrder
<1>4. \A i, j \in 1 .. (n - 1) : i < j => q[i].top < q[j].seq
  BY <1>1, <1>2 DEF PrimeInOrder
<1>5. /\ \A i \in 1 .. n : q[i].seq \in Nat /\ q[i].top \in Nat
      /\ f.seq \in Nat /\ f.top \in Nat /\ q[n].seq \in Nat
  <2>1. \A i \in 1 .. n : q[i].seq \in Nat /\ q[i].top \in Nat
    BY <1>1, FrameFields
  <2>2. n \in 1 .. n
    BY <1>2
  <2> QED
    BY <1>2, <2>1, <2>2
<1>6. Items(q) = {f} \cup Items(t)
  BY <1>1, <1>2, ItemsTaken
<1>7. CASE n = 1
  <2>1. t = <<>>
    BY <1>2, <1>7, EmptySeq
  <2>2. Items(t) = {}
    BY <1>2, <1>7 DEF Items
  <2>3. f.kind = "hello" /\ f = q[n] /\ f.id = ep[b]
    BY <1>2, <1>3, <1>7
  <2>4. Chunks(q) = {} /\ Chunks(t) = {}
    BY <1>6, <2>2, <2>3 DEF Chunks
  <2> QED
    BY <1>1, <1>2, <2>1, <2>3, <2>4
<1>8. CASE n # 1
  <2>1. 1 \in 1 .. (n - 1)
    BY <1>2, <1>8
  <2>2. ChunkFrame(f) /\ f.top <= q[n].seq /\ f.kind = "chunk"
    BY <1>2, <1>3, <2>1 DEF ChunkFrame
  <2>3. f.seq <= f.top
    BY <1>2, <1>5, <2>2 DEF ChunkFrame
  <2>4. ASSUME NEW g \in Chunks(t) PROVE g.seq # 0 /\ f.seq < g.seq
    <3>1. PICK i \in 1 .. Len(t) : g = t[i] /\ g.kind = "chunk"
      BY DEF Chunks, Items
    <3>2. PICK j : j = i + 1
      OBVIOUS
    <3>3. j \in 1 .. n /\ g = q[j] /\ 1 < j
      BY <1>2, <3>1, <3>2
    <3>4. j \in 1 .. (n - 1)
      BY <1>3, <3>1, <3>3
    <3>5. f.top < g.seq /\ g.seq \in Nat
      BY <1>2, <1>4, <1>5, <2>1, <3>3, <3>4
    <3> QED
      BY <1>5, <2>3, <3>5
  <2>5. Chunks(q) = {f} \cup Chunks(t)
    BY <1>6, <2>2 DEF Chunks
  <2>6. f.seq <= q[n].seq
    BY <1>5, <2>2, <2>3
  <2> QED
    BY <1>1, <1>2, <2>2, <2>4, <2>5, <2>6
<1> QED
  BY <1>7, <1>8

LEMMA TakingEffect ==
  ASSUME TypeOK, NEW b \in Browsers, Streams(b), NEW f, Taking(b, f)
  PROVE  Took(b, f)
<1>1. PrimeInOrder(b) /\ LiveInOrder(b)
  BY DEF Streams
<1>2. PICK P, Q, R, T : P = prime[b] /\ Q = prime'[b] /\ R = rx[b] /\ T = rx'[b]
  OBVIOUS
<1>3. PICK W, X : W = OnTheWay(b) /\ X = OnTheWay(b)'
  OBVIOUS
<1>4. W = Chunks(P) \cup Chunks(R) /\ X = Chunks(Q) \cup Chunks(T)
  BY <1>2, <1>3 DEF OnTheWay
<1>5. Redrawn(b) <=> \E g \in W : g.seq = 0
  BY <1>3 DEF Redrawn
<1>6. \A g \in Items(R) : g \in Frames /\ g.seq # 0 /\ (P # <<>> => P[Len(P)].seq < g.seq)
  BY <1>1, <1>2, LiveFrames
<1>7. CASE P # <<>> /\ f = Head(P) /\ Q = Tail(P) /\ T = R
  <2>1. /\ f \in Frames
        /\ f.kind = "hello" => Chunks(P) = {} /\ Q = <<>> /\ f.id = ep[b] /\ f = P[Len(P)]
        /\ f.kind = "chunk" =>
             ChunkFrame(f) /\ Chunks(P) = {f} \cup Chunks(Q) /\ f.seq <= P[Len(P)].seq
        /\ \A g \in Chunks(Q) : g.seq # 0 /\ f.seq < g.seq
    BY <1>1, <1>2, <1>7, HeadOfPrime
  <2>2. f.seq \in Nat /\ f.kind \in {"hello", "chunk"}
    BY <2>1 DEF Frames
  <2>3. P[Len(P)].seq \in Nat
    <3>1. PICK n \in Nat : n = Len(P)
      BY <1>2, BrowserTypes
    <3>2. P \in Seq(Frames) /\ n # 0
      BY <1>2, <1>7, <3>1, BrowserTypes, EmptySeq
    <3>3. n \in 1 .. Len(P)
      BY <3>1, <3>2
    <3> QED
      BY <3>1, <3>2, <3>3, FrameFields
  <2>4. \A g \in Items(R) : g.seq # 0 /\ f.seq < g.seq
    <3>1. f.seq <= P[Len(P)].seq
      BY <2>1, <2>2, <2>3
    <3>2. \A g \in Items(R) : g.seq \in Nat
      BY <1>6 DEF Frames
    <3> QED
      BY <1>6, <1>7, <2>2, <2>3, <3>1, <3>2
  <2>5. Chunks(R) \in SUBSET Items(R)
    BY DEF Chunks
  <2>6. \A g \in X : g.seq # 0 /\ f.seq < g.seq
    BY <1>4, <1>7, <2>1, <2>4, <2>5
  <2>7. Paint(b, f)
    BY DEF Taking
  <2>8. CASE f.kind = "hello"
    <3>1. Chunks(Q) = {}
      BY <2>1, <2>8 DEF Chunks, Items
    <3>2. X = W
      BY <1>4, <1>7, <2>1, <2>8, <3>1
    <3>3. ~ Redrawn(b)
      BY <1>5, <2>6, <3>2
    <3> QED
      BY <1>3, <2>1, <2>2, <2>6, <2>7, <2>8, <3>2, <3>3, PaintItems DEF Took
  <2>9. CASE f.kind = "chunk"
    <3>1. W = {f} \cup X
      BY <1>4, <1>7, <2>1, <2>9
    <3> QED
      BY <1>3, <2>1, <2>2, <2>6, <2>7, <2>9, <3>1, PaintItems DEF Took
  <2> QED
    BY <2>2, <2>8, <2>9
<1>8. CASE P = <<>> /\ Q = <<>> /\ R # <<>> /\ f = Head(R) /\ T = Tail(R)
  <2>1. /\ f \in Frames /\ ChunkFrame(f) /\ f.seq # 0 /\ f.kind = "chunk"
        /\ \A g \in Items(T) : g.seq # 0 /\ f.seq < g.seq
    BY <1>1, <1>2, <1>8, HeadOfLive DEF ChunkFrame
  <2>2. f.seq \in Nat /\ R \in Seq(Frames)
    BY <1>2, <2>1, BrowserTypes DEF Frames
  <2>3. Items(R) = {f} \cup Items(T)
    BY <1>8, <2>2, ItemsTaken
  <2>4. Chunks(P) = {} /\ Chunks(Q) = {} /\ Chunks(R) = {f} \cup Chunks(T)
    <3>1. Items(P) = {} /\ Items(Q) = {}
      BY <1>8 DEF Items
    <3>2. f.kind = "chunk"
      BY <2>1
    <3> QED
      BY <2>3, <3>1, <3>2, Zenon DEF Chunks
  <2>5. W = {f} \cup X
    BY <1>4, <2>4
  <2>6. \A g \in X : g.seq # 0 /\ f.seq < g.seq
    BY <1>4, <2>1, <2>4 DEF Chunks
  <2>7. Paint(b, f)
    BY DEF Taking
  <2> QED
    BY <1>3, <2>1, <2>2, <2>5, <2>6, <2>7, PaintItems DEF Took
<1> QED
  BY <1>2, <1>7, <1>8 DEF Taking

\* attach() for b: what is on its way is the catch-up for b's claim.
Attached(b) ==
  /\ ClientSame
  /\ bst'[b] = "open" /\ ep'[b] = cid /\ cid # 0 /\ lost'[b] = lost[b]
  /\ lastSeq'[b] = lastSeq[b] /\ aid'[b] = aid[b] /\ view'[b] = view[b]
  /\ \A f \in OnTheWay(b)' : ChunkFrame(f)
  /\ Covers(OnTheWay(b)', lastSeq[b], aid[b])

LEMMA AttachEffect ==
  ASSUME TypeOK, HistorySeqs, NEW b \in Browsers, Attach(b)
  PROVE  Attached(b)
<1>1. lastSeq[b] \in Nat \cup {Null} /\ cid \in Nat /\ next \in Nat \ {0}
  BY BrowserTypes
<1>2. PICK C, h : C = CatchUp(lastSeq[b], aid[b]) /\ h = HelloFrame(LatestSeq, cid)
  OBVIOUS
<1>3. /\ prime'[b] = Append(C, h) /\ rx'[b] = <<>> /\ bst'[b] = "open" /\ ep'[b] = cid
      /\ ClientSame /\ view'[b] = view[b] /\ lastSeq'[b] = lastSeq[b] /\ aid'[b] = aid[b]
      /\ cid # 0 /\ lost'[b] = lost[b]
  BY <1>2 DEF Attach, TypeOK, WsTypeOK, clientVars, pageVars, ClientSame
<1>4. C \in Seq(Frames) /\ \A i \in 1 .. Len(C) : ChunkFrame(C[i])
  BY <1>1, <1>2, CatchUpShape
<1>5. \A f \in Items(C) : ChunkFrame(f) /\ f.kind = "chunk"
  BY <1>4 DEF Items, ChunkFrame
<1>6. h \in Frames /\ h.kind = "hello"
  BY <1>1, <1>2 DEF HelloFrame, Frames, LatestSeq
<1>7. Items(Append(C, h)) = Items(C) \cup {h}
  BY <1>4, <1>6, ItemsAppended
<1>8. Items(<<>>) = {}
  BY DEF Items
<1>9. OnTheWay(b)' = Items(C)
  BY <1>3, <1>5, <1>6, <1>7, <1>8 DEF OnTheWay, Chunks
<1>10. Covers(Items(C), lastSeq[b], aid[b])
  BY <1>1, <1>2, CatchUpCovers
<1> QED
  BY <1>3, <1>5, <1>9, <1>10 DEF Attached

\* History::append adds an entry and maybe drops others.
LEMMA HistAppendItems ==
  ASSUME NEW h \in Seq(Entry), NEW s \in Nat \ {0}, NEW d \in SUBSET (1 .. MaxOut),
         NEW e, e = [seq |-> s, data |-> d]
  PROVE  Items(HistAppend(h, s, d)) \subseteq Items(h) \cup {e}
<1>1. e \in Entry
  BY DEF Entry
<1>2. PICK k \in 1 .. (Len(h) + 1) : HistAppend(h, s, d) = SuffixFrom(Append(h, e), k)
  BY HistAppendShape
<1>3. PICK t \in Seq(Entry) : t = Append(h, e) /\ Len(t) = Len(h) + 1
  BY <1>1, AppendProperties
<1>4. k \in 1 .. (Len(t) + 1)
  <2>1. Len(h) \in Nat
    BY LenProperties
  <2> QED
    BY <1>2, <1>3, <2>1
<1>5. Items(SuffixFrom(t, k)) \in SUBSET Items(t)
  BY <1>4, ItemsOfSuffix
<1>6. Items(t) = Items(h) \cup {e}
  BY <1>1, <1>3, ItemsAppended
<1> QED
  BY <1>2, <1>3, <1>5, <1>6

\* The reader task sends the frame f to b, if b listens, and enters e into the history.
ReadFor(b, f, e) ==
  /\ f.kind = "chunk" /\ f.seq = next /\ f.top = next /\ f.data = {Head(dq)}
  /\ e.seq = next /\ e.data = {Head(dq)}
  /\ cid' = cid /\ next' = next + 1
  /\ Items(hist') \subseteq Items(hist) \cup {e}
  /\ bst'[b] = bst[b] /\ ep'[b] = ep[b]
  /\ lastSeq'[b] = lastSeq[b] /\ aid'[b] = aid[b] /\ view'[b] = view[b]
  /\ Redrawn(b)' <=> Redrawn(b)
  /\ lost[b] \subseteq lost'[b]
  /\ \/ /\ bst[b] = "open" /\ ep[b] = cid
        /\ \E gone : /\ Sent(OnTheWay(b)', OnTheWay(b), f, gone)
                     /\ \A g \in gone : g.data \subseteq lost'[b]
     \/ ~ (bst[b] = "open" /\ ep[b] = cid) /\ OnTheWay(b)' = OnTheWay(b)

LEMMA ReadEffect ==
  ASSUME TypeOK, NEW b \in Browsers, Streams(b), ReadStdout
  PROVE  \E f, e : ReadFor(b, f, e)
<1>1. /\ rx \in [Browsers -> Seq(Frames)] /\ lost \in [Browsers -> SUBSET (1 .. MaxOut)]
      /\ hist \in Seq(Entry) /\ next \in Nat \ {0} /\ WsCap \in Nat \ {0} /\ MaxOut \in Nat
      /\ dq \in Seq(0 .. MaxOut)
  BY ServerAssumption, DaemonAssumption
     DEF TypeOK, WsTypeOK, ClientTypeOK, DaemonTypeOK, ServerAssumption, DaemonAssumption
<1>2. /\ dq # <<>> /\ Head(dq) # Exit
      /\ hist' = HistAppend(hist, next, {Head(dq)})
      /\ cid' = cid /\ next' = next + 1 /\ bst' = bst /\ ep' = ep /\ prime' = prime
      /\ lastSeq' = lastSeq /\ aid' = aid /\ view' = view
  BY DEF ReadStdout, pageVars
<1>3. PICK c : c = Head(dq)
  OBVIOUS
<1>4. c \in 1 .. MaxOut
  <2>1. c \in 0 .. MaxOut
    BY <1>1, <1>2, <1>3, QueueTaken
  <2> QED
    BY <1>1, <1>2, <1>3, <2>1 DEF Exit
<1>5. PICK f, e : f = Frame(next, {c}, next) /\ e = [seq |-> next, data |-> {c}]
  OBVIOUS
<1>6. /\ f \in Frames /\ e \in Entry /\ f.kind = "chunk" /\ f.seq = next /\ f.top = next
      /\ f.data = {c} /\ e.seq = next /\ e.data = {c}
  BY <1>1, <1>4, <1>5 DEF Frame, Frames, Entry
<1>7. Items(hist') \subseteq Items(hist) \cup {e}
  <2>1. PICK d \in SUBSET (1 .. MaxOut) : d = {c}
    BY <1>4
  <2>2. e = [seq |-> next, data |-> d] /\ hist' = HistAppend(hist, next, d)
    BY <1>2, <1>3, <1>5, <2>1
  <2>3. hist \in Seq(Entry) /\ next \in Nat \ {0}
    BY <1>1
  <2>4. Items(HistAppend(hist, next, d)) \subseteq Items(hist) \cup {e}
    BY <2>2, <2>3, HistAppendItems
  <2> QED
    BY <2>2, <2>4
<1>8. Chunks(rx[b]) = Items(rx[b]) /\ \A g \in Items(rx[b]) : g.seq # 0
  BY LiveFrames DEF Streams
<1>9. CASE bst[b] = "open" /\ ep[b] = cid
  <2>1. /\ rx'[b] = Push(rx[b], f, WsCap)
        /\ lost'[b] = lost[b] \cup UNION {g.data : g \in Skipped(rx[b], WsCap)}
    BY <1>1, <1>3, <1>5, <1>9 DEF ReadStdout
  <2>2. PICK old, new, gone : old = Items(rx[b]) /\ new = Items(rx'[b]) /\ gone = Skipped(rx[b], WsCap)
    OBVIOUS
  <2>3. Sent(new, old, f, gone)
    BY <1>1, <1>6, <2>1, <2>2, ItemsPushed
  <2>4. Chunks(rx'[b]) = new /\ Chunks(rx[b]) = old /\ \A g \in new : g.seq # 0
    <3>1. \A g \in new : g.kind = "chunk" /\ g.seq # 0
      BY <1>1, <1>6, <1>8, <2>2, <2>3 DEF Sent, Chunks
    <3> QED
      BY <1>8, <2>2, <3>1 DEF Chunks
  <2>5. OnTheWay(b)' = Chunks(prime[b]) \cup new /\ OnTheWay(b) = Chunks(prime[b]) \cup old
    BY <1>2, <2>4 DEF OnTheWay
  <2>6. Sent(OnTheWay(b)', OnTheWay(b), f, gone)
    BY <2>3, <2>5 DEF Sent
  <2>7. Redrawn(b)' <=> Redrawn(b)
    BY <1>8, <2>2, <2>4, <2>5 DEF Redrawn
  <2>8. lost[b] \subseteq lost'[b] /\ \A g \in gone : g.data \subseteq lost'[b]
    BY <2>1, <2>2
  <2>9. ReadFor(b, f, e)
    BY <1>2, <1>3, <1>6, <1>7, <1>9, <2>6, <2>7, <2>8 DEF ReadFor
  <2> QED
    BY <2>9
<1>10. CASE ~ (bst[b] = "open" /\ ep[b] = cid)
  <2>1. rx'[b] = rx[b] /\ lost'[b] = lost[b]
    BY <1>1, <1>10 DEF ReadStdout
  <2>2. OnTheWay(b)' = OnTheWay(b)
    BY <1>2, <2>1 DEF OnTheWay
  <2>3. Redrawn(b)' <=> Redrawn(b)
    BY <2>2 DEF Redrawn
  <2>4. ReadFor(b, f, e)
    BY <1>2, <1>3, <1>6, <1>7, <1>10, <2>1, <2>2, <2>3 DEF ReadFor
  <2> QED
    BY <2>4
<1> QED
  BY <1>9, <1>10

-----------------------------------------------------------------------------
(* An honoured cursor is true *)

\* What b has had when its screen stays, and when f is painted.
LEMMA HadKept ==
  ASSUME NEW b, view'[b] = view[b], lost[b] \subseteq lost'[b]
  PROVE  Had(b) \subseteq Had(b)'
BY DEF Had, Shown

LEMMA HadPainted ==
  ASSUME NEW b, NEW f, lost'[b] = lost[b],
         Items(view'[b]) = {f} \cup (IF f.seq = 0 THEN {} ELSE Items(view[b]))
  PROVE  /\ f.data \subseteq Had(b)' /\ lost[b] \subseteq Had(b)'
         /\ f.seq # 0 => Had(b) \subseteq Had(b)'
<1>1. Had(b) = (UNION {g.data : g \in Items(view[b])}) \cup lost[b]
  BY DEF Had, Shown, Items
<1>2. Had(b)' = (UNION {g.data : g \in Items(view'[b])}) \cup lost[b]
  BY DEF Had, Shown, Items
<1> QED
  BY <1>1, <1>2

\* Coming from what is on its way.
LEMMA ComingKept ==
  ASSUME NEW b, NEW h, NEW f, Coming(b, h)
  PROVE  /\ OnTheWay(b) \subseteq OnTheWay(b)' => Coming(b, h)'
         /\ OnTheWay(b) \subseteq {f} \cup OnTheWay(b)' =>
              Coming(b, h)' \/ (f.seq \in {0, h.seq} /\ h.data \subseteq f.data)
BY DEF Coming

\* A frame is taken: the cursor moves up to what is painted with it, and the rest
\* that is on its way is later.
LEMMA ClaimTaken ==
  ASSUME TypeOK, EpochsInOrder, NEW b \in Browsers, NEW f, Taking(b, f), Took(b, f),
         Claimed(b), Arriving(b)
  PROVE  Claimed(b)' /\ Arriving(b)'
<1>1. /\ bst[b] = "open" /\ bst'[b] = bst[b] /\ ep'[b] = ep[b] /\ lost'[b] = lost[b]
      /\ cid' = cid /\ hist' = hist
  BY DEF Taking, ClientSame
<1>2. PICK H : H = Items(hist) /\ H = Items(hist)'
  BY <1>1
<1>3. /\ cid \in Nat /\ epochs \in Nat /\ ep[b] \in Nat /\ aid[b] \in Nat
      /\ cid \in {0, epochs} /\ ep[b] <= epochs /\ aid[b] <= ep[b]
  BY <1>1, BrowserTypes DEF EpochsInOrder
<1>4. aid[b] = cid /\ cid # 0 => ep[b] = cid
  BY <1>3
<1>5. \A h \in H : h.seq \in Nat \ {0}
  <2>1. hist \in Seq(Entry)
    BY DEF TypeOK, ClientTypeOK
  <2>2. Items(hist) \in SUBSET Entry
    BY <2>1, ItemsOf
  <2> QED
    BY <1>2, <2>2 DEF Entry
<1>6. /\ f.seq \in Nat /\ f.kind \in {"hello", "chunk"}
      /\ \A g \in OnTheWay(b)' : g.seq # 0 /\ f.seq < g.seq
  BY DEF Took
<1>7. ~ Redrawn(b)'
  BY <1>6 DEF Redrawn
<1>8. ASSUME NEW h \in H, Coming(b, h)' PROVE f.seq < h.seq
  BY <1>6, <1>8 DEF Coming
<1>9. ep[b] = cid => \A h \in H :
        \/ h.data \subseteq lost[b]
        \/ Coming(b, h)
        \/ ~ Redrawn(b) /\ h.data \subseteq Had(b)
  BY <1>1, <1>2 DEF Arriving
<1>10. CASE f.kind = "hello"
  <2>1. /\ OnTheWay(b)' = OnTheWay(b) /\ view'[b] = view[b]
        /\ lastSeq'[b] = f.seq /\ aid'[b] = ep[b]
    BY <1>10 DEF Took
  <2>2. Had(b) \subseteq Had(b)' /\ lost[b] \subseteq Had(b)'
    BY <1>1, <2>1, HadKept DEF Had
  <2>3. \A h \in H : Coming(b, h) => Coming(b, h)'
    BY <2>1, ComingKept
  <2>4. Arriving(b)'
    BY <1>1, <1>2, <1>7, <1>9, <2>2, <2>3 DEF Arriving
  <2>5. ASSUME ep[b] = cid, NEW h \in H, h.seq <= f.seq PROVE h.data \subseteq Had(b)'
    <3>1. ~ Coming(b, h)'
      BY <1>5, <1>6, <1>8, <2>5
    <3> QED
      BY <1>9, <2>2, <2>3, <2>5, <3>1
  <2> QED
    BY <1>1, <1>2, <2>1, <2>4, <2>5 DEF Claimed
<1>11. CASE f.kind = "chunk"
  <2>1. /\ OnTheWay(b) = {f} \cup OnTheWay(b)'
        /\ Items(view'[b]) = {f} \cup (IF f.seq = 0 THEN {} ELSE Items(view[b]))
        /\ lastSeq'[b] = (IF f.seq = 0 THEN Null ELSE f.seq)
        /\ aid'[b] = aid[b]
    BY <1>11 DEF Took
  <2>2. /\ f.data \subseteq Had(b)' /\ lost[b] \subseteq Had(b)'
        /\ f.seq # 0 => Had(b) \subseteq Had(b)'
    BY <1>1, <2>1, HadPainted
  <2>3. \A h \in H : Coming(b, h) =>
          Coming(b, h)' \/ (f.seq \in {0, h.seq} /\ h.data \subseteq f.data)
    BY <2>1, ComingKept
  <2>4. ~ Redrawn(b) => f.seq # 0
    BY <2>1 DEF Redrawn
  <2>5. ep[b] = cid => \A h \in H : h.data \subseteq lost[b] \/ Coming(b, h)' \/ h.data \subseteq Had(b)'
    BY <1>9, <2>2, <2>3, <2>4
  <2>6. Arriving(b)'
    BY <1>1, <1>2, <1>7, <2>5 DEF Arriving
  <2>7. ASSUME ep[b] = cid, f.seq # 0, NEW h \in H, h.seq <= f.seq PROVE h.data \subseteq Had(b)'
    <3>1. ~ Coming(b, h)'
      BY <1>5, <1>6, <1>8, <2>7
    <3> QED
      BY <2>2, <2>5, <2>7, <3>1
  <2> QED
    BY <1>1, <1>2, <1>4, <2>1, <2>6, <2>7 DEF Claimed
<1> QED
  BY <1>6, <1>10, <1>11

LEMMA ClaimAttached ==
  ASSUME TypeOK, NEW b \in Browsers, Attached(b), Claimed(b)
  PROVE  Claimed(b)' /\ Arriving(b)'
<1>1. /\ cid' = cid /\ hist' = hist /\ cid # 0 /\ lost'[b] = lost[b]
      /\ lastSeq'[b] = lastSeq[b] /\ aid'[b] = aid[b] /\ view'[b] = view[b]
  BY DEF Attached, ClientSame
<1>2. PICK H, X : H = Items(hist) /\ H = Items(hist)' /\ X = OnTheWay(b)'
  BY <1>1
<1>3. Had(b)' = Had(b)
  BY <1>1 DEF Had, Shown
<1>4. Claimed(b)'
  BY <1>1, <1>2, <1>3 DEF Claimed
<1>5. Covers(X, lastSeq[b], aid[b])
  BY <1>2 DEF Attached
<1>6. ASSUME NEW h \in H
      PROVE  Coming(b, h)' \/ (~ Redrawn(b)' /\ h.data \subseteq Had(b))
  <2>1. CASE \E f \in X : f.seq = 0
    <3>1. PICK f \in X : f.seq = 0 /\ h.data \subseteq f.data
      BY <1>2, <1>5, <2>1 DEF Covers
    <3> QED
      BY <1>2, <3>1 DEF Coming
  <2>2. CASE \A f \in X : f.seq # 0
    <3>1. ~ Redrawn(b)'
      BY <1>2, <2>2 DEF Redrawn
    <3>2. /\ aid[b] = cid /\ lastSeq[b] # Null
          /\ h.seq <= lastSeq[b] \/ \E f \in X : f.seq = h.seq /\ f.data = h.data
      BY <1>2, <1>5, <2>2 DEF Covers
    <3>3. CASE h.seq <= lastSeq[b]
      BY <1>1, <1>2, <3>1, <3>2, <3>3 DEF Claimed
    <3>4. CASE \E f \in X : f.seq = h.seq /\ f.data = h.data
      BY <1>2, <3>4 DEF Coming
    <3> QED
      BY <3>2, <3>3, <3>4
  <2> QED
    BY <2>1, <2>2
<1> QED
  BY <1>2, <1>3, <1>4, <1>6 DEF Arriving

LEMMA ClaimRead ==
  ASSUME TypeOK, NEW b \in Browsers, ScreenInOrder(b), NEW f, NEW e, ReadFor(b, f, e),
         Claimed(b), Arriving(b)
  PROVE  Claimed(b)' /\ Arriving(b)'
<1>1. /\ cid' = cid /\ bst'[b] = bst[b] /\ ep'[b] = ep[b]
      /\ Redrawn(b)' <=> Redrawn(b)
      /\ lastSeq'[b] = lastSeq[b] /\ aid'[b] = aid[b] /\ view'[b] = view[b]
      /\ lost[b] \subseteq lost'[b]
      /\ f.seq = next /\ f.data = {Head(dq)} /\ e.seq = next /\ e.data = {Head(dq)}
  BY DEF ReadFor
<1>2. PICK H, J : H = Items(hist) /\ J = Items(hist)' /\ J \subseteq H \cup {e}
  BY DEF ReadFor
<1>3. Had(b) \subseteq Had(b)' /\ lost'[b] \subseteq Had(b)'
  BY <1>1, HadKept DEF Had
<1>4. Claimed(b)'
  <2>1. aid[b] = cid /\ cid # 0 /\ lastSeq[b] # Null => lastSeq[b] < next
    BY DEF ScreenInOrder
  <2>2. lastSeq[b] \in Nat \cup {Null} /\ next \in Nat
    BY BrowserTypes
  <2>3. aid[b] = cid /\ cid # 0 /\ lastSeq[b] # Null => ~ (e.seq <= lastSeq[b])
    BY <1>1, <2>1, <2>2
  <2> QED
    BY <1>1, <1>2, <1>3, <2>3 DEF Claimed
<1>5. CASE bst[b] = "open" /\ ep[b] = cid
  <2>1. PICK gone : /\ Sent(OnTheWay(b)', OnTheWay(b), f, gone)
                    /\ \A g \in gone : g.data \subseteq lost'[b]
    BY <1>5 DEF ReadFor
  <2>2. Coming(b, e)'
    BY <1>1, <2>1 DEF Sent, Coming
  <2>3. ASSUME NEW h \in H, Coming(b, h) PROVE Coming(b, h)' \/ h.data \subseteq lost'[b]
    <3>1. PICK g \in OnTheWay(b) : g.seq \in {0, h.seq} /\ h.data \subseteq g.data
      BY <2>3 DEF Coming
    <3>2. g \in OnTheWay(b)' \/ g \in gone
      BY <2>1, <3>1 DEF Sent
    <3>3. CASE g \in OnTheWay(b)'
      BY <3>1, <3>3 DEF Coming
    <3>4. CASE g \in gone
      BY <2>1, <3>1, <3>4
    <3> QED
      BY <3>2, <3>3, <3>4
  <2>4. \A h \in H :
          \/ h.data \subseteq lost[b]
          \/ Coming(b, h)
          \/ ~ Redrawn(b) /\ h.data \subseteq Had(b)
    BY <1>2, <1>5 DEF Arriving
  <2>5. \A h \in H :
          \/ h.data \subseteq lost'[b]
          \/ Coming(b, h)'
          \/ ~ Redrawn(b)' /\ h.data \subseteq Had(b)'
    BY <1>1, <1>3, <2>3, <2>4
  <2>6. Arriving(b)'
    BY <1>2, <2>2, <2>5 DEF Arriving
  <2> QED
    BY <1>4, <2>6
<1>6. CASE ~ (bst[b] = "open" /\ ep[b] = cid)
  BY <1>1, <1>4, <1>6 DEF Arriving
<1> QED
  BY <1>5, <1>6

\* A step keeps the cursor of b true, as long as no page has remounted.
LEMMA ClaimStep ==
  ASSUME IInv, [Next]_vars, remounts' = 0, NEW b \in Browsers, Claimed(b), Arriving(b)
  PROVE  Claimed(b)' /\ Arriving(b)'
<1>1. TypeOK /\ HistorySeqs /\ ResumerWaits /\ EpochsInOrder /\ Streams(b)
  BY DEF IInv, Streams
<1>2. cid \in Nat /\ epochs \in Nat /\ ep[b] \in Nat /\ aid[b] \in Nat
  BY <1>1, BrowserTypes
<1>3. CASE Idle(b) /\ ClientSame
  <2>1. Had(b)' = Had(b) /\ OnTheWay(b)' = OnTheWay(b) /\ Redrawn(b)' = Redrawn(b)
    BY <1>3 DEF Idle, Had, Shown, OnTheWay, Redrawn
  <2>2. \A h : Coming(b, h)' <=> Coming(b, h)
    BY <2>1 DEF Coming
  <2> QED
    BY <1>3, <2>1, <2>2 DEF Idle, ClientSame, Claimed, Arriving
<1>4. CASE Idle(b) /\ Connected
  <2>1. cid' = epochs + 1 /\ ep'[b] = ep[b] /\ aid'[b] = aid[b]
    BY <1>4 DEF Connected, Idle
  <2>2. ep[b] <= epochs /\ aid[b] <= epochs
    BY <1>1 DEF EpochsInOrder
  <2>3. ep'[b] # cid' /\ aid'[b] # cid'
    BY <1>2, <2>1, <2>2
  <2> QED
    BY <2>3 DEF Claimed, Arriving
<1>5. CASE Closing(b)
  <2>1. bst'[b] # "open"
    BY <1>5 DEF Closing
  <2>2. Arriving(b)'
    BY <2>1 DEF Arriving
  <2>3. CASE ClientSame
    <3>1. Had(b)' = Had(b)
      BY <1>5 DEF Closing, Had, Shown
    <3> QED
      BY <1>5, <2>2, <2>3, <3>1 DEF Closing, ClientSame, Claimed
  <2>4. CASE cid' = 0
    BY <2>2, <2>4 DEF Claimed
  <2> QED
    BY <1>5, <2>3, <2>4 DEF Closing
<1>6. CASE Attach(b)
  BY <1>1, <1>6, AttachEffect, ClaimAttached
<1>7. CASE ReadStdout
  <2>1. PICK f, e : ReadFor(b, f, e)
    BY <1>1, <1>7, ReadEffect
  <2> QED
    BY <1>1, <2>1, ClaimRead DEF Streams
<1>8. ASSUME NEW f, Taking(b, f) PROVE Claimed(b)' /\ Arriving(b)'
  <2>1. Took(b, f)
    BY <1>1, <1>8, TakingEffect
  <2> QED
    BY <1>1, <1>8, <2>1, ClaimTaken
<1> QED
  BY <1>1, <1>3, <1>4, <1>5, <1>6, <1>7, <1>8, StepOf

ClaimsTrue == remounts = 0 => \A b \in Browsers : Claimed(b) /\ Arriving(b)

LEMMA ClaimsAlways == Spec => []ClaimsTrue
<1>1. Init => ClaimsTrue
  <2> SUFFICES ASSUME Init, NEW b \in Browsers PROVE Claimed(b) /\ Arriving(b)
    BY DEF ClaimsTrue
  <2> QED
    BY DEF Init, Claimed, Arriving
<1>2. IInv /\ ClaimsTrue /\ [Next]_vars => ClaimsTrue'
  <2> SUFFICES ASSUME IInv, ClaimsTrue, [Next]_vars, remounts' = 0, NEW b \in Browsers
               PROVE  Claimed(b)' /\ Arriving(b)'
    BY DEF ClaimsTrue
  <2>1. remounts = 0
    BY RemountsGrow DEF IInv
  <2> QED
    BY <2>1, ClaimStep DEF ClaimsTrue
<1> QED
  BY <1>1, <1>2, InvariantCorrect, PTL DEF Spec

\* A cursor the server would honour never claims what the screen does not have (attach()
\* computes the catch-up from it), unless a page has replaced its xterm: a remount
\* empties the screen and keeps the cursor.
THEOREM ClaimCorrect == Spec => [](remounts = 0 => ClaimIsTrue)
<1>1. IInv /\ ClaimsTrue => (remounts = 0 => ClaimIsTrue)
  <2> SUFFICES ASSUME IInv, ClaimsTrue, remounts = 0, NEW b \in Browsers,
                      aid[b] = cid, cid # 0, lastSeq[b] # Null
               PROVE  /\ lastSeq[b] <= LatestSeq
                      /\ \A i \in 1 .. Len(hist) :
                           hist[i].seq <= lastSeq[b] => hist[i].data \subseteq Shown(b) \cup lost[b]
    BY DEF ClaimIsTrue
  <2>1. lastSeq[b] < next
    BY DEF IInv, ScreenInOrder
  <2>2. lastSeq[b] \in Nat \cup {Null} /\ next \in Nat \ {0}
    BY BrowserTypes DEF IInv
  <2>3. lastSeq[b] <= LatestSeq
    BY <2>1, <2>2 DEF LatestSeq
  <2>4. \A h \in Items(hist) : h.seq <= lastSeq[b] => h.data \subseteq Had(b)
    BY DEF ClaimsTrue, Claimed
  <2> QED
    BY <2>3, <2>4 DEF Items, Had
<1> QED
  BY <1>1, ClaimsAlways, InvariantCorrect, PTL

-----------------------------------------------------------------------------
(* Output is painted twice only at the seam of the handshake *)

\* Every frame of T is a snapshot or one of S, perhaps in another guise.
Resembles(T, S) == \A f \in T : f.seq = 0 \/ \E g \in S : g.seq = f.seq /\ g.data = f.data

\* Frames and entries with numbers.
Numbered(S) == \A f \in S : f.seq \in Nat /\ f.data \in SUBSET (1 .. MaxOut)

LEMMA RisesResemble ==
  ASSUME NEW S, NEW T, Resembles(T, S), Numbered(T), AllRise(S)
  PROVE  AllRise(T)
<1>1. SUFFICES ASSUME NEW f \in T, NEW g \in T, f.seq > 1, f.seq < g.seq,
                      NEW x \in f.data, NEW y \in g.data
               PROVE  x < y
  BY DEF AllRise, Rises
<1>2. f.seq # 0 /\ g.seq # 0
  BY <1>1 DEF Numbered
<1>3. PICK h \in S : h.seq = f.seq /\ h.data = f.data
  BY <1>2 DEF Resembles
<1>4. PICK k \in S : k.seq = g.seq /\ k.data = g.data
  BY <1>2 DEF Resembles
<1> QED
  BY <1>1, <1>3, <1>4 DEF AllRise, Rises

LEMMA PrecedeResemble ==
  ASSUME NEW S, NEW T, Resembles(T, S), Numbered(T), Precede(S)
  PROVE  Precede(T)
<1>1. SUFFICES ASSUME NEW f \in T, f.seq > 1, NEW x \in f.data PROVE Awaited(x)
  BY DEF Precede
<1>2. f.seq # 0
  BY <1>1 DEF Numbered
<1>3. PICK h \in S : h.seq = f.seq /\ h.data = f.data
  BY <1>2 DEF Resembles
<1> QED
  BY <1>1, <1>3 DEF Precede

LEMMA SubsetResembles ==
  ASSUME NEW S, NEW T, T \subseteq S
  PROVE  Resembles(T, S)
BY DEF Resembles

\* What came before all that is owed still does.
LEMMA PrecedeKept ==
  ASSUME DaemonTypeOK, Moves, NEW S, Numbered(S), Precede(S)
  PROVE  Precede(S)'
<1>1. \A f \in S : f.seq > 1 => \A x \in f.data : Awaited(x)'
  <2>1. SUFFICES ASSUME NEW f \in S, f.seq > 1, NEW x \in f.data PROVE Awaited(x)'
    OBVIOUS
  <2>2. x \in Nat /\ Awaited(x)
    BY <2>1, DaemonAssumption DEF Numbered, Precede, DaemonAssumption
  <2> QED
    BY <2>2, AwaitedKept
<1> QED
  BY <1>1 DEF Precede

\* The chunk that is taken from the queue comes after all that did, and before what is owed now.
LEMMA TakenRises ==
  ASSUME DaemonTypeOK, LinesInOrder, ItemTaken, NEW S, Numbered(S), AllRise(S), Precede(S),
         NEW n \in Nat, \A g \in S : g.seq < n,
         NEW e, e.seq = n, e.data = {Head(dq)}, NEW f, f.seq = n, f.data = {Head(dq)}
  PROVE  AllRise(S \cup {e, f}) /\ Precede(S \cup {e, f})'
<1>1. PICK c, t : c = Head(dq) /\ t = Tail(dq)
  OBVIOUS
<1>2. /\ dq # <<>> /\ c # Exit /\ dq \in Seq(0 .. MaxOut)
      /\ 1 \in 1 .. Len(dq) /\ c = dq[1] /\ c \in 0 .. MaxOut
  <2>1. dq # <<>> /\ c # Exit /\ dq \in Seq(0 .. MaxOut)
    BY <1>1 DEF ItemTaken, DaemonTypeOK
  <2>2. 1 \in 1 .. Len(dq) /\ Head(dq) = dq[1] /\ dq[1] \in 0 .. MaxOut
    BY <1>1, <2>1, QueueTaken
  <2> QED
    BY <1>1, <2>1, <2>2
<1>3. ASSUME NEW g \in S \cup {e, f}, NEW h \in S \cup {e, f} PROVE Rises(g, h)
  <2>1. SUFFICES ASSUME g.seq > 1, g.seq < h.seq, NEW x \in g.data, NEW y \in h.data
                 PROVE  x < y
    BY DEF Rises
  <2>2. g \in S
    <3>1. \A k \in S \cup {e, f} : k.seq \in Nat /\ k.seq <= n
      BY DEF Numbered
    <3> QED
      BY <2>1, <3>1
  <2>3. CASE h \in S
    BY <2>1, <2>2, <2>3 DEF AllRise, Rises
  <2>4. CASE h \in {e, f}
    <3>1. y = c
      BY <1>1, <2>1, <2>4
    <3>2. Awaited(x)
      BY <2>1, <2>2 DEF Precede
    <3> QED
      BY <1>2, <3>1, <3>2 DEF Awaited
  <2> QED
    BY <2>3, <2>4
<1>4. AllRise(S \cup {e, f})
  BY <1>3 DEF AllRise
<1>5. Moves
  BY DEF Moves
<1>6. Precede(S)'
  BY <1>5, PrecedeKept
<1>7. Awaited(c)'
  BY <1>1, LineAwaited
<1>8. Precede(S \cup {e, f})'
  BY <1>1, <1>6, <1>7 DEF Precede
<1> QED
  BY <1>4, <1>8

\* All that b shows or will show has numbers, and those of the live client's are below next.
LEMMA OutputNumbered ==
  ASSUME TypeOK, NEW b \in Browsers
  PROVE  Numbered(Items(view[b])) /\ Numbered(OnTheWay(b)) /\ Numbered(Items(hist))
<1>1. /\ Items(view[b]) \in SUBSET Frames /\ Items(prime[b]) \in SUBSET Frames
      /\ Items(rx[b]) \in SUBSET Frames
  BY BrowserTypes, ItemsOf
<1>2. hist \in Seq(Entry)
  BY DEF TypeOK, ClientTypeOK
<1>3. Items(hist) \in SUBSET Entry
  BY <1>2, ItemsOf
<1>4. OnTheWay(b) \in SUBSET Frames
  BY <1>1 DEF OnTheWay, Chunks
<1> QED
  BY <1>1, <1>3, <1>4 DEF Numbered, Frames, Entry

LEMMA OfClientNumbered ==
  ASSUME TypeOK, NEW b \in Browsers
  PROVE  Numbered(OfClient(b) \cup Items(hist)) /\ Numbered(Destined(b))
BY OutputNumbered DEF Numbered, OfClient, Destined

LEMMA BelowNext ==
  ASSUME IInv, NEW b \in Browsers, cid # 0, \A f \in Items(view[b]) : ChunkFrame(f)
  PROVE  \A g \in OfClient(b) \cup Items(hist) : g.seq < next
<1>1. /\ TypeOK /\ HistorySeqs /\ PrimeInOrder(b) /\ LiveInOrder(b) /\ ScreenInOrder(b)
  BY DEF IInv
<1>2. PICK V, P \in Seq(Frames), n \in Nat, m \in Nat \ {0} :
        V = view[b] /\ P = prime[b] /\ n = Len(P) /\ m = next
  BY <1>1, BrowserTypes
<1>3. lastSeq[b] \in Nat \cup {Null}
  BY <1>1, BrowserTypes
<1>4. ASSUME NEW h \in Items(hist) PROVE h.seq < next
  <2>1. PICK i \in 1 .. Len(hist) : h = hist[i]
    BY DEF Items
  <2>2. PICK k \in Nat : k = Len(hist)
    BY <1>1, LenProperties DEF TypeOK, ClientTypeOK
  <2>3. h.seq = m - 1 - k + i
    BY <1>1, <1>2, <2>1, <2>2 DEF HistorySeqs, HistoryWindow
  <2> QED
    BY <1>2, <2>1, <2>2, <2>3
<1>5. ASSUME NEW i \in 1 .. Len(V), V[i].top < m PROVE V[i].seq < m
  <2>1. ChunkFrame(V[i]) /\ V[i].seq \in Nat
    BY <1>2, FrameFields DEF Items
  <2> QED
    BY <1>2, <1>5, <2>1 DEF ChunkFrame
<1>6. ASSUME aid[b] = cid, lastSeq[b] # Null, NEW g \in Items(V) PROVE g.seq < m
  <2>1. PICK i \in 1 .. Len(V) : g = V[i]
    BY DEF Items
  <2>2. V[i].top <= lastSeq[b] /\ lastSeq[b] < m
    BY <1>1, <1>2, <1>6 DEF ScreenInOrder
  <2>3. V[i].top \in Nat
    BY <1>2, FrameFields
  <2>4. V[i].top < m
    BY <1>2, <1>3, <1>6, <2>2, <2>3
  <2> QED
    BY <1>5, <2>1, <2>4
<1>7. ASSUME ep[b] = cid, NEW g \in OnTheWay(b) PROVE g.seq < m
  <2>1. CASE g \in Chunks(rx[b])
    BY <1>1, <1>2, <1>7, <2>1, LiveFrames DEF Chunks
  <2>2. CASE g \in Chunks(P)
    <3>1. PICK i \in 1 .. n : g = P[i] /\ g.kind = "chunk"
      BY <1>2, <2>2 DEF Chunks, Items
    <3>2. P # <<>> /\ n \in 1 .. n
      BY <1>2, <3>1
    <3>3. P[n].kind = "hello" /\ P[n].seq < m
      BY <1>1, <1>2, <1>7, <3>2 DEF PrimeInOrder
    <3>4. i \in 1 .. (n - 1)
      BY <1>2, <3>1, <3>3
    <3>5. ChunkFrame(g) /\ g.top <= P[n].seq
      BY <1>1, <1>2, <3>1, <3>2, <3>4 DEF PrimeInOrder
    <3>6. g.seq \in Nat /\ g.top \in Nat /\ P[n].seq \in Nat
      BY <1>2, <3>1, <3>2, FrameFields
    <3> QED
      BY <1>2, <3>3, <3>5, <3>6 DEF ChunkFrame
  <2> QED
    BY <1>2, <1>7, <2>1, <2>2 DEF OnTheWay
<1>8. ASSUME bst[b] = "open", ep[b] = cid, ~ Redrawn(b), NEW g \in Items(V) PROVE g.seq < m
  <2>1. PICK i \in 1 .. Len(V) : g = V[i]
    BY DEF Items
  <2>2. V[i].top \in Nat
    BY <1>2, FrameFields
  <2>3. CASE P = <<>>
    <3>1. V[i].top < m
      BY <1>1, <1>2, <1>8, <2>3 DEF ScreenInOrder
    <3> QED
      BY <1>5, <2>1, <3>1
  <2>4. CASE P # <<>>
    <3>1. 1 \in 1 .. n /\ n \in 1 .. n
      BY <1>2, <2>4, EmptySeq
    <3>2. P[1].kind \in {"chunk", "hello"} /\ P[n].seq \in Nat
      BY <1>2, <3>1, FrameFields
    <3>3. P[1].kind = "hello" \/ P[1].seq # 0
      BY <1>2, <1>8, <3>1, <3>2 DEF Redrawn, OnTheWay, Chunks, Items
    <3>4. V[i].top <= P[n].seq
      BY <1>1, <1>2, <2>4, <3>3 DEF ScreenInOrder
    <3>5. P[n].seq < m
      BY <1>1, <1>2, <1>8, <2>4 DEF PrimeInOrder
    <3>6. V[i].top < m
      BY <1>2, <2>2, <3>2, <3>4, <3>5
    <3> QED
      BY <1>5, <2>1, <3>6
  <2> QED
    BY <2>3, <2>4
<1> QED
  BY <1>2, <1>4, <1>6, <1>7, <1>8 DEF OfClient, Destined

\* What b's connection and page become keeps the order when they add nothing.
LEMMA RisesShrink ==
  ASSUME TypeOK, NEW b \in Browsers, OutputRises(b), Moves, TypeOK',
         cid' = cid, Items(hist)' = Items(hist),
         AllRise(Items(view[b]))', \A f \in Items(view[b])' : ChunkFrame(f),
         Destined(b)' \subseteq Destined(b) \/ Destined(b)' \subseteq Items(view[b]),
         cid # 0 => OfClient(b)' \subseteq OfClient(b)
  PROVE  OutputRises(b)'
<1>1. PICK S, T, D, E, V, W :
        /\ S = OfClient(b) \cup Items(hist) /\ T = (OfClient(b) \cup Items(hist))'
        /\ D = Destined(b) /\ E = Destined(b)'
        /\ V = Items(view[b]) /\ W = Items(view[b])'
  OBVIOUS
<1>2. /\ AllRise(V) /\ AllRise(D)
      /\ cid # 0 => AllRise(S) /\ Precede(S)
  BY <1>1 DEF OutputRises
<1>3. AllRise(E)
  BY <1>1, <1>2 DEF AllRise
<1>4. ASSUME cid # 0 PROVE AllRise(T) /\ Precede(T)'
  <2>1. T \subseteq S
    BY <1>1, <1>4
  <2>2. Numbered(S)
    BY <1>1, OfClientNumbered
  <2>3. Precede(S)'
    BY <1>2, <1>4, <2>2, PrecedeKept DEF TypeOK
  <2> QED
    BY <1>2, <1>4, <2>1, <2>3 DEF AllRise, Precede
<1> QED
  BY <1>1, <1>3, <1>4 DEF OutputRises, AllRise

\* b attaches: what is on its way are entries of the history, or a snapshot.
LEMMA RisesAttached ==
  ASSUME TypeOK, TypeOK', NEW b \in Browsers, OutputRises(b), Moves, Attached(b)
  PROVE  OutputRises(b)'
<1>1. /\ cid' = cid /\ hist' = hist /\ cid # 0
      /\ lastSeq'[b] = lastSeq[b] /\ aid'[b] = aid[b] /\ view'[b] = view[b]
  BY DEF Attached, ClientSame
<1>2. PICK S, T, E, V, X, H :
        /\ S = OfClient(b) \cup Items(hist) /\ T = (OfClient(b) \cup Items(hist))'
        /\ E = Destined(b)' /\ V = Items(view[b]) /\ X = OnTheWay(b)' /\ H = Items(hist)
  OBVIOUS
<1>3. /\ AllRise(V) /\ AllRise(S) /\ Precede(S) /\ \A f \in V : ChunkFrame(f)
  BY <1>1, <1>2 DEF OutputRises
<1>4. Items(view[b])' = V /\ Items(hist)' = H /\ H \subseteq S
  BY <1>1, <1>2
<1>5. Covers(X, lastSeq[b], aid[b])
  BY <1>2 DEF Attached
<1>6. Resembles(X, S)
  BY <1>2, <1>4, <1>5 DEF Covers, Resembles
<1>7. Redrawn(b)' \/ V \subseteq S
  <2>1. CASE \A f \in X : f.seq # 0
    <3>1. aid[b] = cid /\ lastSeq[b] # Null
      BY <1>5, <2>1 DEF Covers
    <3> QED
      BY <1>2, <3>1 DEF OfClient
  <2>2. CASE \E f \in X : f.seq = 0
    BY <1>2, <2>2 DEF Redrawn
  <2> QED
    BY <2>1, <2>2
<1>8. E = X \cup (IF Redrawn(b)' THEN {} ELSE V)
  BY <1>2, <1>4 DEF Destined
<1>9. Resembles(E, S)
  BY <1>6, <1>7, <1>8 DEF Resembles
<1>10. T \subseteq (IF aid[b] = cid /\ lastSeq[b] # Null THEN V ELSE {}) \cup E \cup H
  BY <1>1, <1>2, <1>4 DEF OfClient
<1>11. Resembles(T, S)
  <2>1. (IF aid[b] = cid /\ lastSeq[b] # Null THEN V ELSE {}) \subseteq S
    BY <1>2 DEF OfClient
  <2> QED
    BY <1>4, <1>9, <1>10, <2>1 DEF Resembles
<1>12. Numbered(E) /\ Numbered(T)
  <2>1. (Numbered(OfClient(b) \cup Items(hist)) /\ Numbered(Destined(b)))'
    BY OfClientNumbered, PTL
  <2> QED
    BY <1>2, <2>1
<1>13. AllRise(E) /\ AllRise(T)
  BY <1>3, <1>9, <1>11, <1>12, RisesResemble
<1>14. Precede(T)'
  <2>1. Precede(T)
    BY <1>3, <1>11, <1>12, PrecedeResemble
  <2> QED
    BY <1>12, <2>1, PrecedeKept DEF TypeOK
<1> QED
  BY <1>2, <1>3, <1>4, <1>13, <1>14 DEF OutputRises

\* The reader task takes a chunk: it is later than all that went before.
LEMMA RisesRead ==
  ASSUME IInv, LinesInOrder, ReadStdout, NEW b \in Browsers, OutputRises(b),
         NEW f, NEW e, ReadFor(b, f, e)
  PROVE  OutputRises(b)'
<1>1. TypeOK /\ EpochsInOrder /\ DaemonTypeOK /\ next \in Nat /\ ItemTaken
  BY DEF IInv, TypeOK, ClientTypeOK, ReadStdout, ItemTaken
<1>2. /\ cid' = cid /\ bst'[b] = bst[b] /\ ep'[b] = ep[b]
      /\ lastSeq'[b] = lastSeq[b] /\ aid'[b] = aid[b] /\ view'[b] = view[b]
      /\ Redrawn(b)' <=> Redrawn(b)
      /\ f.seq = next /\ f.data = {Head(dq)} /\ e.seq = next /\ e.data = {Head(dq)}
      /\ Items(hist') \subseteq Items(hist) \cup {e}
  BY DEF ReadFor
<1>3. PICK S, T, D, E, V, X, Y :
        /\ S = OfClient(b) \cup Items(hist) /\ T = (OfClient(b) \cup Items(hist))'
        /\ D = Destined(b) /\ E = Destined(b)' /\ V = Items(view[b])
        /\ X = OnTheWay(b) /\ Y = OnTheWay(b)'
  OBVIOUS
<1>4. /\ AllRise(V) /\ AllRise(D) /\ \A g \in V : ChunkFrame(g)
      /\ cid # 0 => AllRise(S) /\ Precede(S)
  BY <1>3 DEF OutputRises
<1>5. /\ D = X \cup (IF Redrawn(b) THEN {} ELSE V)
      /\ E = Y \cup (IF Redrawn(b) THEN {} ELSE V)
  BY <1>2, <1>3 DEF Destined
<1>6. \/ bst[b] = "open" /\ ep[b] = cid /\ Y \subseteq X \cup {f}
      \/ ~ (bst[b] = "open" /\ ep[b] = cid) /\ Y = X
  BY <1>3 DEF ReadFor, Sent
<1>7. E \subseteq D \cup {f}
  BY <1>5, <1>6
<1>8. T \subseteq S \cup {e, f}
  BY <1>2, <1>3, <1>7 DEF OfClient
<1>9. CASE cid = 0
  <2>1. ~ (bst[b] = "open" /\ ep[b] = cid)
    BY <1>1, <1>9 DEF EpochsInOrder
  <2>2. E = D
    BY <1>5, <1>6, <2>1
  <2> QED
    BY <1>2, <1>3, <1>4, <1>9, <2>2 DEF OutputRises
<1>10. CASE cid # 0
  <2>1. Numbered(S) /\ \A g \in S : g.seq < next
    BY <1>1, <1>3, <1>4, <1>10, OfClientNumbered, BelowNext
  <2>2. AllRise(S \cup {e, f}) /\ Precede(S \cup {e, f})'
    BY <1>1, <1>2, <1>4, <1>10, <2>1, TakenRises
  <2>3. AllRise(T) /\ Precede(T)'
    BY <1>8, <2>2 DEF AllRise, Precede
  <2>4. AllRise(E)
    <3>1. CASE bst[b] = "open" /\ ep[b] = cid
      <4>1. D \subseteq S
        BY <1>3, <3>1 DEF OfClient
      <4> QED
        BY <1>7, <2>2, <4>1 DEF AllRise
    <3>2. CASE ~ (bst[b] = "open" /\ ep[b] = cid)
      BY <1>4, <1>5, <1>6, <3>2
    <3> QED
      BY <3>1, <3>2
  <2> QED
    BY <1>2, <1>3, <1>4, <2>3, <2>4 DEF OutputRises
<1> QED
  BY <1>9, <1>10

\* b takes a frame: what it will show was its to show before.
LEMMA RisesTaken ==
  ASSUME TypeOK, TypeOK', EpochsInOrder, Moves, NEW b \in Browsers, OutputRises(b),
         NEW f, Taking(b, f), Took(b, f)
  PROVE  OutputRises(b)'
<1>1. /\ bst[b] = "open" /\ bst'[b] = bst[b] /\ ep'[b] = ep[b]
      /\ cid' = cid /\ Items(hist)' = Items(hist)
  BY DEF Taking, ClientSame
<1>2. PICK D, E, V, W, X, Y :
        /\ D = Destined(b) /\ E = Destined(b)' /\ V = Items(view[b]) /\ W = Items(view[b])'
        /\ X = OnTheWay(b) /\ Y = OnTheWay(b)'
  OBVIOUS
<1>3. AllRise(V) /\ AllRise(D) /\ \A g \in V : ChunkFrame(g)
  BY <1>2 DEF OutputRises
<1>4. /\ cid \in Nat /\ epochs \in Nat /\ ep[b] \in Nat /\ aid[b] \in Nat
      /\ cid \in {0, epochs} /\ ep[b] <= epochs /\ aid[b] <= ep[b]
  BY <1>1, BrowserTypes DEF EpochsInOrder
<1>5. aid[b] = cid /\ cid # 0 => ep[b] = cid
  BY <1>4
<1>6. ~ Redrawn(b)'
  BY <1>2 DEF Took, Redrawn
<1>7. E = Y \cup W
  BY <1>2, <1>6 DEF Destined
<1>8. CASE f.kind = "hello"
  <2>1. Y = X /\ ~ Redrawn(b) /\ W = V /\ aid'[b] = ep[b]
    BY <1>2, <1>8 DEF Took
  <2>2. D = X \cup V /\ E = D
    BY <1>2, <1>7, <2>1 DEF Destined
  <2>3. OfClient(b)' \subseteq OfClient(b)
    BY <1>1, <1>2, <2>1, <2>2 DEF OfClient
  <2> QED
    BY <1>1, <1>2, <1>3, <2>1, <2>2, <2>3, RisesShrink
<1>9. CASE f.kind = "chunk"
  <2>1. /\ X = {f} \cup Y /\ W = {f} \cup (IF f.seq = 0 THEN {} ELSE V) /\ aid'[b] = aid[b]
        /\ ChunkFrame(f)
    BY <1>2, <1>9 DEF Took
  <2>2. f.seq # 0 => ~ Redrawn(b)
    BY <1>2, <2>1 DEF Redrawn, Took
  <2>3. X \subseteq D /\ W \subseteq D
    BY <1>2, <2>1, <2>2 DEF Destined
  <2>4. E \subseteq D
    BY <1>7, <2>1, <2>3
  <2>5. AllRise(W) /\ \A g \in W : ChunkFrame(g)
    BY <1>3, <2>1, <2>3 DEF AllRise
  <2>6. cid # 0 => OfClient(b)' \subseteq OfClient(b)
    BY <1>1, <1>2, <1>5, <2>1, <2>3, <2>4 DEF OfClient
  <2> QED
    BY <1>1, <1>2, <2>4, <2>5, <2>6, RisesShrink
<1> QED
  BY <1>8, <1>9 DEF Took

\* A new client numbers its output anew, and nobody has any of it.
LEMMA RisesConnected ==
  ASSUME TypeOK, TypeOK', EpochsInOrder, NEW b \in Browsers, OutputRises(b),
         Idle(b), Connected
  PROVE  OutputRises(b)'
<1>1. cid' = epochs + 1 /\ ep'[b] = ep[b] /\ aid'[b] = aid[b]
  BY DEF Connected, Idle
<1>2. ep[b] <= epochs /\ aid[b] <= epochs /\ epochs \in Nat /\ ep[b] \in Nat /\ aid[b] \in Nat
  BY BrowserTypes DEF EpochsInOrder
<1>3. ep'[b] # cid' /\ aid'[b] # cid'
  BY <1>1, <1>2
<1>4. OfClient(b)' = {}
  BY <1>3 DEF OfClient
<1>5. PICK H : H = Items(hist')
  OBVIOUS
<1>6. \A h \in H : h.seq = 1
  <2>1. CASE ring = <<>>
    BY <1>5, <2>1 DEF Connected, Items
  <2>2. CASE ring # <<>>
    <3>1. hist' = HistAppend(<<>>, 1, Replay)
      BY <2>2 DEF Connected
    <3>2. Replay \in SUBSET (1 .. MaxOut)
      BY ReplayChunks
    <3>3. PICK e, d : e = [seq |-> 1, data |-> d] /\ d = Replay
      OBVIOUS
    <3>4. Items(HistAppend(<<>>, 1, d)) \subseteq Items(<<>>) \cup {e}
      <4>1. d \in SUBSET (1 .. MaxOut) /\ 1 \in Nat \ {0}
        BY <3>2, <3>3
      <4>2. PICK z \in Seq(Entry) : z = <<>>
        BY EmptySeq
      <4>3. Items(HistAppend(z, 1, d)) \subseteq Items(z) \cup {e}
        BY <3>3, <4>1, HistAppendItems
      <4> QED
        BY <4>2, <4>3
    <3>5. Items(<<>>) = {} /\ e.seq = 1
      BY <3>3 DEF Items
    <3> QED
      BY <1>5, <3>1, <3>3, <3>4, <3>5
  <2> QED
    BY <2>1, <2>2
<1>7. AllRise(H) /\ Precede(H)'
  BY <1>6 DEF AllRise, Rises, Precede
<1>8. (OfClient(b) \cup Items(hist))' = H
  BY <1>4, <1>5
<1>9. /\ Items(view[b])' = Items(view[b]) /\ Destined(b)' = Destined(b)
  BY DEF Idle, Destined, OnTheWay, Redrawn
<1> QED
  BY <1>7, <1>8, <1>9 DEF OutputRises

\* A step keeps the output in order.
LEMMA RisesStep ==
  ASSUME IInv, IInv', LinesInOrder, [Next]_vars, NEW b \in Browsers, OutputRises(b)
  PROVE  OutputRises(b)'
<1>1. TypeOK /\ TypeOK' /\ HistorySeqs /\ ResumerWaits /\ EpochsInOrder /\ Streams(b) /\ Moves
  BY StepMoves DEF IInv, Streams
<1>2. CASE Idle(b) /\ ClientSame
  <2>1. /\ Items(view[b])' = Items(view[b]) /\ Destined(b)' = Destined(b)
        /\ OfClient(b)' = OfClient(b) /\ Items(hist)' = Items(hist) /\ cid' = cid
    BY <1>2 DEF Idle, Destined, OnTheWay, Redrawn, OfClient, ClientSame
  <2>2. AllRise(Items(view[b])) /\ \A f \in Items(view[b]) : ChunkFrame(f)
    BY DEF OutputRises
  <2> QED
    BY <1>1, <2>1, <2>2, RisesShrink
<1>3. CASE Idle(b) /\ Connected
  BY <1>1, <1>3, RisesConnected
<1>4. CASE Closing(b)
  <2>1. PICK V, W : V = Items(view[b]) /\ W = Items(view[b])'
    OBVIOUS
  <2>2. W \subseteq V /\ AllRise(V) /\ \A f \in V : ChunkFrame(f)
    BY <1>4, <2>1 DEF Closing, OutputRises, Items
  <2>3. OnTheWay(b)' = {}
    BY <1>4 DEF Closing, OnTheWay, Chunks, Items
  <2>4. Destined(b)' \subseteq W
    BY <2>1, <2>3 DEF Destined
  <2>5. AllRise(W) /\ AllRise(Destined(b)') /\ \A f \in W : ChunkFrame(f)
    BY <2>2, <2>4 DEF AllRise
  <2>6. CASE cid' = 0
    BY <2>1, <2>5, <2>6 DEF OutputRises
  <2>7. CASE ClientSame
    <3>1. OfClient(b)' \subseteq OfClient(b)
      BY <1>4, <2>1, <2>2, <2>7 DEF Closing, ClientSame, OfClient
    <3>2. cid' = cid /\ Items(hist)' = Items(hist)
      BY <2>7 DEF ClientSame
    <3> QED
      BY <1>1, <2>1, <2>2, <2>4, <2>5, <3>1, <3>2, RisesShrink
  <2> QED
    BY <1>4, <2>6, <2>7 DEF Closing
<1>5. CASE Attach(b)
  BY <1>1, <1>5, AttachEffect, RisesAttached
<1>6. CASE ReadStdout
  <2>1. PICK f, e : ReadFor(b, f, e)
    BY <1>1, <1>6, ReadEffect
  <2> QED
    BY <1>6, <2>1, RisesRead
<1>7. ASSUME NEW f, Taking(b, f) PROVE OutputRises(b)'
  <2>1. Took(b, f)
    BY <1>1, <1>7, TakingEffect
  <2> QED
    BY <1>1, <1>7, <2>1, RisesTaken
<1> QED
  BY <1>1, <1>2, <1>3, <1>4, <1>5, <1>6, <1>7, StepOf

OutputInOrder == LinesInOrder /\ \A b \in Browsers : OutputRises(b)

LEMMA OutputAlways == Spec => []OutputInOrder
<1>1. Init => OutputInOrder
  <2> SUFFICES ASSUME Init PROVE OutputInOrder
    OBVIOUS
  <2>1. LinesInOrder
    BY DEF Init, DaemonInit, LinesInOrder
  <2>2. ASSUME NEW b \in Browsers PROVE OutputRises(b)
    <3>1. view[b] = <<>> /\ prime[b] = <<>> /\ rx[b] = <<>> /\ cid = 0
      BY DEF Init
    <3>2. Items(view[b]) = {} /\ OnTheWay(b) = {}
      BY <3>1 DEF Items, OnTheWay, Chunks
    <3> QED
      BY <3>1, <3>2 DEF OutputRises, Destined, AllRise
  <2> QED
    BY <2>1, <2>2 DEF OutputInOrder
<1>2. IInv /\ IInv' /\ OutputInOrder /\ [Next]_vars => OutputInOrder'
  <2> SUFFICES ASSUME IInv, IInv', OutputInOrder, [Next]_vars PROVE OutputInOrder'
    OBVIOUS
  <2>1. LinesInOrder'
    BY LinesKept, StepMoves DEF IInv, TypeOK, OutputInOrder
  <2>2. (\A b \in Browsers : OutputRises(b))'
    BY RisesStep DEF OutputInOrder
  <2> QED
    BY <2>1, <2>2 DEF OutputInOrder
<1> QED
  BY <1>1, <1>2, InvariantCorrect, PTL DEF Spec

\* Two frames on a screen share output only when the first of them is the replay of a
\* handshake or a snapshot made of it: the daemon subscribes before it copies its ring.
THEOREM OverlapCorrect == Spec => []OverlapOnlyWithReplay
<1>1. IInv /\ OutputInOrder => OverlapOnlyWithReplay
  <2> SUFFICES ASSUME IInv, OutputInOrder, NEW b \in Browsers,
                      NEW i \in 1 .. Len(view[b]), NEW j \in 1 .. Len(view[b]), i < j,
                      NEW x \in view[b][i].data \cap view[b][j].data
               PROVE  view[b][i].seq \in {0, 1}
    BY DEF OverlapOnlyWithReplay
  <2>1. PICK V \in Seq(Frames) : V = view[b]
    BY BrowserTypes DEF IInv
  <2>2. V[i].top < V[j].seq
    BY <2>1 DEF IInv, ScreenInOrder
  <2>3. ChunkFrame(V[i]) /\ Rises(V[i], V[j])
    BY <2>1 DEF OutputInOrder, OutputRises, AllRise, Items
  <2>4. V[i].seq \in Nat /\ V[i].top \in Nat /\ x \in 1 .. MaxOut
    <3>1. V[i] \in Frames
      BY <2>1, FrameFields
    <3> QED
      BY <2>1, <3>1 DEF Frames
  <2>5. V[i].seq > 1 => x < x
    BY <2>1, <2>2, <2>3, <2>4 DEF ChunkFrame, Rises
  <2> QED
    BY <2>1, <2>4, <2>5, DaemonAssumption DEF DaemonAssumption
<1> QED
  BY <1>1, OutputAlways, InvariantCorrect, PTL

-----------------------------------------------------------------------------
(* Nothing that the daemon remembers is left out *)

\* How many chunks the ring holds at most: its budget, but one chunk always.
Deep == IF RingMax = 0 THEN 1 ELSE RingMax

\* The ring is the end of the output.
RingTail ==
  /\ Len(ring) <= Deep
  /\ \A i \in 1 .. Len(ring) : ring[i] = out - Len(ring) + i

\* What the daemon still owes the connection, what came over it live and is in the history,
\* and both.
Owed == (Items(dq) \cup {unsent}) \ {Exit}
Live == {x \in 1 .. MaxOut : conn = "live" /\ \E h \in Items(hist) : h.seq > 1 /\ x \in h.data}
Line == Owed \cup Live

\* From any of it on nothing is missing, but for what a lag cost.
LineWhole == conn # "none" => \A x \in Line : \A y \in x .. out : y \in Line \cup dlost

\* A live entry is one chunk; a replay is no more than the ring held.
EntrySizes ==
  \A h \in Items(hist) : /\ Cardinality(h.data) <= Deep
                         /\ h.seq > 1 => \E c \in 1 .. out : h.data = {c}

\* All that the daemon remembers is in the history or owed, but for what a lag cost.
Remembered ==
  conn = "live" =>
    /\ cid # 0
    /\ \A x \in Replay : x \in Owed \cup dlost \/ \E h \in Items(hist) : x \in h.data

\* What a step does to the daemon, its connection and the history.
DaemonMoves ==
  /\ PtyRead \/ PtyBroadcast \/ ChildExit \/ DaemonGone
  /\ cid' = cid /\ hist' = hist
Accepts == Accept /\ hist' = hist /\ cid' = cid
Quits ==
  /\ conn' = "none" /\ ring' = ring /\ out' = out /\ unsent' = unsent /\ dlost' = dlost
  /\ (hist' = hist /\ cid' = cid) \/ (hist' = <<>> /\ cid' = 0)
Rests   == UNCHANGED <<out, ring, unsent, conn, dq, dlost, cid, hist>>

LEMMA StepOfLine ==
  ASSUME [Next]_vars
  PROVE  DaemonMoves \/ Accepts \/ Connected \/ ReadStdout \/ Quits \/ Rests
<1>1. CASE DaemonStep
  BY <1>1 DEF DaemonStep, serverVars, clientVars, DaemonMoves
<1>2. ASSUME NEW who \in Browsers \cup {Nobody}, Resume(who) PROVE Accepts
  BY <1>2 DEF Resume, clientVars, Accepts
<1>3. CASE ResumeFailed \/ ReadExit \/ Restart
  BY <1>3 DEF ResumeFailed, ReadExit, Restart, clientVars, Quits
<1>4. CASE ReadEof
  BY <1>4 DEF ReadEof, daemonVars, Rests
<1>5. ASSUME NEW b \in Browsers, Upgrade(b) \/ Attach(b) \/ Receive(b) \/ Drop(b) \/ Remount(b)
      PROVE  Rests
  BY <1>5 DEF Upgrade, Attach, Receive, Drop, Remount, daemonVars, clientVars, Rests
<1>6. CASE UNCHANGED vars
  BY <1>6 DEF vars, serverVars, daemonVars, clientVars, Rests
<1> QED
  BY <1>1, <1>2, <1>3, <1>4, <1>5, <1>6 DEF Next

\* The ring stays the end of the output.
LEMMA RingTailRead ==
  ASSUME DaemonTypeOK, RingTail, PtyRead
  PROVE  RingTail'
<1>1. PICK t, n, o, r : t = Append(ring, out + 1) /\ n = Len(ring) /\ o = out + 1 /\ r = ring'
  OBVIOUS
<1>2. /\ ring \in Seq(1 .. MaxOut) /\ out \in Nat /\ MaxOut \in Nat /\ RingMax \in Nat
      /\ out < MaxOut /\ out' = o
  BY <1>1, DaemonAssumption DEF DaemonTypeOK, DaemonAssumption, PtyRead
<1>3. o \in 1 .. MaxOut /\ n \in Nat
  BY <1>1, <1>2, LenProperties
<1>4. /\ t \in Seq(1 .. MaxOut) /\ Len(t) = n + 1 /\ t[n + 1] = o
      /\ \A i \in 1 .. n : t[i] = ring[i]
  BY <1>1, <1>2, <1>3, AppendProperties
<1>5. \A i \in 1 .. (n + 1) : t[i] = o - (n + 1) + i
  <2>1. ASSUME NEW i \in 1 .. (n + 1) PROVE t[i] = o - (n + 1) + i
    <3>1. CASE i = n + 1
      BY <1>2, <1>3, <1>4, <3>1
    <3>2. CASE i \in 1 .. n
      <4>1. ring[i] = out - n + i
        BY <1>1, <3>2 DEF RingTail
      <4> QED
        BY <1>1, <1>2, <1>3, <1>4, <3>2, <4>1
    <3> QED
      BY <1>3, <3>1, <3>2
  <2> QED
    BY <2>1
<1>6. PICK ones : ones = [i \in 1 .. Len(t) |-> 1]
  OBVIOUS
<1>7. /\ ones \in Seq(Nat) /\ Len(ones) = Len(t) /\ Len(t) > 0
      /\ ones[1] = 1 /\ \A i \in 2 .. Len(t) : ones[i] = 1
  BY <1>3, <1>4, <1>6
<1>8. PICK k \in 1 .. Len(t) :
        /\ Evict(t, ones, RingMax) = SuffixFrom(t, k)
        /\ Len(t) - k + 1 <= RingMax \/ k = Len(t)
  BY <1>2, <1>4, <1>7, EvictKeeps
<1>9. r = SuffixFrom(t, k)
  BY <1>1, <1>6, <1>8 DEF PtyRead, RingAppend
<1>10. k \in 1 .. (Len(t) + 1)
  BY <1>3, <1>4
<1>11. /\ Len(r) = Len(t) - k + 1
       /\ \A i \in 1 .. (Len(t) - k + 1) : r[i] = t[k + i - 1]
  BY <1>4, <1>9, <1>10, SuffixProperties
<1>12. Len(r) <= Deep
  BY <1>2, <1>3, <1>4, <1>8, <1>11 DEF Deep
<1>13. ASSUME NEW i \in 1 .. Len(r) PROVE r[i] = o - Len(r) + i
  <2>1. k + i - 1 \in 1 .. (n + 1) /\ r[i] = t[k + i - 1]
    BY <1>3, <1>4, <1>11
  <2>2. t[k + i - 1] = o - (n + 1) + (k + i - 1)
    BY <1>5, <2>1
  <2> QED
    BY <1>3, <1>4, <1>11, <2>1, <2>2
<1> QED
  BY <1>1, <1>2, <1>12, <1>13 DEF RingTail

LEMMA RingTailStep ==
  ASSUME TypeOK, RingTail, [Next]_vars
  PROVE  RingTail'
<1>1. CASE UNCHANGED <<ring, out>>
  BY <1>1 DEF RingTail
<1>2. CASE DaemonGone
  BY <1>2, DaemonAssumption DEF DaemonGone, RingTail, Deep, DaemonAssumption
<1>3. CASE PtyRead
  BY <1>3, RingTailRead DEF TypeOK
<1> QED
  BY <1>1, <1>2, <1>3, StepOfLine
     DEF DaemonMoves, PtyBroadcast, ChildExit, Accepts, Accept, Connected, ReadStdout, Quits, Rests

\* What the Hello of a handshake carries is an end of the output.
LEMMA ReplayRange ==
  ASSUME TypeOK, RingTail
  PROVE  Replay = (out - Len(ring) + 1) .. out
<1>1. /\ ring \in Seq(1 .. MaxOut) /\ out \in Nat /\ MaxOut \in Nat /\ RingMax \in Nat
      /\ Len(ring) \in Nat
  BY DaemonAssumption, LenProperties DEF TypeOK, DaemonTypeOK, DaemonAssumption
<1>2. PICK n, a \in Int : n = Len(ring) /\ a = out - n + 1
  BY <1>1
<1>3. \A i \in 1 .. n : ring[i] = a + i - 1
  BY <1>1, <1>2 DEF RingTail
<1>4. Replay = a .. out
  <2>1. ASSUME NEW x \in Replay PROVE x \in a .. out
    <3>1. PICK i \in 1 .. n : x = ring[i]
      BY <1>2 DEF Replay
    <3> QED
      BY <1>1, <1>2, <1>3, <3>1
  <2>2. ASSUME NEW x \in a .. out PROVE x \in Replay
    <3>1. PICK i : i = x - a + 1
      OBVIOUS
    <3>2. i \in 1 .. n /\ x = a + i - 1
      BY <1>1, <1>2, <3>1
    <3> QED
      BY <1>2, <1>3, <3>2 DEF Replay
  <2> QED
    BY <2>1, <2>2
<1> QED
  BY <1>2, <1>4

\* It is no more than the ring holds.
LEMMA ReplayTail ==
  ASSUME TypeOK, RingTail
  PROVE  /\ Replay = Items(ring)
         /\ Cardinality(Replay) <= Deep
         /\ \A x \in Replay : x \in Nat /\ x <= out /\ x > out - Len(ring)
<1>1. /\ ring \in Seq(1 .. MaxOut) /\ out \in Nat /\ MaxOut \in Nat /\ RingMax \in Nat
      /\ Len(ring) \in Nat
  BY DaemonAssumption, LenProperties DEF TypeOK, DaemonTypeOK, DaemonAssumption
<1>2. PICK n, a \in Int : n = Len(ring) /\ a = out - n + 1
  BY <1>1
<1>4. Replay = a .. out
  BY <1>2, ReplayRange
<1>5. Cardinality(a .. out) = IF a > out THEN 0 ELSE out - a + 1
  <2>1. PICK o \in Int : o = out
    BY <1>1
  <2>2. Cardinality(a .. o) = IF a > o THEN 0 ELSE o - a + 1
    BY FS_Interval
  <2> QED
    BY <2>1, <2>2
<1>6. Cardinality(Replay) <= n
  BY <1>1, <1>2, <1>4, <1>5
<1>7. n <= Deep
  BY <1>2 DEF RingTail
<1>8. Deep \in Nat /\ Cardinality(Replay) \in Int
  BY <1>1, <1>2, <1>4, <1>5 DEF Deep
<1>9. \A x \in Replay : x \in Nat /\ x <= out /\ x > out - n
  <2>1. \A x \in Replay : x \in 1 .. MaxOut
    BY ReplayChunks
  <2> QED
    BY <1>1, <1>2, <1>4, <2>1
<1>10. Cardinality(Replay) <= Deep
  BY <1>1, <1>2, <1>6, <1>7, <1>8
<1> QED
  BY <1>2, <1>9, <1>10 DEF Replay, Items


\* Increasing numbers: the last of n is at least n - 1 above the first.
LEMMA RisingRun ==
  ASSUME NEW n \in Nat \ {0}, NEW q, \A i \in 1 .. n : q[i] \in Nat,
         \A i, j \in 1 .. n : i < j => q[i] < q[j]
  PROVE  q[1] + n - 1 <= q[n]
<1> DEFINE T == {i \in 1 .. n : ~ (q[1] + i - 1 <= q[i])}
<1>1. ASSUME T # {} PROVE FALSE
  <2>1. T \in SUBSET Nat
    OBVIOUS
  <2>2. PICK i \in T : \A j \in T : i <= j
    <3> HIDE DEF T
    <3> QED
      BY <1>1, <2>1, LeastNat
  <2>3. i \in 1 .. n /\ 1 \in 1 .. n /\ ~ (q[1] + i - 1 <= q[i])
    BY <2>2
  <2>4. i # 1
    BY <2>3
  <2>5. PICK j \in 1 .. n : j = i - 1
    BY <2>3, <2>4
  <2>6. j \notin T
    BY <2>2, <2>5
  <2>7. q[1] + j - 1 <= q[j] /\ q[j] < q[i] /\ q[i] \in Nat /\ q[j] \in Nat /\ q[1] \in Nat
    BY <2>3, <2>5, <2>6
  <2> QED
    BY <2>3, <2>5, <2>7
<1>2. n \notin T /\ n \in 1 .. n
  BY <1>1
<1> QED
  BY <1>2

LEMMA SuffixFromOn ==
  ASSUME NEW S, NEW t \in Seq(S), NEW k \in 1 .. (Len(t) + 1)
  PROVE  FromOn(SuffixFrom(t, k), t, k)
BY SuffixProperties DEF FromOn

\* A history whose next entry gets seq s; t is that history with entry e appended.
Consecutive(h, s) ==
  /\ Len(h) <= s - 1
  /\ \A i \in 1 .. Len(h) : h[i].seq = s - 1 - Len(h) + i
Appended(t, h, s, e) ==
  /\ t \in Seq(Entry) /\ Len(h) \in Nat /\ Len(t) = Len(h) + 1 /\ Len(t) <= s
  /\ \A i \in 1 .. Len(h) : t[i] = h[i]
  /\ t[Len(t)] = e
  /\ \A i \in 1 .. Len(t) : t[i].seq = s - Len(t) + i

\* The entries of a consecutive history after an append, by their positions.
LEMMA AppendedSeqs ==
  ASSUME NEW h \in Seq(Entry), NEW s \in Nat \ {0}, NEW d \in SUBSET (1 .. MaxOut),
         Consecutive(h, s),
         NEW e, e = [seq |-> s, data |-> d], NEW t, t = Append(h, e)
  PROVE  Appended(t, h, s, e)
<1>1. e \in Entry /\ e.seq = s
  BY DEF Entry
<1>2. PICK n \in Nat : n = Len(h)
  BY LenProperties
<1>3. t \in Seq(Entry) /\ Len(t) = n + 1 /\ t[n + 1] = e /\ \A i \in 1 .. n : t[i] = h[i]
  BY <1>1, <1>2, AppendProperties
<1>4. ASSUME NEW i \in 1 .. (n + 1) PROVE t[i].seq = s - (n + 1) + i
  <2>1. CASE i = n + 1
    BY <1>1, <1>2, <1>3, <2>1
  <2>2. CASE i \in 1 .. n
    BY <1>2, <1>3, <2>2 DEF Consecutive
  <2> QED
    BY <1>2, <2>1, <2>2
<1> QED
  BY <1>2, <1>3, <1>4 DEF Appended, Consecutive

\* An append to the history enters the new entry and drops the oldest ones only.
Split(e, new, h) ==
  /\ e \in Items(new)
  /\ \A f \in Items(h) : f \in Items(new) \/ \A g \in Items(new) : f.seq < g.seq

LEMMA HistAppendSplit ==
  ASSUME NEW h \in Seq(Entry), NEW s \in Nat \ {0}, NEW d \in SUBSET (1 .. MaxOut),
         Consecutive(h, s),
         NEW e, e = [seq |-> s, data |-> d], NEW new, new = HistAppend(h, s, d)
  PROVE  Split(e, new, h)
<1>1. PICK t, n, m : t = Append(h, e) /\ n = Len(t) /\ m = Len(h)
  OBVIOUS
<1>2. /\ t \in Seq(Entry) /\ m \in Nat /\ n = m + 1
      /\ \A i \in 1 .. m : t[i] = h[i]
      /\ t[n] = e
      /\ \A i \in 1 .. n : t[i].seq = s - n + i
  <2>1. Appended(t, h, s, e)
    BY <1>1, AppendedSeqs
  <2> QED
    BY <1>1, <2>1 DEF Appended
<1>3. PICK k \in 1 .. n : new = SuffixFrom(t, k)
  <2>1. PICK k \in 1 .. (m + 1) : HistAppend(h, s, d) = SuffixFrom(Append(h, [seq |-> s, data |-> d]), k)
    BY <1>1, HistAppendShape
  <2> QED
    BY <1>1, <1>2, <2>1
<1>4. Len(new) = n - k + 1 /\ \A i \in 1 .. (n - k + 1) : new[i] = t[k + i - 1]
  <2>1. t \in Seq(Entry) /\ k \in 1 .. (Len(t) + 1)
    BY <1>1, <1>2, <1>3
  <2>2. FromOn(new, t, k)
    BY <1>3, <2>1, SuffixFromOn, Zenon
  <2> QED
    BY <1>1, <2>2 DEF FromOn
<1>5. \A i \in k .. n : t[i] \in Items(new)
  <2>1. TAKE i \in k .. n
  <2>2. PICK j : j = i - k + 1
    OBVIOUS
  <2>3. j \in 1 .. (n - k + 1) /\ i = k + j - 1
    <3>1. n \in Nat
      BY <1>2
    <3> QED
      BY <1>3, <2>2, <3>1
  <2>4. new[j] = t[i]
    BY <1>4, <2>3
  <2> QED
    BY <1>4, <2>3, <2>4 DEF Items
<1>6. e \in Items(new)
  BY <1>2, <1>3, <1>5
<1>7. ASSUME NEW f \in Items(h), f \notin Items(new), NEW g \in Items(new) PROVE f.seq < g.seq
  <2>1. PICK i \in 1 .. m : f = t[i]
    BY <1>1, <1>2 DEF Items
  <2>2. i \notin k .. n
    BY <1>5, <1>7, <2>1
  <2>3. PICK j \in 1 .. (n - k + 1) : g = t[k + j - 1]
    BY <1>4 DEF Items
  <2>4. f.seq = s - n + i
    BY <1>2, <2>1
  <2>5. n \in Nat /\ i \in 1 .. n
    BY <1>2
  <2>6. k + j - 1 \in 1 .. n
    BY <1>3, <2>3, <2>5
  <2>7. g.seq = s - n + (k + j - 1)
    BY <1>2, <2>3, <2>6
  <2> QED
    BY <1>3, <2>2, <2>3, <2>4, <2>5, <2>7
<1> QED
  BY <1>6, <1>7 DEF Split

\* Of a replay and chunks after it, an append drops something only when what it keeps are
\* chunks, and so many of them that with the last one dropped they exceed the budget.
LEMMA HistAppendRun ==
  ASSUME NEW h \in Seq(Entry), NEW s \in Nat \ {0}, NEW c \in 1 .. MaxOut,
         Consecutive(h, s),
         \A f \in Items(h) : Cardinality(f.data) <= Deep,
         \A f \in Items(h) : f.seq > 1 => \E x \in 1 .. MaxOut : f.data = {x},
         NEW new, new = HistAppend(h, s, {c})
  PROVE  \/ Items(h) \subseteq Items(new)
         \/ /\ HistMax < Deep + Len(new)
            /\ \A i \in 1 .. Len(new) : new[i].seq > 1
<1>1. PICK e, t, n, m :
        e = [seq |-> s, data |-> {c}] /\ t = Append(h, e) /\ n = Len(t) /\ m = Len(h)
  OBVIOUS
<1>2. /\ t \in Seq(Entry) /\ m \in Nat /\ n = m + 1 /\ n <= s
      /\ \A i \in 1 .. m : t[i] = h[i]
      /\ t[n] = e
      /\ \A i \in 1 .. n : t[i].seq = s - n + i
  <2>1. PICK d \in SUBSET (1 .. MaxOut) : d = {c}
    OBVIOUS
  <2>2. Appended(t, h, s, e)
    BY <1>1, <2>1, AppendedSeqs
  <2> QED
    BY <1>1, <2>2 DEF Appended
<1>3. PICK sizes : sizes = [i \in 1 .. Len(t) |-> Cardinality(t[i].data)]
  OBVIOUS
<1>4. \A i \in 1 .. Len(t) : Cardinality(t[i].data) \in Nat
  <2>1. TAKE i \in 1 .. Len(t)
  <2>2. t[i] \in Entry
    BY <1>1, <1>2, ElementOfSeq
  <2> QED
    BY <2>2, DataFinite DEF Entry
<1>5. /\ sizes \in Seq(Nat) /\ Len(sizes) = Len(t) /\ Len(t) > 0
      /\ \A i \in 1 .. n : sizes[i] = Cardinality(t[i].data) /\ sizes[i] \in Nat
  <2>1. Len(t) \in Nat /\ Len(t) > 0
    BY <1>1, <1>2
  <2>2. sizes \in Seq(Nat) /\ Len(sizes) = Len(t)
    BY <1>3, <1>4, <2>1
  <2>3. \A i \in 1 .. Len(t) : sizes[i] = Cardinality(t[i].data)
    BY <1>3
  <2> QED
    BY <1>1, <1>4, <2>1, <2>2, <2>3
<1>6. \A i \in 1 .. m : t[i] \in Items(h)
  BY <1>1, <1>2 DEF Items
<1>7. \A i \in 2 .. Len(t) : sizes[i] = 1
  <2>1. ASSUME NEW i \in 2 .. n PROVE sizes[i] = 1
    <3>1. i \in 1 .. n /\ t[i].seq > 1
      BY <1>2
    <3>2. \E x : t[i].data = {x}
      <4>1. CASE i = n
        <5>1. e.data = {c}
          BY <1>1
        <5>2. t[i] = e
          BY <1>2, <4>1
        <5> QED
          BY <5>1, <5>2
      <4>2. CASE i \in 1 .. m
        BY <1>6, <3>1, <4>2
      <4>3. i = n \/ i \in 1 .. m
        BY <1>2
      <4> QED
        BY <4>1, <4>2, <4>3
    <3> QED
      BY <1>5, <3>1, <3>2, FS_Singleton
  <2> QED
    BY <1>1, <2>1
<1>8. PICK k \in 1 .. n :
        /\ Evict(t, sizes, HistMax) = SuffixFrom(t, k)
        /\ k > 1 => HistMax < sizes[k - 1] + (n - k + 1)
  <2>1. t \in Seq(Entry) /\ HistMax \in Nat
    BY <1>2, ServerAssumption DEF ServerAssumption
  <2>2. PICK k \in 1 .. Len(t) :
          /\ Evict(t, sizes, HistMax) = SuffixFrom(t, k)
          /\ k > 1 => HistMax < sizes[k - 1] + (Len(t) - k + 1)
    BY <1>5, <1>7, <2>1, EvictKeeps
  <2> QED
    BY <1>1, <2>2
<1>9. new = SuffixFrom(t, k)
  BY <1>1, <1>3, <1>8 DEF HistAppend
<1>10. Len(new) = n - k + 1 /\ \A i \in 1 .. (n - k + 1) : new[i] = t[k + i - 1]
  <2>1. t \in Seq(Entry) /\ k \in 1 .. (Len(t) + 1)
    BY <1>1, <1>2, <1>8
  <2>2. FromOn(new, t, k)
    BY <1>9, <2>1, SuffixFromOn, Zenon
  <2> QED
    BY <1>1, <2>2 DEF FromOn
<1>13. n \in Nat /\ m \in Nat /\ n = m + 1
  BY <1>2
<1>11. CASE k = 1
  <2>1. \A i \in 1 .. m : i \in 1 .. (n - k + 1) /\ k + i - 1 = i
    BY <1>11, <1>13
  <2>2. \A i \in 1 .. m : i \in 1 .. Len(new) /\ new[i] = h[i]
    BY <1>2, <1>10, <2>1
  <2> QED
    BY <1>1, <2>2 DEF Items
<1>12. CASE k > 1
  <2>1. k - 1 \in 1 .. m /\ k - 1 \in 1 .. n
    BY <1>2, <1>12
  <2>2. sizes[k - 1] <= Deep
    BY <1>5, <1>6, <2>1
  <2>3. Deep \in Nat /\ HistMax \in Nat /\ sizes[k - 1] \in Nat
    BY <1>5, <2>1, DaemonAssumption, ServerAssumption DEF Deep, DaemonAssumption, ServerAssumption
  <2>4. HistMax < Deep + Len(new)
    BY <1>8, <1>10, <1>12, <1>13, <2>2, <2>3
  <2>5. ASSUME NEW i \in 1 .. (n - k + 1) PROVE new[i].seq > 1
    <3>1. k + i - 1 \in 1 .. n
      BY <1>13
    <3>2. new[i].seq = s - n + (k + i - 1)
      BY <1>2, <1>10, <3>1
    <3>3. n <= s
      BY <1>2
    <3> QED
      BY <1>12, <1>13, <3>2, <3>3
  <2> QED
    BY <1>10, <2>4, <2>5
<1>14. k = 1 \/ k > 1
  BY <1>13
<1> QED
  BY <1>11, <1>12, <1>14

\* What a new client's history holds: the replay, under seq 1.
LEMMA SeedItems ==
  ASSUME TypeOK, Connected
  PROVE  /\ \A h \in Items(hist') : h.seq = 1 /\ h.data = Replay
         /\ \A x \in Replay : \E h \in Items(hist') : x \in h.data
<1>1. CASE ring = <<>>
  <2>1. hist' = <<>> /\ Replay = {}
    BY <1>1 DEF Connected, Replay
  <2> QED
    BY <2>1 DEF Items
<1>2. CASE ring # <<>>
  <2>1. hist' = HistAppend(<<>>, 1, Replay)
    BY <1>2 DEF Connected
  <2>2. PICK d, e : d = Replay /\ e = [seq |-> 1, data |-> d]
    OBVIOUS
  <2>3. PICK one \in Nat \ {0} : one = 1
    OBVIOUS
  <2>4. PICK z \in Seq(Entry) : z = <<>>
    BY EmptySeq
  <2>5. d \in SUBSET (1 .. MaxOut)
    BY <2>2, ReplayChunks
  <2>6. Consecutive(z, one)
    BY <2>3, <2>4 DEF Consecutive
  <2>7. PICK new : new = HistAppend(z, one, d)
    OBVIOUS
  <2>8. e = [seq |-> one, data |-> d]
    BY <2>2, <2>3
  <2>9. e \in Items(new)
    BY <2>5, <2>6, <2>7, <2>8, HistAppendSplit DEF Split
  <2>10. Items(new) \subseteq Items(z) \cup {e}
    BY <2>5, <2>7, <2>8, HistAppendItems
  <2>11. Items(z) = {} /\ new = hist' /\ e.seq = 1 /\ e.data = Replay
    BY <2>1, <2>2, <2>3, <2>4, <2>7 DEF Items
  <2> QED
    BY <2>9, <2>10, <2>11
<1> QED
  BY <1>1, <1>2


\* The reader task takes chunk c and enters e into the history.
Reads(c, e) ==
  /\ c \in 1 .. MaxOut /\ c <= out
  /\ e.seq = next /\ e.data = {c}
  /\ conn = "live" /\ conn' = "live" /\ cid' = cid
  /\ out' = out /\ ring' = ring /\ dlost' = dlost
  /\ hist' = HistAppend(hist, next, {c})
  /\ Owed = Owed' \cup {c} /\ \A x \in Owed' : c < x
  /\ e \in Items(hist') /\ Items(hist') \subseteq Items(hist) \cup {e}
  /\ \A f \in Items(hist) : f \in Items(hist') \/ \A g \in Items(hist') : f.seq < g.seq

LEMMA ReadsOne ==
  ASSUME TypeOK, HistorySeqs, LinesInOrder, ReadStdout
  PROVE  \E c, e : Reads(c, e)
<1>1. /\ dq \in Seq(0 .. MaxOut) /\ MaxOut \in Nat /\ out \in Nat /\ unsent \in 0 .. MaxOut
      /\ hist \in Seq(Entry) /\ next \in Nat \ {0}
  BY DaemonAssumption DEF TypeOK, DaemonTypeOK, ClientTypeOK, DaemonAssumption
<1>2. /\ conn = "live" /\ conn' = "live" /\ cid' = cid /\ out' = out /\ ring' = ring
      /\ dlost' = dlost /\ unsent' = unsent
      /\ dq # <<>> /\ Head(dq) # Exit /\ dq' = Tail(dq)
      /\ hist' = HistAppend(hist, next, {Head(dq)})
  BY DEF ReadStdout
<1>3. PICK c, e, q, new :
        /\ c = Head(dq) /\ e = [seq |-> next, data |-> {c}] /\ q = Tail(dq)
        /\ new = HistAppend(hist, next, {c})
  OBVIOUS
<1>4. 1 \in 1 .. Len(dq) /\ c = dq[1] /\ c \in 0 .. MaxOut
  BY <1>1, <1>2, <1>3, QueueTaken
<1>5. c \in 1 .. MaxOut /\ c <= out /\ (unsent # 0 => c < unsent)
  BY <1>1, <1>2, <1>3, <1>4 DEF LinesInOrder, Exit
<1>6. Items(dq) = {c} \cup Items(q)
  BY <1>1, <1>2, <1>3, ItemsTaken
<1>7. Awaited(c)'
  <2>1. ItemTaken
    BY <1>2 DEF ItemTaken, ReadStdout
  <2> QED
    BY <1>3, <2>1, LineAwaited DEF TypeOK
<1>8. \A x \in Items(q) \cup {unsent} : x # 0 => c < x
  <2>1. \A i \in 1 .. Len(q) : q[i] # 0 => c < q[i]
    BY <1>2, <1>3, <1>7 DEF Awaited, Exit
  <2> QED
    BY <1>5, <2>1 DEF Items
<1>9. Owed' = (Items(q) \cup {unsent}) \ {0} /\ Owed = ({c} \cup Items(q) \cup {unsent}) \ {0}
  BY <1>2, <1>3, <1>6 DEF Owed, Exit
<1>10. Owed = Owed' \cup {c} /\ \A x \in Owed' : c < x
  <2>1. c # 0
    BY <1>5
  <2> QED
    BY <1>8, <1>9, <2>1
<1>11. {c} \in SUBSET (1 .. MaxOut)
  BY <1>5
<1>12. Consecutive(hist, next)
  BY DEF HistorySeqs, HistoryWindow, Consecutive
<1>13. PICK d : d = {c} /\ d \in SUBSET (1 .. MaxOut)
  BY <1>11
<1>14. Split(e, new, hist)
  <2>1. e = [seq |-> next, data |-> d] /\ new = HistAppend(hist, next, d)
    BY <1>3, <1>13
  <2> QED
    BY <1>1, <1>12, <1>13, <2>1, HistAppendSplit
<1>15. Items(new) \subseteq Items(hist) \cup {e}
  <2>1. /\ e = [seq |-> next, data |-> d] /\ new = HistAppend(hist, next, d)
        /\ hist \in Seq(Entry) /\ next \in Nat \ {0} /\ d \in SUBSET (1 .. MaxOut)
    BY <1>1, <1>3, <1>13
  <2>2. Items(HistAppend(hist, next, d)) \subseteq Items(hist) \cup {e}
    BY <2>1, HistAppendItems
  <2> QED
    BY <2>1, <2>2
<1>16. e.seq = next /\ e.data = {c}
  BY <1>3
<1>17. new = hist'
  BY <1>2, <1>3
<1>18. Reads(c, e)
  BY <1>2, <1>3, <1>5, <1>10, <1>14, <1>15, <1>16, <1>17 DEF Reads, Split
<1> QED
  BY <1>18

\* The sizes of the entries.
LEMMA EntrySizesStep ==
  ASSUME TypeOK, HistorySeqs, LinesInOrder, RingTail, EntrySizes, [Next]_vars
  PROVE  EntrySizes'
<1>1. out \in Nat /\ Deep \in Nat /\ Deep >= 1
  BY DaemonAssumption DEF TypeOK, DaemonTypeOK, Deep, DaemonAssumption
<1>2. ASSUME Items(hist') \subseteq Items(hist), out' \in {out, out + 1} PROVE EntrySizes'
  <2>1. \A c \in 1 .. out : c \in 1 .. out'
    BY <1>1, <1>2
  <2>2. PICK H : H = Items(hist')
    OBVIOUS
  <2>3. \A h \in H : /\ Cardinality(h.data) <= Deep
                     /\ h.seq > 1 => \E c \in 1 .. out' : h.data = {c}
    BY <1>2, <2>1, <2>2 DEF EntrySizes
  <2> QED
    BY <2>2, <2>3 DEF EntrySizes, Deep
<1>3. CASE Connected
  <2>1. \A h \in Items(hist') : h.seq = 1 /\ h.data = Replay
    BY <1>3, SeedItems
  <2>2. Cardinality(Replay) <= Deep
    BY ReplayTail
  <2> QED
    BY <2>1, <2>2 DEF EntrySizes, Deep
<1>4. CASE ReadStdout
  <2>1. PICK c, e : Reads(c, e)
    BY <1>4, ReadsOne
  <2>2. /\ Items(hist') \subseteq Items(hist) \cup {e} /\ out' = out
        /\ e.data = {c} /\ c \in 1 .. MaxOut /\ c <= out
    BY <2>1 DEF Reads
  <2>6. Cardinality({c}) = 1
    BY FS_Singleton
  <2>3. c \in 1 .. out /\ Cardinality({c}) <= Deep
    BY <1>1, <2>2, <2>6
  <2>4. PICK H : H = Items(hist')
    OBVIOUS
  <2>5. \A h \in H : /\ Cardinality(h.data) <= Deep
                     /\ h.seq > 1 => \E x \in 1 .. out : h.data = {x}
    BY <2>2, <2>3, <2>4 DEF EntrySizes
  <2> QED
    BY <2>2, <2>4, <2>5 DEF EntrySizes, Deep
<1>5. CASE DaemonMoves
  BY <1>2, <1>5 DEF DaemonMoves, PtyRead, PtyBroadcast, ChildExit, DaemonGone
<1>6. CASE Accepts \/ Rests
  BY <1>2, <1>6 DEF Accepts, Accept, Rests
<1>7. CASE Quits
  <2>1. Items(<<>>) = {}
    BY DEF Items
  <2> QED
    BY <1>2, <1>7, <2>1 DEF Quits
<1> QED
  BY <1>3, <1>4, <1>5, <1>6, <1>7, StepOfLine

\* What is owed after a broadcast: the same, but for what a lag cost.
LEMMA OwedSent ==
  ASSUME TypeOK, PtyBroadcast \/ ChildExit, conn # "none"
  PROVE  Owed' \subseteq Owed /\ Owed \subseteq Owed' \cup dlost' /\ dlost \subseteq dlost'
<1>1. /\ dq \in Seq(0 .. MaxOut) /\ unsent \in 0 .. MaxOut /\ 0 \in 0 .. MaxOut
      /\ DaemonCap \in Nat \ {0}
  BY DaemonAssumption DEF TypeOK, DaemonTypeOK, DaemonAssumption
<1>2. PICK e \in 0 .. MaxOut : /\ e \in {0, unsent} /\ Broadcast(e)
                               /\ (unsent' = unsent \/ (e = unsent /\ unsent' = 0))
  BY <1>1 DEF PtyBroadcast, ChildExit, Exit
<1>3. PICK gone : gone = Skipped(dq, DaemonCap)
  OBVIOUS
<1>4. dq' = Push(dq, e, DaemonCap) /\ dlost' = dlost \cup (gone \ {0})
  BY <1>2, <1>3 DEF Broadcast, Exit
<1>5. Sent(Items(Push(dq, e, DaemonCap)), Items(dq), e, gone)
  BY <1>1, <1>3, ItemsPushed
<1>6. PICK N, O : N = Items(dq') /\ O = Items(dq)
  OBVIOUS
<1>7. e \in N /\ N \subseteq O \cup {e} /\ O \subseteq N \cup gone
  BY <1>4, <1>5, <1>6 DEF Sent
<1>8. Owed' = (N \cup {unsent'}) \ {0} /\ Owed = (O \cup {unsent}) \ {0}
  BY <1>6 DEF Owed, Exit
<1> QED
  BY <1>2, <1>4, <1>7, <1>8

\* Where nothing enters and what leaves was lost, nothing is missing that was not.
LEMMA LineShrinks ==
  ASSUME LineWhole, conn # "none", out' = out, Line' \subseteq Line,
         Line \subseteq Line' \cup dlost', dlost \subseteq dlost'
  PROVE  LineWhole'
<1>1. PICK L, o, D : L = Line' /\ o = out' /\ D = dlost'
  OBVIOUS
<1>2. \A x \in L : \A y \in x .. o : y \in L \cup D
  BY <1>1 DEF LineWhole
<1> QED
  BY <1>1, <1>2 DEF LineWhole

\* A read of the PTY: the chunk is owed, if there is a connection.
LEMMA OwedRead ==
  ASSUME TypeOK, PtyRead
  PROVE  /\ Owed' = Owed \cup {out + 1} /\ out' = out + 1 /\ out \in Nat
         /\ dlost' = dlost /\ conn' = conn
<1>1. unsent = 0 /\ unsent' = out + 1 /\ out \in Nat /\ dq' = dq
  BY DEF TypeOK, DaemonTypeOK, PtyRead
<1>2. Owed' = (Items(dq) \cup {out + 1}) \ {0} /\ Owed = (Items(dq) \cup {0}) \ {0}
  BY <1>1 DEF Owed, Exit
<1> QED
  BY <1>1, <1>2 DEF PtyRead

\* Nothing is ever missing in the line.
LEMMA LineWholeStep ==
  ASSUME TypeOK, HistorySeqs, LinesInOrder, LineWhole, EntrySizes, [Next]_vars,
         conn = "live" => cid # 0,
         cid # 0 => AllRise(Items(hist)) /\ Precede(Items(hist))
  PROVE  LineWhole'
<1>1. /\ out \in Nat /\ MaxOut \in Nat /\ next \in Nat \ {0} /\ hist \in Seq(Entry)
      /\ unsent \in 0 .. MaxOut /\ dq \in Seq(0 .. MaxOut)
  BY DaemonAssumption DEF TypeOK, DaemonTypeOK, ClientTypeOK, DaemonAssumption
<1>2. CASE conn' = "none"
  BY <1>2 DEF LineWhole
<1>3. CASE Rests
  BY <1>3 DEF Rests, LineWhole, Line, Live, Owed
<1>4. CASE conn # "none" /\ (PtyBroadcast \/ ChildExit) /\ hist' = hist
  <2>1. out' = out /\ conn' = conn
    BY <1>4 DEF PtyBroadcast, ChildExit
  <2>2. Live' = Live
    BY <1>4, <2>1 DEF Live
  <2>3. Owed' \subseteq Owed /\ Owed \subseteq Owed' \cup dlost' /\ dlost \subseteq dlost'
    BY <1>4, OwedSent
  <2>4. Line' = Owed' \cup Live /\ Line = Owed \cup Live
    BY <2>2 DEF Line
  <2> QED
    BY <1>4, <2>1, <2>3, <2>4, LineShrinks
<1>5. CASE conn # "none" /\ PtyRead /\ hist' = hist
  <2>1. /\ Owed' = Owed \cup {out + 1} /\ out' = out + 1 /\ dlost' = dlost /\ conn' = conn
    BY <1>5, OwedRead
  <2>2. Live' = Live
    BY <1>5, <2>1 DEF Live
  <2>3. PICK L, M : L = Line /\ M = Line'
    OBVIOUS
  <2>4. M = L \cup {out + 1}
    BY <2>1, <2>2, <2>3 DEF Line
  <2>5. \A x \in L : x \in Nat
    <3>1. \A x \in Items(dq) : x \in 0 .. MaxOut
      BY <1>1, ItemsOf
    <3> QED
      BY <1>1, <2>3, <3>1 DEF Line, Owed, Live
  <2>6. ASSUME NEW x \in M, NEW y \in x .. (out + 1) PROVE y \in M \cup dlost
    <3>1. y = out + 1 \/ (x \in L /\ y \in x .. out)
      BY <1>1, <2>4, <2>5, <2>6
    <3> QED
      BY <1>5, <2>3, <2>4, <3>1 DEF LineWhole
  <2> QED
    BY <2>1, <2>3, <2>6 DEF LineWhole
<1>6. CASE DaemonGone
  <2>1. CASE conn' # "none"
    <3>1. conn' # "live" /\ dq' = <<>> /\ unsent' = 0
      BY <1>6, <2>1 DEF DaemonGone
    <3>2. Owed' = {} /\ Live' = {}
      BY <3>1 DEF Owed, Live, Items, Exit
    <3> QED
      BY <3>2 DEF LineWhole, Line
  <2> QED
    BY <1>2, <2>1
<1>7. CASE Accepts
  <2>1. conn' = "subscribed" /\ dq' = <<>> /\ unsent' = unsent /\ out' = out
    BY <1>7 DEF Accepts, Accept
  <2>2. Owed' = {unsent} \ {0} /\ Live' = {}
    BY <2>1 DEF Owed, Live, Items, Exit
  <2>3. unsent # 0 => unsent = out
    BY DEF LinesInOrder
  <2>4. PICK M : M = Line'
    OBVIOUS
  <2>5. M = {unsent} \ {0}
    BY <2>2, <2>4 DEF Line
  <2>6. \A x \in M : \A y \in x .. out : y \in M
    BY <1>1, <2>3, <2>5
  <2> QED
    BY <2>1, <2>4, <2>6 DEF LineWhole
<1>8. CASE Connected
  <2>1. conn = "subscribed" /\ out' = out /\ dq' = dq /\ unsent' = unsent /\ dlost' = dlost
    BY <1>8 DEF Connected
  <2>2. \A h \in Items(hist') : h.seq = 1
    BY <1>8, SeedItems
  <2>3. Live = {} /\ Live' = {}
    BY <2>1, <2>2 DEF Live
  <2>4. Line' = Line
    BY <2>1, <2>3 DEF Line, Owed
  <2> QED
    BY <2>1, <2>4, LineShrinks
<1>9. CASE ReadStdout
  <2>1. PICK c, e : Reads(c, e)
    BY <1>9, ReadsOne
  <2>2. PICK H, K : H = Items(hist) /\ K = Items(hist')
    OBVIOUS
  <2>3. /\ c \in 1 .. MaxOut /\ c <= out /\ e.seq = next /\ e.data = {c}
        /\ conn = "live" /\ conn' = "live" /\ out' = out /\ dlost' = dlost
        /\ Owed = Owed' \cup {c} /\ \A x \in Owed' : c < x
        /\ e \in K /\ K \subseteq H \cup {e}
        /\ \A f \in H : f \in K \/ \A g \in K : f.seq < g.seq
    BY <2>1, <2>2 DEF Reads
  <2>4. AllRise(H) /\ Precede(H)
    BY <2>2, <2>3
  <2>5. PICK L, M, O, D : L = Line /\ M = Line' /\ O = Owed' /\ D = dlost
    OBVIOUS
  <2>6. /\ L = O \cup {c} \cup {x \in 1 .. MaxOut : \E h \in H : h.seq > 1 /\ x \in h.data}
        /\ M = O \cup {x \in 1 .. MaxOut : \E h \in K : h.seq > 1 /\ x \in h.data}
    BY <2>2, <2>3, <2>5 DEF Line, Live
  <2>7. \A x \in O : x \in Nat /\ c < x /\ x \in Items(dq) \cup {unsent} /\ x # 0
    <3>1. \A x \in Items(dq) : x \in 0 .. MaxOut
      BY <1>1, ItemsOf
    <3>2. \A x \in O : x \in Owed
      BY <2>3, <2>5
    <3> QED
      BY <1>1, <2>3, <2>5, <3>1, <3>2 DEF Owed, Exit
  <2>8. M \subseteq L
    BY <2>3, <2>6
  <2>9. CASE next = 1
    <3>1. H = {}
      <4>1. Len(hist) <= 0 /\ Len(hist) \in Nat
        BY <1>1, <2>9, LenProperties DEF HistorySeqs
      <4> QED
        BY <2>2, <4>1 DEF Items
    <3>2. M = O /\ L = O \cup {c}
      BY <2>3, <2>6, <2>9, <3>1
    <3>3. ASSUME NEW x \in M, NEW y \in x .. out PROVE y \in M \cup D
      <4>1. y \in L \cup D
        BY <2>3, <2>5, <2>8, <3>3 DEF LineWhole
      <4>2. y # c
        BY <2>3, <2>7, <3>2, <3>3
      <4> QED
        BY <3>2, <4>1, <4>2
    <3> QED
      BY <2>3, <2>5, <3>3 DEF LineWhole
  <2>10. CASE next # 1
    <3>1. c \in M
      BY <1>1, <2>3, <2>6, <2>10
    <3>2. ASSUME NEW f \in H, f.seq > 1, f \notin K, NEW d \in f.data, NEW x \in M
          PROVE  d < x
      <4>1. Awaited(d)
        BY <2>4, <3>2 DEF Precede
      <4>2. \A z \in Items(dq) \cup {unsent} : z # 0 => d < z
        BY <4>1 DEF Awaited, Items, Exit
      <4>3. d < c
        <5>1. c \in Owed
          BY <2>3
        <5> QED
          BY <4>2, <5>1 DEF Owed, Exit
      <4>4. CASE x \in O
        BY <2>7, <4>2, <4>4
      <4>5. ASSUME NEW g \in K, g.seq > 1, x \in g.data PROVE d < x
        <5>1. CASE g = e
          BY <2>3, <4>3, <4>5, <5>1
        <5>2. CASE g \in H
          <6>1. f.seq < g.seq
            BY <2>3, <3>2, <4>5
          <6> QED
            BY <2>4, <3>2, <4>5, <5>2, <6>1 DEF AllRise, Rises
        <5> QED
          BY <2>3, <4>5, <5>1, <5>2
      <4> QED
        BY <2>6, <3>2, <4>4, <4>5
    <3>3. ASSUME NEW x \in M, NEW y \in x .. out PROVE y \in M \cup D
      <4>1. y \in L \cup D
        BY <2>3, <2>5, <2>8, <3>3 DEF LineWhole
      <4>2. ASSUME y \in 1 .. MaxOut, NEW f \in H, f.seq > 1, y \in f.data PROVE y \in M
        <5>1. CASE f \in K
          BY <2>6, <4>2, <5>1
        <5>2. CASE f \notin K
          <6>1. y < x
            BY <3>2, <3>3, <4>2, <5>2
          <6>2. x \in Nat
            BY <1>1, <2>6, <2>7, <3>3
          <6> QED
            BY <1>1, <3>3, <6>1, <6>2
        <5> QED
          BY <5>1, <5>2
      <4> QED
        BY <2>6, <3>1, <4>1, <4>2
    <3> QED
      BY <2>3, <2>5, <3>3 DEF LineWhole
  <2> QED
    BY <2>9, <2>10
<1>10. CASE conn = "none" /\ (PtyRead \/ PtyBroadcast \/ ChildExit)
  BY <1>2, <1>10 DEF PtyRead, PtyBroadcast, ChildExit
<1> QED
  BY <1>2, <1>3, <1>4, <1>5, <1>6, <1>7, <1>8, <1>9, <1>10, StepOfLine DEF DaemonMoves, Quits


\* What the daemon still remembers has reached the server or is owed.
LEMMA RememberedStep ==
  ASSUME TypeOK, TypeOK', HistorySeqs, HistorySeqs', LinesInOrder, RingTail, EntrySizes, LineWhole',
         EpochsInOrder, Remembered, [Next]_vars, 2 * RingMax <= HistMax,
         cid' # 0 => AllRise(Items(hist'))
  PROVE  Remembered'
<1>1. /\ out \in Nat /\ MaxOut \in Nat /\ next \in Nat \ {0} /\ hist \in Seq(Entry)
      /\ ring \in Seq(1 .. MaxOut) /\ RingMax \in Nat /\ HistMax \in Nat /\ epochs \in Nat
  BY DaemonAssumption, ServerAssumption
     DEF TypeOK, DaemonTypeOK, ClientTypeOK, DaemonAssumption, ServerAssumption
<1>2. CASE conn' # "live"
  BY <1>2 DEF Remembered
<1>3. CASE Rests
  BY <1>3 DEF Rests, Remembered, Replay, Owed
<1>4. CASE conn = "live" /\ (PtyBroadcast \/ ChildExit) /\ hist' = hist /\ cid' = cid
  <2>1. ring' = ring
    BY <1>4 DEF PtyBroadcast, ChildExit
  <2>2. Owed \subseteq Owed' \cup dlost' /\ dlost \subseteq dlost'
    BY <1>4, OwedSent
  <2>3. PICK N, D : N = Owed' /\ D = dlost'
    OBVIOUS
  <2>4. \A x \in Replay : x \in N \cup D \/ \E h \in Items(hist) : x \in h.data
    BY <1>4, <2>2, <2>3 DEF Remembered
  <2> QED
    BY <1>4, <2>1, <2>3, <2>4 DEF Remembered, Replay
<1>5. CASE conn = "live" /\ PtyRead /\ hist' = hist /\ cid' = cid
  <2>1. Owed' = Owed \cup {out + 1} /\ dlost' = dlost /\ conn' = conn
    BY <1>5, OwedRead
  <2>2. PICK R, N : R = Replay' /\ N = Owed'
    OBVIOUS
  <2>3. \A x \in R : x \in Replay \cup {out + 1}
    <3>1. PICK t, ones : t = Append(ring, out + 1) /\ ones = [i \in 1 .. Len(t) |-> 1]
      OBVIOUS
    <3>2. out + 1 \in 1 .. MaxOut
      BY <1>1, <1>5 DEF PtyRead
    <3>3. t \in Seq(1 .. MaxOut) /\ Len(t) = Len(ring) + 1 /\ Items(t) = Items(ring) \cup {out + 1}
      BY <1>1, <3>1, <3>2, AppendProperties, ItemsAppended
    <3>4. ones \in Seq(Nat) /\ Len(ones) = Len(t) /\ Len(t) > 0
      BY <1>1, <3>1, <3>3, LenProperties
    <3>5. PICK k \in 1 .. Len(t) : Evict(t, ones, RingMax) = SuffixFrom(t, k)
      BY <3>3, <3>4, EvictIsSuffix
    <3>6. k \in 1 .. (Len(t) + 1)
      BY <3>3, <3>4, <3>5, LenProperties
    <3>7. Items(SuffixFrom(t, k)) \in SUBSET Items(t)
      BY <3>3, <3>6, ItemsOfSuffix
    <3>8. ring' = SuffixFrom(t, k)
      BY <1>5, <3>1, <3>5 DEF PtyRead, RingAppend
    <3>9. R = Items(SuffixFrom(t, k)) /\ Replay = Items(ring)
      BY <2>2, <3>8 DEF Replay, Items
    <3> QED
      BY <3>3, <3>7, <3>9
  <2>4. \A x \in R : x \in N \cup dlost \/ \E h \in Items(hist) : x \in h.data
    BY <1>5, <2>1, <2>2, <2>3 DEF Remembered
  <2> QED
    BY <1>5, <2>1, <2>2, <2>4 DEF Remembered
<1>6. CASE Connected
  <2>1. cid' # 0 /\ ring' = ring
    BY <1>1, <1>6 DEF Connected
  <2>2. \A x \in Replay : \E h \in Items(hist') : x \in h.data
    BY <1>6, SeedItems
  <2> QED
    BY <2>1, <2>2 DEF Remembered, Replay
<1>7. CASE ReadStdout
  <2>1. PICK c, e : Reads(c, e)
    BY <1>7, ReadsOne
  <2>2. PICK H, K, N, D, new :
          /\ H = Items(hist) /\ K = Items(hist') /\ N = Owed' /\ D = dlost /\ new = hist'
    OBVIOUS
  <2>3. /\ c \in 1 .. MaxOut /\ c <= out /\ e.seq = next /\ e.data = {c}
        /\ conn = "live" /\ conn' = "live" /\ cid' = cid /\ cid # 0
        /\ out' = out /\ dlost' = D /\ Replay' = Replay
        /\ Owed = N \cup {c}
        /\ e \in K /\ K \subseteq H \cup {e}
    BY <2>1, <2>2 DEF Reads, Remembered, Replay
  <2>4. \A x \in Replay : x \in N \cup {c} \cup D \/ \E h \in H : x \in h.data
    BY <2>2, <2>3 DEF Remembered
  <2>5. new = HistAppend(hist, next, {c}) /\ Consecutive(hist, next)
    BY <2>1, <2>2 DEF Reads, HistorySeqs, HistoryWindow, Consecutive
  <2>6. /\ \A f \in H : Cardinality(f.data) <= Deep
        /\ \A f \in H : f.seq > 1 => \E x \in 1 .. MaxOut : f.data = {x}
    <3>1. \A x \in 1 .. out : x \in 1 .. MaxOut
      BY <1>1 DEF TypeOK, DaemonTypeOK
    <3> QED
      BY <2>2, <3>1 DEF EntrySizes
  <2>7. \/ H \subseteq K
        \/ HistMax < Deep + Len(new) /\ \A i \in 1 .. Len(new) : new[i].seq > 1
    BY <1>1, <2>2, <2>3, <2>5, <2>6, HistAppendRun
  <2>8. ASSUME NEW x \in Replay PROVE x \in N \cup D \/ \E h \in K : x \in h.data
    <3>1. CASE H \subseteq K
      BY <2>3, <2>4, <2>8, <3>1
    <3>2. CASE HistMax < Deep + Len(new) /\ \A i \in 1 .. Len(new) : new[i].seq > 1
      <4>1. new \in Seq(Entry)
        BY <2>2 DEF TypeOK, ClientTypeOK
      <4>2. PICK m \in Nat : m = Len(new)
        BY <4>1, LenProperties
      <4>3. PICK q : q = [i \in 1 .. m |-> CHOOSE d \in 1 .. MaxOut : new[i].data = {d}]
        OBVIOUS
      <4>4. ASSUME NEW i \in 1 .. m
            PROVE  q[i] \in 1 .. MaxOut /\ new[i].data = {q[i]} /\ new[i].seq > 1 /\ new[i] \in K
        <5>1. new[i] \in K /\ new[i].seq > 1
          BY <2>2, <3>2, <4>2 DEF Items
        <5>2. \E d \in 1 .. MaxOut : new[i].data = {d}
          BY <2>3, <2>6, <5>1
        <5> QED
          BY <4>3, <5>1, <5>2
      <4>5. \A i \in 1 .. m : new[i].seq = next - m + i
        <5>1. hist' \in Seq(Entry) /\ next' = next + 1
          BY <1>7, <2>2, <4>1 DEF ReadStdout
        <5>2. \A i \in 1 .. Len(hist') : hist'[i].seq = next' - 1 - Len(hist') + i
          BY DEF HistorySeqs, HistoryWindow
        <5>3. \A i \in 1 .. m : new[i].seq = next + 1 - 1 - m + i
          BY <1>1, <2>2, <4>2, <5>1, <5>2
        <5> QED
          BY <1>1, <4>2, <5>3
      <4>6. m # 0
        BY <2>2, <2>3, <4>2 DEF Items
      <4>7. ASSUME NEW i \in 1 .. m, NEW j \in 1 .. m, i < j PROVE q[i] < q[j]
        <5>1. new[i].seq < new[j].seq
          BY <1>1, <4>2, <4>5, <4>7
        <5>2. Rises(new[i], new[j])
          BY <2>2, <2>3, <4>4 DEF AllRise
        <5> QED
          BY <4>4, <5>1, <5>2 DEF Rises
      <4>8. q[1] + m - 1 <= q[m]
        <5>1. \A i \in 1 .. m : q[i] \in Nat
          <6>1. \A d \in 1 .. MaxOut : d \in Nat
            BY <1>1
          <6> QED
            BY <4>4, <6>1
        <5> QED
          BY <4>2, <4>6, <4>7, <5>1, RisingRun
      <4>9. 1 \in 1 .. m /\ m \in 1 .. m
        BY <4>2, <4>6
      <4>10. q[m] <= out
        <5>1. new[m] \in H \cup {e} /\ new[m].data = {q[m]} /\ new[m].seq > 1
          BY <2>3, <4>4, <4>9
        <5>2. CASE new[m] = e
          BY <2>3, <5>1, <5>2
        <5>3. CASE new[m] \in H
          <6>1. PICK d \in 1 .. out : new[m].data = {d}
            BY <2>2, <5>1, <5>3 DEF EntrySizes
          <6>2. d = q[m]
            BY <5>1, <6>1
          <6> QED
            BY <1>1, <6>1, <6>2
        <5> QED
          BY <5>1, <5>2, <5>3
      <4>11. x \in Nat /\ x <= out /\ x > out - Len(ring) /\ Len(ring) <= Deep /\ Len(ring) \in Nat
        BY <1>1, <2>8, ReplayTail, LenProperties DEF RingTail
      <4>12. Len(ring) <= m
        BY <1>1, <3>2, <4>2, <4>6, <4>11 DEF Deep
      <4>13. q[1] \in Nat /\ q[m] \in Nat
        BY <1>1, <4>4, <4>9
      <4>14. x \in q[1] .. out
        BY <1>1, <4>2, <4>8, <4>10, <4>11, <4>12, <4>13
      <4>15. q[1] \in Live'
        BY <2>2, <2>3, <4>4, <4>9 DEF Live
      <4>16. x \in Line' \cup D
        BY <2>3, <4>14, <4>15 DEF LineWhole, Line
      <4> QED
        BY <2>2, <4>16 DEF Line, Live
    <3> QED
      BY <2>7, <3>1, <3>2
  <2> QED
    BY <2>2, <2>3, <2>8 DEF Remembered
<1>8. CASE DaemonGone \/ Accepts \/ Quits
  BY <1>2, <1>8 DEF DaemonGone, Accepts, Accept, Quits
<1>9. CASE conn # "live" /\ (PtyRead \/ PtyBroadcast \/ ChildExit)
  BY <1>2, <1>9 DEF PtyRead, PtyBroadcast, ChildExit
<1> QED
  BY <1>3, <1>4, <1>5, <1>6, <1>7, <1>8, <1>9, StepOfLine DEF DaemonMoves

Whole == Browsers # {} => RingTail /\ EntrySizes /\ LineWhole /\ Remembered

LEMMA WholeAlways ==
  ASSUME 2 * RingMax <= HistMax
  PROVE  Spec => []Whole
<1>1. Init => Whole
  <2> SUFFICES ASSUME Init PROVE Whole
    OBVIOUS
  <2>1. RingTail
    BY DaemonAssumption DEF Init, DaemonInit, RingTail, Deep, DaemonAssumption
  <2>2. EntrySizes
    BY DEF Init, EntrySizes, Items
  <2>3. LineWhole /\ Remembered
    BY DEF Init, DaemonInit, LineWhole, Remembered
  <2> QED
    BY <2>1, <2>2, <2>3 DEF Whole
<1>2. /\ IInv /\ IInv' /\ OutputInOrder /\ OutputInOrder' /\ Whole
      /\ [Next]_vars
      => Whole'
  <2> SUFFICES ASSUME IInv, IInv', OutputInOrder, OutputInOrder', Whole, [Next]_vars,
                      NEW b \in Browsers
               PROVE  (RingTail /\ EntrySizes /\ LineWhole /\ Remembered)'
    BY DEF Whole
  <2>1. /\ TypeOK /\ TypeOK' /\ HistorySeqs /\ HistorySeqs' /\ LinesInOrder /\ EpochsInOrder
        /\ RingTail /\ EntrySizes /\ LineWhole /\ Remembered
    BY DEF IInv, OutputInOrder, Whole
  <2>2. cid # 0 => AllRise(Items(hist)) /\ Precede(Items(hist))
    BY DEF OutputInOrder, OutputRises, AllRise, Precede
  <2>3. cid' # 0 => AllRise(Items(hist'))
    <3>1. OutputRises(b)'
      BY DEF OutputInOrder
    <3>2. PICK S, K : S = (OfClient(b) \cup Items(hist))' /\ K = Items(hist')
      OBVIOUS
    <3>3. cid' # 0 => AllRise(S)
      BY <3>1, <3>2 DEF OutputRises
    <3>4. K \subseteq S
      BY <3>2
    <3> QED
      BY <3>2, <3>3, <3>4 DEF AllRise
  <2>4. conn = "live" => cid # 0
    BY <2>1 DEF Remembered
  <2>5. RingTail'
    BY <2>1, RingTailStep
  <2>6. EntrySizes'
    BY <2>1, EntrySizesStep
  <2>7. LineWhole'
    BY <2>1, <2>2, <2>4, LineWholeStep
  <2>8. Remembered'
    BY <2>1, <2>3, <2>7, RememberedStep
  <2> QED
    BY <2>5, <2>6, <2>7, <2>8
<1> QED
  BY <1>1, <1>2, InvariantCorrect, OutputAlways, PTL DEF Spec

\* With nothing left on its way a browser on the live client shows all that the daemon's ring
\* holds, unless a lag skipped it or a page has replaced its xterm (attach() "without loss"):
\* the history must hold twice what the ring does, as it does in the code (2 MiB and 1 MiB),
\* since the replay it is seeded with goes as one entry.
THEOREM SettledCorrect ==
  ASSUME 2 * RingMax <= HistMax
  PROVE  Spec => [](remounts = 0 => SettledIsComplete)
<1>1. IInv /\ ClaimsTrue /\ Whole => (remounts = 0 => SettledIsComplete)
  <2> SUFFICES ASSUME IInv, ClaimsTrue, Whole, remounts = 0, NEW b \in Browsers,
                      bst[b] = "open", ep[b] = cid, conn = "live", unsent = 0, dq = <<>>,
                      prime[b] = <<>>, rx[b] = <<>>, NEW x \in Replay
               PROVE  x \in Shown(b) \cup lost[b] \cup dlost
    BY DEF SettledIsComplete
  <2>1. OnTheWay(b) = {}
    BY DEF OnTheWay, Chunks, Items
  <2>2. \A h \in Items(hist) : h.data \subseteq lost[b] \/ h.data \subseteq Had(b)
    BY <2>1 DEF ClaimsTrue, Arriving, Coming
  <2>3. x \in Owed \cup dlost \/ \E h \in Items(hist) : x \in h.data
    BY DEF Whole, Remembered
  <2>4. Owed = {}
    BY DEF Owed, Items, Exit
  <2> QED
    BY <2>2, <2>3, <2>4 DEF Had
<1>2. Spec => []ClaimsTrue
  BY ClaimsAlways
<1>3. Spec => []Whole
  BY WholeAlways
<1> QED
  BY <1>1, <1>2, <1>3, InvariantCorrect, PTL

-----------------------------------------------------------------------------
(* The browsers' screens implement Screen *)

\* In S, a set of frames or entries of one client, nothing is missing between two items but
\* what L holds: the rest is in items of a seq between theirs.
Chain(S, L) ==
  \A f, g \in S : f.seq <= g.seq =>
    \A x \in f.data, z \in g.data : \A y \in (x .. z) \cup (z .. x) :
      y \in L \/ \E h \in S : f.seq <= h.seq /\ h.seq <= g.seq /\ y \in h.data

\* What is still owed, O of the n chunks made, can come after S: nothing is missing in between
\* but what L holds.
Fits(S, L, O, n) ==
  \A f \in S : \A x \in f.data :
    /\ \A y \in x .. n : y \in O \cup L \/ \E h \in S : f.seq <= h.seq /\ y \in h.data
    /\ \A c \in O : \A y \in (c + 1) .. x :
         y \in L \/ \E h \in S : f.seq <= h.seq /\ y \in h.data

\* Both, the second while the connection k to the daemon is live.
Sound(S, L, k, O, n) == Chain(S, L) /\ (k = "live" => Fits(S, L, O, n))

Data(S)     == UNION {f.data : f \in S}
Twin(f, g)  == f.seq = g.seq /\ f.data = g.data

\* T is what is left of S when things are lost, M in all, or come to an end at the front.
Kept(T, S, M) ==
  /\ \A f \in T : \E h \in S : Twin(f, h)
  /\ \A f \in T, h \in S : f.seq <= h.seq => h.data \subseteq M \/ \E k \in T : Twin(k, h)

LEMMA ChainThin ==
  ASSUME NEW S, NEW T, NEW L, NEW M, L \subseteq M, Chain(S, L),
         \A f \in T : \E h \in S : Twin(f, h),
         \A f, g \in T, h \in S :
           f.seq <= h.seq /\ h.seq <= g.seq => h.data \subseteq M \/ \E k \in T : Twin(k, h)
  PROVE  Chain(T, M)
<1>1. SUFFICES ASSUME NEW f \in T, NEW g \in T, f.seq <= g.seq, NEW x \in f.data,
                      NEW z \in g.data, NEW y \in (x .. z) \cup (z .. x)
               PROVE  y \in M \/ \E h \in T : f.seq <= h.seq /\ h.seq <= g.seq /\ y \in h.data
  BY DEF Chain
<1>2. PICK u \in S, v \in S : Twin(f, u) /\ Twin(g, v)
  OBVIOUS
<1>3. x \in u.data /\ z \in v.data /\ u.seq = f.seq /\ v.seq = g.seq
  BY <1>1, <1>2 DEF Twin
<1>4. y \in L \/ \E h \in S : f.seq <= h.seq /\ h.seq <= g.seq /\ y \in h.data
  BY <1>1, <1>3 DEF Chain
<1>5. ASSUME NEW h \in S, f.seq <= h.seq, h.seq <= g.seq, y \in h.data
      PROVE  y \in M \/ \E k \in T : f.seq <= k.seq /\ k.seq <= g.seq /\ y \in k.data
  <2>1. h.data \subseteq M \/ \E k \in T : Twin(k, h)
    BY <1>5
  <2> QED
    BY <1>5, <2>1 DEF Twin
<1> QED
  BY <1>4, <1>5

LEMMA SoundThin ==
  ASSUME NEW S, NEW T, NEW L, NEW M, L \subseteq M, Kept(T, S, M), NEW k, NEW O, NEW n,
         Sound(S, L, k, O, n)
  PROVE  Sound(T, M, k, O, n)
<1>1. Chain(T, M)
  BY ChainThin DEF Kept, Sound
<1>2. ASSUME Fits(S, L, O, n), NEW f \in T, NEW x \in f.data
      PROVE  /\ \A y \in x .. n : y \in O \cup M \/ \E h \in T : f.seq <= h.seq /\ y \in h.data
             /\ \A c \in O : \A y \in (c + 1) .. x :
                  y \in M \/ \E h \in T : f.seq <= h.seq /\ y \in h.data
  <2>1. PICK u \in S : Twin(f, u)
    BY DEF Kept
  <2>2. x \in u.data /\ u.seq = f.seq
    BY <2>1 DEF Twin
  <2>3. /\ \A y \in x .. n : y \in O \cup L \/ \E h \in S : f.seq <= h.seq /\ y \in h.data
        /\ \A c \in O : \A y \in (c + 1) .. x :
             y \in L \/ \E h \in S : f.seq <= h.seq /\ y \in h.data
    BY <1>2, <2>2 DEF Fits
  <2>4. ASSUME NEW y, NEW h \in S, f.seq <= h.seq, y \in h.data
        PROVE  y \in M \/ \E g \in T : f.seq <= g.seq /\ y \in g.data
    <3>1. h.data \subseteq M \/ \E g \in T : Twin(g, h)
      BY <2>4 DEF Kept
    <3> QED
      BY <2>4, <3>1 DEF Twin
  <2> QED
    BY <2>3, <2>4
<1> QED
  BY <1>1, <1>2 DEF Sound, Fits

\* The chunk c that is owed next arrives, as e after all of S.
LEMMA SoundGrows ==
  ASSUME NEW S, Numbered(S), NEW L, NEW O, NEW n \in Nat, NEW c \in Nat, NEW e, e.seq \in Nat,
         e.data = {c}, \A f \in S : f.seq < e.seq, \A f \in S : f.data \subseteq 1 .. n,
         NEW P, O = P \cup {c}, \A d \in P : d \in Nat /\ c < d, c <= n,
         \A d \in c .. n : d \in O \cup L,
         Sound(S, L, "live", O, n)
  PROVE  Sound(S \cup {e}, L, "live", P, n)
<1>1. Chain(S, L) /\ Fits(S, L, O, n)
  BY DEF Sound
<1>2. PICK T : T = S \cup {e}
  OBVIOUS
<1>3. ASSUME NEW f \in S, NEW x \in f.data
      PROVE  /\ x \in 1 .. n
             /\ \A y \in x .. n : y \in P \cup {c} \cup L \/ \E h \in S : f.seq <= h.seq /\ y \in h.data
             /\ \A d \in P \cup {c} : \A y \in (d + 1) .. x :
                  y \in L \/ \E h \in S : f.seq <= h.seq /\ y \in h.data
  BY <1>1 DEF Fits
<1>4. \A f \in S : f.seq \in Nat /\ f.seq <= e.seq
  BY DEF Numbered
<1>5. ASSUME NEW f \in T, NEW g \in T, f.seq <= g.seq, NEW x \in f.data, NEW z \in g.data,
             NEW y \in (x .. z) \cup (z .. x)
      PROVE  y \in L \/ \E h \in T : f.seq <= h.seq /\ h.seq <= g.seq /\ y \in h.data
  <2>1. CASE f \in S /\ g \in S
    BY <1>1, <1>2, <1>5, <2>1 DEF Chain
  <2>2. CASE f \in S /\ g = e
    <3>1. z = c /\ x \in Nat /\ x <= n /\ f.seq <= e.seq /\ e \in T
      BY <1>2, <1>3, <1>4, <1>5, <2>2
    <3>2. CASE y = c
      BY <1>4, <2>2, <3>1, <3>2
    <3>3. CASE y # c /\ y \in x .. c
      <4>1. y \in x .. n /\ y < c /\ y \in Nat
        BY <3>1, <3>3
      <4>2. y \notin P
        BY <4>1
      <4>3. y \in L \/ \E h \in S : f.seq <= h.seq /\ y \in h.data
        BY <1>3, <1>5, <2>2, <3>3, <4>1, <4>2
      <4> QED
        BY <1>2, <1>4, <2>2, <4>3
    <3>4. CASE y # c /\ y \in c .. x
      <4>1. y \in (c + 1) .. x
        BY <3>1, <3>4
      <4>2. y \in L \/ \E h \in S : f.seq <= h.seq /\ y \in h.data
        BY <1>3, <1>5, <2>2, <4>1
      <4> QED
        BY <1>2, <1>4, <2>2, <4>2
    <3> QED
      BY <1>5, <3>1, <3>2, <3>3, <3>4
  <2>3. CASE f = e /\ g \in S
    BY <1>4, <1>5, <2>3
  <2>4. CASE f = e /\ g = e
    <3>1. y = c
      BY <1>5, <2>4
    <3> QED
      BY <1>2, <2>4, <3>1
  <2> QED
    BY <1>2, <1>5, <2>1, <2>2, <2>3, <2>4
<1>6. ASSUME NEW f \in T, NEW x \in f.data
      PROVE  /\ \A y \in x .. n : y \in P \cup L \/ \E h \in T : f.seq <= h.seq /\ y \in h.data
             /\ \A d \in P : \A y \in (d + 1) .. x :
                  y \in L \/ \E h \in T : f.seq <= h.seq /\ y \in h.data
  <2>1. CASE f = e
    <3>1. x = c /\ f \in T /\ f.seq <= f.seq
      BY <1>2, <1>6, <2>1
    <3>2. \A y \in x .. n : y = c \/ y \in P \cup L
      BY <3>1
    <3>3. \A d \in P : \A y \in (d + 1) .. x : FALSE
      BY <3>1
    <3> QED
      BY <2>1, <3>1, <3>2, <3>3
  <2>2. CASE f \in S
    <3>1. e \in T /\ c \in e.data /\ f.seq <= e.seq /\ S \subseteq T
      BY <1>2, <1>4, <2>2
    <3>2. ASSUME NEW y \in x .. n
          PROVE  y \in P \cup L \/ \E h \in T : f.seq <= h.seq /\ y \in h.data
      BY <1>3, <1>6, <2>2, <3>1
    <3>3. ASSUME NEW d \in P, NEW y \in (d + 1) .. x
          PROVE  y \in L \/ \E h \in T : f.seq <= h.seq /\ y \in h.data
      BY <1>3, <1>6, <2>2, <3>1
    <3> QED
      BY <3>2, <3>3
  <2> QED
    BY <1>2, <2>1, <2>2
<1> QED
  BY <1>2, <1>5, <1>6 DEF Sound, Chain, Fits

\* All of S in one snapshot.
LEMMA SoundMerged ==
  ASSUME NEW S, Numbered(S), NEW L, NEW k, NEW O, NEW n, Sound(S, L, k, O, n),
         NEW s, s.seq \in Nat, s.data = Data(S)
  PROVE  Sound({s}, L, k, O, n)
<1>1. \A x \in s.data : \E f \in S : x \in f.data
  BY DEF Data
<1>2. \A f \in S : f.data \subseteq s.data /\ f.seq \in Nat
  BY DEF Data, Numbered
<1>3. ASSUME NEW x \in s.data, NEW z \in s.data, NEW y \in (x .. z) \cup (z .. x)
      PROVE  y \in L \cup s.data
  <2>1. PICK f \in S, g \in S : x \in f.data /\ z \in g.data
    BY <1>1
  <2>2. f.seq <= g.seq \/ g.seq <= f.seq
    BY <1>2
  <2>3. y \in (z .. x) \cup (x .. z)
    OBVIOUS
  <2>4. y \in L \/ \E h \in S : y \in h.data
    BY <2>1, <2>2, <2>3 DEF Sound, Chain
  <2> QED
    BY <1>2, <2>4
<1>4. Chain({s}, L)
  <2>1. s.seq <= s.seq
    OBVIOUS
  <2> QED
    BY <1>3, <2>1 DEF Chain
<1>5. ASSUME Fits(S, L, O, n) PROVE Fits({s}, L, O, n)
  <2>1. ASSUME NEW x \in s.data
        PROVE  /\ \A y \in x .. n : y \in O \cup L \cup s.data
               /\ \A c \in O : \A y \in (c + 1) .. x : y \in L \cup s.data
    <3>1. PICK f \in S : x \in f.data
      BY <1>1
    <3> QED
      BY <1>2, <1>5, <3>1 DEF Fits
  <2>2. s.seq <= s.seq
    OBVIOUS
  <2> QED
    BY <2>1, <2>2 DEF Fits
<1> QED
  BY <1>4, <1>5 DEF Sound

\* What is owed are chunks that were made.
LEMMA OwedMade ==
  ASSUME TypeOK, LinesInOrder
  PROVE  Owed \subseteq 1 .. out /\ out \in Nat
<1>1. dq \in Seq(0 .. MaxOut) /\ unsent \in 0 .. MaxOut /\ out \in 0 .. MaxOut /\ MaxOut \in Nat
  BY DaemonAssumption DEF TypeOK, DaemonTypeOK, DaemonAssumption
<1>2. ASSUME NEW x \in Items(dq), x # 0 PROVE x \in 1 .. out
  <2>1. PICK i \in 1 .. Len(dq) : x = dq[i]
    BY DEF Items
  <2>2. x \in 0 .. MaxOut /\ x <= out
    BY <1>1, <2>1, ElementOfSeq DEF LinesInOrder
  <2> QED
    BY <1>1, <1>2, <2>2
<1>3. unsent # 0 => unsent \in 1 .. out
  BY <1>1 DEF LinesInOrder
<1> QED
  BY <1>1, <1>2, <1>3 DEF Owed, Exit

\* What a lag of the daemon's receiver costs was owed.
LEMMA LostMade ==
  ASSUME TypeOK, LinesInOrder, [Next]_vars
  PROVE  /\ dlost \subseteq dlost' /\ dlost' \subseteq dlost \cup Owed
         /\ out' \in {out, out + 1} /\ out \in Nat
<1>1. dq \in Seq(0 .. MaxOut) /\ out \in Nat /\ DaemonCap \in Nat \ {0}
  BY DaemonAssumption DEF TypeOK, DaemonTypeOK, DaemonAssumption
<1>2. ASSUME NEW e, Broadcast(e) PROVE dlost \subseteq dlost' /\ dlost' \subseteq dlost \cup Owed
  <2>1. CASE conn = "none"
    BY <1>2, <2>1 DEF Broadcast
  <2>2. CASE conn # "none"
    <3>1. dlost' = dlost \cup (Skipped(dq, DaemonCap) \ {Exit})
      BY <1>2, <2>2 DEF Broadcast
    <3>2. Skipped(dq, DaemonCap) \subseteq Items(dq)
      <4>1. CASE dq = <<>>
        <5>1. Len(dq) = 0
          BY <4>1
        <5> QED
          BY <1>1, <5>1 DEF Skipped
      <4>2. CASE dq # <<>>
        BY <1>1, <4>2, ItemsTaken DEF Skipped
      <4> QED
        BY <4>1, <4>2
    <3> QED
      BY <3>1, <3>2 DEF Owed
  <2> QED
    BY <2>1, <2>2
<1>3. CASE DaemonMoves
  BY <1>1, <1>2, <1>3 DEF DaemonMoves, PtyRead, PtyBroadcast, ChildExit, DaemonGone
<1>4. CASE Accepts \/ Connected \/ ReadStdout \/ Quits \/ Rests
  BY <1>1, <1>4 DEF Accepts, Accept, Connected, ReadStdout, Quits, Rests
<1> QED
  BY <1>1, <1>3, <1>4, StepOfLine

\* From what is owed on, nothing is missing but what a lag cost.
LEMMA OwedWhole ==
  ASSUME TypeOK, LinesInOrder, LineWhole, conn = "live", Precede(Items(hist)),
         NEW c \in Owed
  PROVE  \A d \in c .. out : d \in Owed \cup dlost
<1>1. SUFFICES ASSUME NEW d \in c .. out, d \in Live PROVE FALSE
  BY DEF LineWhole, Line
<1>2. PICK h \in Items(hist) : h.seq > 1 /\ d \in h.data
  BY <1>1 DEF Live
<1>3. Awaited(d)
  BY <1>2 DEF Precede
<1>4. c \in Nat
  BY OwedMade
<1>5. d < c
  BY <1>3 DEF Awaited, Owed, Items, Exit
<1> QED
  BY <1>1, <1>4, <1>5

\* What fits in before what is owed still does after a step that takes nothing from it.
LEMMA SoundStays ==
  ASSUME TypeOK, LinesInOrder, [Next]_vars, ~ Connected, ~ ReadStdout,
         NEW S, Numbered(S), \A f \in S : f.data \subseteq 1 .. out,
         NEW L, NEW M, L \subseteq M, dlost' \subseteq M, Sound(S, L, conn, Owed, out)
  PROVE  Sound(S, M, conn', Owed', out')
<1>1. Chain(S, M)
  BY DEF Sound, Chain
<1>2. SUFFICES ASSUME conn' = "live" PROVE Fits(S, M, Owed', out')
  BY <1>1 DEF Sound
<1>3. CASE conn = "live" /\ (PtyBroadcast \/ ChildExit)
  <2>1. Owed' \subseteq Owed /\ Owed \subseteq Owed' \cup dlost' /\ out' = out
    BY <1>3, OwedSent DEF PtyBroadcast, ChildExit
  <2>2. PICK O, P, n, D : O = Owed /\ P = Owed' /\ n = out /\ D = dlost'
    OBVIOUS
  <2>3. Fits(S, L, O, n)
    BY <1>3, <2>2 DEF Sound
  <2>4. P \subseteq O /\ O \subseteq P \cup M
    BY <2>1, <2>2
  <2>5. Fits(S, M, P, n)
    BY <2>3, <2>4 DEF Fits
  <2> QED
    BY <2>1, <2>2, <2>5
<1>4. CASE conn = "live" /\ PtyRead
  <2>0. Owed' = Owed \cup {out + 1} /\ out' = out + 1 /\ out \in Nat
    BY <1>4, OwedRead
  <2>1. PICK O, P, n : O = Owed /\ P = Owed' /\ n = out /\ n \in Nat /\ P = O \cup {n + 1} /\ out' = n + 1
    BY <2>0
  <2>2. Fits(S, L, O, n)
    BY <1>4, <2>1 DEF Sound
  <2>3. ASSUME NEW f \in S, NEW x \in f.data
        PROVE  /\ \A y \in x .. (n + 1) : y \in P \cup M \/ \E h \in S : f.seq <= h.seq /\ y \in h.data
               /\ \A c \in P : \A y \in (c + 1) .. x :
                    y \in M \/ \E h \in S : f.seq <= h.seq /\ y \in h.data
    <3>1. x \in 1 .. n
      BY <2>1
    <3>2. \A y \in x .. (n + 1) : y = n + 1 \/ y \in x .. n
      BY <2>1, <3>1
    <3>3. \A y \in (n + 1 + 1) .. x : FALSE
      BY <2>1, <3>1
    <3> QED
      BY <2>1, <2>2, <3>2, <3>3 DEF Fits
  <2> QED
    BY <2>1, <2>3 DEF Fits
<1>5. CASE Rests
  <2>1. Owed' = Owed /\ out' = out /\ conn' = conn
    BY <1>5 DEF Rests, Owed
  <2>2. PICK O, n : O = Owed /\ n = out
    OBVIOUS
  <2>3. Fits(S, L, O, n)
    BY <1>2, <2>1, <2>2 DEF Sound
  <2>4. Fits(S, M, O, n)
    BY <2>3 DEF Fits
  <2> QED
    BY <2>1, <2>2, <2>4
<1>6. DaemonMoves \/ Rests
  BY <1>2, StepOfLine DEF Accepts, Accept, Quits
<1> QED
  BY <1>2, <1>3, <1>4, <1>5, <1>6
     DEF DaemonMoves, PtyRead, PtyBroadcast, ChildExit, DaemonGone

\* A connection that waits for its Hello is owed nothing by a daemon that has read nothing.
Handshake ==
  /\ ring = <<>> => unsent = 0
  /\ conn = "subscribed" => (ring = <<>> => Owed = {})

\* What the connection is owed follows on the ring, or is in it.
Meets == \A c \in Owed : c >= out - Len(ring)

LEMMA HandshakeMeets ==
  ASSUME TypeOK, LinesInOrder, RingTail, ~ Overrun
  PROVE  Meets
<1>1. out \in Nat /\ Len(ring) \in Nat /\ dq \in Seq(0 .. MaxOut) /\ MaxOut \in Nat
  BY DaemonAssumption, LenProperties DEF TypeOK, DaemonTypeOK, DaemonAssumption
<1>2. PICK l, R : l \in Nat /\ l = Len(ring) /\ R = Replay /\ R = (out - l + 1) .. out
  BY <1>1, ReplayRange
<1>3. ASSUME NEW i \in 1 .. Len(dq), dq[i] # 0 PROVE dq[i] >= out - l
  <2>1. dq[i] \in R \/ dq[i] + 1 \in R
    BY <1>2, <1>3 DEF Overrun, Exit
  <2>2. dq[i] \in 0 .. MaxOut
    BY <1>1, ElementOfSeq
  <2> QED
    BY <1>1, <1>2, <2>1, <2>2
<1>4. ASSUME NEW c \in Owed PROVE c >= out - l
  <2>1. CASE c = unsent
    BY <1>1, <1>2, <1>4, <2>1 DEF Owed, LinesInOrder, Exit
  <2>2. CASE c # unsent
    BY <1>3, <1>4, <2>2 DEF Owed, Items, Exit
  <2> QED
    BY <2>1, <2>2
<1> QED
  BY <1>2, <1>4 DEF Meets

\* No handshake is forgotten to have been overrun.
LEMMA OverrunStays ==
  ASSUME [Next]_vars, ~ overrun'
  PROVE  ~ overrun /\ (Connected => ~ Overrun)
<1>1. CASE Connected
  BY <1>1 DEF Connected
<1>2. CASE ~ Connected
  BY <1>2 DEF Next, DaemonStep, Resume, ResumeFailed, ReadStdout, ReadExit, ReadEof,
              Restart, Upgrade, Attach, Receive, Drop, Remount, vars, serverVars, faultVars
<1> QED
  BY <1>1, <1>2

\* A read is in the ring, however small that is.
LEMMA RingFills ==
  ASSUME TypeOK, PtyRead
  PROVE  ring' # <<>>
<1>1. PICK t, n, o : t = Append(ring, out + 1) /\ n = Len(ring) /\ o = out + 1
  OBVIOUS
<1>2. /\ ring \in Seq(1 .. MaxOut) /\ o \in 1 .. MaxOut /\ RingMax \in Nat /\ n \in Nat
  BY <1>1, DaemonAssumption, LenProperties DEF TypeOK, DaemonTypeOK, DaemonAssumption, PtyRead
<1>3. t \in Seq(1 .. MaxOut) /\ Len(t) = n + 1
  BY <1>1, <1>2, AppendProperties
<1>4. PICK ones : ones = [i \in 1 .. Len(t) |-> 1]
  OBVIOUS
<1>5. /\ ones \in Seq(Nat) /\ Len(ones) = Len(t) /\ Len(t) > 0
      /\ \A i \in 1 .. Len(t) : ones[i] = 1
  BY <1>2, <1>3, <1>4
<1>6. PICK k \in 1 .. Len(t) :
        /\ Evict(t, ones, RingMax) = SuffixFrom(t, k)
        /\ k > 1 => RingMax < ones[k - 1] + (Len(t) - k + 1)
  <2>1. \A i \in 2 .. Len(t) : ones[i] = 1
    BY <1>2, <1>3, <1>5
  <2> QED
    BY <1>2, <1>3, <1>5, <2>1, EvictKeeps
<1>7. ring' = SuffixFrom(t, k)
  BY <1>1, <1>4, <1>6 DEF PtyRead, RingAppend
<1>8. Len(ring') = Len(t) - k + 1
  <2>1. k \in 1 .. (Len(t) + 1)
    BY <1>2, <1>3, <1>6
  <2> QED
    BY <1>3, <1>7, <2>1, SuffixProperties
<1> QED
  BY <1>2, <1>3, <1>5, <1>8

LEMMA HandshakeStep ==
  ASSUME TypeOK, LinesInOrder, Handshake, [Next]_vars
  PROVE  Handshake'
<1>1. out \in Nat /\ ring \in Seq(1 .. MaxOut) /\ MaxOut \in Nat
  BY DaemonAssumption DEF TypeOK, DaemonTypeOK, DaemonAssumption
<1>2. CASE PtyRead
  BY <1>2, RingFills DEF Handshake
<1>3. CASE PtyBroadcast \/ ChildExit
  <2>1. ring' = ring /\ conn' = conn /\ (ring = <<>> => unsent' = 0)
    BY <1>3 DEF PtyBroadcast, ChildExit, Handshake
  <2>2. conn = "subscribed" => Owed' \subseteq Owed
    BY <1>3, OwedSent
  <2> QED
    BY <2>1, <2>2 DEF Handshake
<1>4. CASE DaemonGone
  BY <1>4 DEF DaemonGone, Handshake, Owed, Items, Exit
<1>5. CASE Accepts
  <2>1. dq' = <<>> /\ unsent' = unsent /\ ring' = ring
    BY <1>5 DEF Accepts, Accept
  <2>2. Owed' = {unsent} \ {0}
    BY <2>1 DEF Owed, Items, Exit
  <2> QED
    BY <2>1, <2>2 DEF Handshake
<1>6. CASE Connected \/ ReadStdout \/ Quits
  <2>1. conn' # "subscribed" /\ ring' = ring /\ unsent' = unsent
    BY <1>6 DEF Connected, ReadStdout, Quits
  <2> QED
    BY <2>1 DEF Handshake
<1>7. CASE Rests
  BY <1>7 DEF Rests, Handshake, Owed
<1> QED
  BY <1>2, <1>3, <1>4, <1>5, <1>6, <1>7, StepOfLine DEF DaemonMoves

\* The entries of the history, by their numbers.
LEMMA HistNumbers ==
  ASSUME TypeOK, HistorySeqs
  PROVE  /\ Numbered(Items(hist)) /\ next \in Nat /\ Len(hist) \in Nat
         /\ \A h \in Items(hist) : h.seq >= 1 /\ h.seq < next /\ h.seq >= next - Len(hist)
<1>1. hist \in Seq(Entry) /\ next \in Nat /\ Len(hist) \in Nat /\ Len(hist) <= next - 1
  BY LenProperties DEF TypeOK, ClientTypeOK, HistorySeqs
<1>2. ASSUME NEW h \in Items(hist)
      PROVE  /\ h \in Entry
             /\ h.seq >= 1 /\ h.seq < next /\ h.seq >= next - Len(hist)
  <2>1. PICK i \in 1 .. Len(hist) : h = hist[i]
    BY DEF Items
  <2>2. h.seq = next - 1 - Len(hist) + i /\ h \in Entry
    BY <1>1, <2>1, ElementOfSeq DEF HistorySeqs, HistoryWindow
  <2> QED
    BY <1>1, <2>1, <2>2
<1> QED
  BY <1>1, <1>2 DEF Numbered, Entry

\* The reader task's chunk arrives after all of S.
LEMMA ReadGrows ==
  ASSUME TypeOK, HistorySeqs, LinesInOrder, LineWhole, Precede(Items(hist)),
         NEW c, NEW e, Reads(c, e),
         NEW S, Numbered(S), \A f \in S : f.seq < next /\ f.data \subseteq 1 .. out,
         NEW L, dlost \subseteq L, Sound(S, L, conn, Owed, out)
  PROVE  Sound(S \cup {e}, L, conn', Owed', out')
<1>1. /\ c \in Nat /\ c <= out /\ e.seq = next /\ e.data = {c} /\ conn = "live" /\ conn' = "live"
      /\ out' = out /\ Owed = Owed' \cup {c} /\ \A x \in Owed' : c < x
  BY DaemonAssumption DEF Reads, DaemonAssumption
<1>2. PICK O, P, n : O = Owed /\ P = Owed' /\ n = out
  OBVIOUS
<1>3. n \in Nat /\ O \subseteq 1 .. n /\ next \in Nat
  BY <1>2, OwedMade, HistNumbers
<1>4. \A d \in c .. n : d \in O \cup L
  BY <1>1, <1>2, OwedWhole
<1>5. \A d \in P : d \in Nat /\ c < d
  BY <1>1, <1>2, <1>3
<1>6. Sound(S, L, "live", O, n)
  BY <1>1, <1>2
<1>7. O = P \cup {c} /\ c <= n /\ \A f \in S : f.seq < e.seq /\ f.data \subseteq 1 .. n
  BY <1>1, <1>2
<1>8. Sound(S \cup {e}, L, "live", P, n)
  BY <1>1, <1>3, <1>4, <1>5, <1>6, <1>7, SoundGrows
<1> QED
  BY <1>1, <1>2, <1>8

\* Whatever of a replay comes after something that came live or is still owed: it holds all in between.
Seam ==
  conn = "live" =>
    \A h \in Items(hist) : h.seq = 1 =>
      \A c \in Line : \A y \in h.data : c < y => (c + 1) .. y \subseteq h.data

\* The history of the live client: nothing is missing in it.
HistoryWhole ==
  /\ dlost \subseteq 1 .. out
  /\ Data(Items(hist)) \subseteq 1 .. out
  /\ Seam
  /\ cid # 0 => Sound(Items(hist), dlost, conn, Owed, out)

\* What is left of a history after an append.
LEMMA ReadKept ==
  ASSUME TypeOK, HistorySeqs, TypeOK', HistorySeqs', NEW c, NEW e, Reads(c, e)
  PROVE  Kept(Items(hist'), Items(hist) \cup {e}, {})
<1>1. PICK H, K : H = Items(hist) /\ K = Items(hist')
  OBVIOUS
<1>2. /\ K \subseteq H \cup {e} /\ e \in K
      /\ \A f \in H : f \in K \/ \A g \in K : f.seq < g.seq
  BY <1>1 DEF Reads
<1>3. \A f \in H \cup {e} : f.seq \in Nat
  BY <1>1, HistNumbers DEF Numbered, Reads
<1>4. \A f \in K, h \in H \cup {e} : f.seq <= h.seq => h \in K
  BY <1>2, <1>3
<1> QED
  BY <1>1, <1>2, <1>4 DEF Kept, Twin

LEMMA SeamStep ==
  ASSUME TypeOK, TypeOK', HistorySeqs, HistorySeqs', LinesInOrder, RingTail,
         Connected => Meets, HistoryWhole, [Next]_vars
  PROVE  Seam'
<1>1. out \in Nat /\ next \in Nat /\ Len(hist) \in Nat /\ Len(hist) <= next - 1 /\ Len(ring) \in Nat
  BY HistNumbers, LenProperties DEF TypeOK, DaemonTypeOK, HistorySeqs
<1>2. SUFFICES ASSUME conn' = "live" PROVE Seam'
  BY DEF Seam
<1>3. PICK H, K, M, N : H = Items(hist) /\ K = Items(hist') /\ M = Line /\ N = Line'
  OBVIOUS
<1>4. ASSUME conn = "live", K = H, N \subseteq M \cup {out + 1} PROVE Seam'
  <2>1. ASSUME NEW h \in K, h.seq = 1, NEW d \in N, NEW y \in h.data, d < y
        PROVE  (d + 1) .. y \subseteq h.data
    <3>1. y \in 1 .. out
      BY <1>3, <1>4, <2>1 DEF HistoryWhole, Data
    <3>2. d # out + 1
      BY <1>1, <2>1, <3>1
    <3> QED
      BY <1>3, <1>4, <2>1, <3>2 DEF HistoryWhole, Seam
  <2> QED
    BY <1>3, <2>1 DEF Seam
<1>5. CASE DaemonMoves /\ (PtyRead \/ PtyBroadcast \/ ChildExit)
  <2>1. conn = "live" /\ hist' = hist
    BY <1>2, <1>5 DEF DaemonMoves, PtyRead, PtyBroadcast, ChildExit
  <2>2. Live' = Live
    BY <1>2, <2>1 DEF Live
  <2>3. Owed' \subseteq Owed \cup {out + 1}
    BY <1>5, <2>1, OwedRead, OwedSent
  <2> QED
    BY <1>3, <1>4, <2>1, <2>2, <2>3 DEF Line
<1>6. CASE Connected
  <2>1. conn = "subscribed" /\ out' = out /\ dq' = dq /\ unsent' = unsent
    BY <1>6 DEF Connected
  <2>2. \A h \in K : h.seq = 1 /\ h.data = Replay
    BY <1>3, <1>6, SeedItems
  <2>3. Live' = {} /\ Owed' = Owed
    BY <1>3, <2>1, <2>2 DEF Live, Owed
  <2>4. Replay = (out - Len(ring) + 1) .. out
    BY ReplayRange
  <2>5. \A d \in N : d \in 1 .. out /\ d >= out - Len(ring)
    BY <1>3, <1>6, <2>1, <2>3, OwedMade DEF Line, Meets
  <2>6. ASSUME NEW d \in N, NEW y \in Replay PROVE (d + 1) .. y \subseteq Replay
    BY <1>1, <2>4, <2>5, <2>6
  <2> QED
    BY <1>3, <2>2, <2>6 DEF Seam
<1>7. CASE ReadStdout
  <2>1. PICK c, e : Reads(c, e)
    BY <1>7, ReadsOne
  <2>2. /\ conn = "live" /\ c \in 1 .. MaxOut /\ e.data = {c} /\ e.seq = next
        /\ K \subseteq H \cup {e} /\ Owed = Owed' \cup {c} /\ \A x \in Owed' : c < x
    BY <1>3, <2>1 DEF Reads
  <2>3. CASE next = 1
    <3>1. H = {}
      <4>1. Len(hist) = 0
        BY <1>1, <2>3
      <4> QED
        BY <1>3, <4>1 DEF Items
    <3>2. N = Owed'
      BY <1>2, <1>3, <2>2, <2>3, <3>1 DEF Line, Live
    <3>3. \A h \in K : h.data = {c}
      BY <2>2, <3>1
    <3>4. \A d \in N : \A y \in {c} : ~ (d < y)
      <4>1. \A x \in N : x \in Nat /\ c \in Nat
        BY <2>2, <3>2, OwedMade
      <4> QED
        BY <2>2, <3>2, <4>1
    <3> QED
      BY <1>3, <3>3, <3>4 DEF Seam
  <2>4. CASE next # 1
    <3>1. N \subseteq M
      <4>1. \A x \in Live' : x \in Line
        <5>1. ASSUME NEW x \in Live' PROVE x \in Line
          <6>1. x \in 1 .. MaxOut /\ \E h \in K : h.seq > 1 /\ x \in h.data
            BY <1>3, <5>1 DEF Live
          <6>2. x = c \/ \E h \in H : h.seq > 1 /\ x \in h.data
            BY <2>2, <6>1
          <6> QED
            BY <1>3, <2>2, <6>1, <6>2 DEF Line, Live
        <5> QED
          BY <5>1
      <4> QED
        BY <1>3, <2>2, <4>1 DEF Line
    <3>2. ASSUME NEW h \in K, h.seq = 1, NEW d \in N, NEW y \in h.data, d < y
          PROVE  (d + 1) .. y \subseteq h.data
      <4>1. h \in H /\ d \in M
        BY <2>2, <2>4, <3>1, <3>2
      <4> QED
        BY <1>3, <2>2, <3>2, <4>1 DEF HistoryWhole, Seam
    <3> QED
      BY <1>3, <3>2 DEF Seam
  <2> QED
    BY <2>3, <2>4
<1>8. CASE Rests
  <2>1. conn = "live" /\ hist' = hist /\ Line' = Line
    BY <1>2, <1>8 DEF Rests, Line, Owed, Live
  <2> QED
    BY <1>3, <1>4, <2>1
<1> QED
  BY <1>2, <1>5, <1>6, <1>7, <1>8, StepOfLine
     DEF DaemonMoves, DaemonGone, Accepts, Accept, Quits

LEMMA HistoryWholeStep ==
  ASSUME TypeOK, TypeOK', HistorySeqs, HistorySeqs', LinesInOrder, RingTail,
         Connected => Meets, LineWhole, HistoryWhole, [Next]_vars, conn = "live" => cid # 0,
         cid # 0 => Precede(Items(hist))
  PROVE  HistoryWhole'
<1>1. /\ dlost \subseteq dlost' /\ dlost' \subseteq dlost \cup Owed
      /\ out' \in {out, out + 1} /\ out \in Nat /\ Owed \subseteq 1 .. out
  BY LostMade, OwedMade
<1>2. 1 .. out \subseteq 1 .. out'
  BY <1>1
<1>3. dlost' \subseteq 1 .. out'
  BY <1>1, <1>2 DEF HistoryWhole
<1>4. Seam'
  BY SeamStep
<1>5. PICK H, K : H = Items(hist) /\ K = Items(hist')
  OBVIOUS
<1>6. /\ Numbered(H) /\ \A f \in H : f.seq < next /\ f.data \subseteq 1 .. out
  BY <1>5, HistNumbers DEF HistoryWhole, Data
<1>7. SUFFICES /\ Data(K) \subseteq 1 .. out'
               /\ cid' # 0 => Sound(K, dlost', conn', Owed', out')
  BY <1>3, <1>4, <1>5 DEF HistoryWhole
<1>8. CASE Connected
  <2>1. /\ \A h \in K : h.seq = 1 /\ h.data = Replay
        /\ conn = "subscribed" /\ out' = out /\ Owed' = Owed
    BY <1>5, <1>8, SeedItems DEF Connected, Owed
  <2>2. Replay = (out - Len(ring) + 1) .. out /\ Len(ring) \in Nat
    BY ReplayRange, LenProperties DEF TypeOK, DaemonTypeOK
  <2>3. Replay \subseteq 1 .. out
    <3>1. \A x \in Replay : x \in Nat /\ x # 0
      BY ReplayChunks, DaemonAssumption DEF DaemonAssumption
    <3>2. \A x \in Replay : x \in Int /\ x <= out
      BY <1>1, <2>2
    <3> QED
      BY <1>1, <3>1, <3>2
  <2>4. Data(K) \subseteq 1 .. out'
    BY <2>1, <2>3 DEF Data
  <2>5. PICK O, a, n : O = Owed /\ a = out - Len(ring) /\ n = out
    OBVIOUS
  <2>6. \A c \in O : c >= a /\ c \in Nat
    BY <1>1, <1>8, <2>1, <2>5 DEF Meets
  <2>7. a \in Int /\ n \in Nat /\ Replay = (a + 1) .. n
    BY <1>1, <2>2, <2>5
  <2>8. Chain(K, dlost')
    <3>1. \A x, z \in Replay : (x .. z) \cup (z .. x) \subseteq Replay
      BY <2>7
    <3> QED
      BY <2>1, <3>1 DEF Chain
  <2>9. Fits(K, dlost', O, n)
    <3>1. ASSUME NEW x \in Replay
          PROVE  x .. n \subseteq Replay /\ \A c \in O : (c + 1) .. x \subseteq Replay
      BY <2>6, <2>7, <3>1
    <3>2. \A f \in K : f.seq <= f.seq
      BY <2>1
    <3> QED
      BY <2>1, <3>1, <3>2 DEF Fits
  <2> QED
    BY <2>1, <2>4, <2>5, <2>8, <2>9 DEF Sound
<1>9. CASE ReadStdout
  <2>1. PICK c, e : Reads(c, e)
    BY <1>9, ReadsOne
  <2>2. /\ conn = "live" /\ cid' = cid /\ out' = out /\ dlost' = dlost /\ e.data = {c} /\ c \in Owed
        /\ K \subseteq H \cup {e}
    BY <1>5, <2>1 DEF Reads
  <2>3. Data(K) \subseteq 1 .. out'
    <3>1. c \in 1 .. out
      BY <1>1, <2>2
    <3>2. \A f \in K : f.data \subseteq 1 .. out
      BY <1>6, <2>2, <3>1
    <3> QED
      BY <2>2, <3>2 DEF Data
  <2>4. Sound(H, dlost, conn, Owed, out) /\ Precede(H)
    BY <1>5, <2>2 DEF HistoryWhole
  <2>5. Sound(H \cup {e}, dlost, conn', Owed', out')
    BY <1>5, <1>6, <2>1, <2>4, ReadGrows
  <2>6. Kept(K, H \cup {e}, {})
    BY <1>5, <2>1, ReadKept
  <2>7. Kept(K, H \cup {e}, dlost)
    BY <2>6 DEF Kept
  <2>8. PICK O, n, k : O = Owed' /\ n = out' /\ k = conn'
    OBVIOUS
  <2>9. Sound(K, dlost, k, O, n)
    BY <2>5, <2>7, <2>8, SoundThin
  <2> QED
    BY <2>2, <2>3, <2>8, <2>9
<1>10. CASE ~ Connected /\ ~ ReadStdout
  <2>1. (hist' = hist /\ cid' = cid) \/ (hist' = <<>> /\ cid' = 0)
    BY <1>10, StepOfLine DEF DaemonMoves, Accepts, Quits, Rests
  <2>2. K = H \/ K = {}
    BY <1>5, <2>1 DEF Items
  <2>3. Data(K) \subseteq 1 .. out'
    BY <1>2, <1>6, <2>2 DEF Data
  <2>4. ASSUME cid' # 0 PROVE Sound(K, dlost', conn', Owed', out')
    <3>1. K = H /\ Sound(H, dlost, conn, Owed, out)
      BY <1>5, <2>1, <2>4 DEF HistoryWhole
    <3>2. PICK D, E : D = dlost /\ E = dlost'
      OBVIOUS
    <3>3. Sound(H, E, conn', Owed', out')
      BY <1>1, <1>6, <1>10, <3>1, <3>2, SoundStays
    <3> QED
      BY <3>1, <3>2, <3>3
  <2> QED
    BY <2>3, <2>4
<1> QED
  BY <1>8, <1>9, <1>10

\* b is on the live client; the server will send b what its history holds beyond b's cursor.
OnLive(b) == bst[b] = "open" /\ ep[b] = cid
Honoured(b) ==
  aid[b] = cid /\ cid # 0 /\ lastSeq[b] # Null /\ lastSeq[b] >= next - 1 - Len(hist)

\* What b misses for good.
Missing(b) == lost[b] \cup dlost

\* The end of the catch-up that is under way, or of what b has; the history beyond s.
Cut(b)  == IF prime[b] # <<>> THEN prime[b][Len(prime[b])].seq ELSE lastSeq[b]
Rest(s) == {h \in Items(hist) : h.seq > s}

\* What b will have shown on the live client, and would when it came back to it.
Strand(b)  == Destined(b) \cup Rest(Cut(b))
Resumed(b) == Items(view[b]) \cup Rest(lastSeq[b])

\* All that b shows or is sent.
Told(b) == Data(Items(view[b])) \cup Data(OnTheWay(b))

\* How what is on its way to a browser on the live client fits the history: frames are entries;
\* beyond the catch-up all entries are on their way, but for lags; the catch-up is all there is
\* beyond an honoured cursor, or the one snapshot.
Known(b) ==
  OnLive(b) =>
    /\ \A f \in OnTheWay(b) :
         f.seq # 0 /\ f.seq >= next - Len(hist) => \E h \in Items(hist) : Twin(f, h)
    /\ \A h \in Rest(Cut(b)) : h.data \subseteq lost[b] \/ \E f \in OnTheWay(b) : Twin(f, h)
    /\ prime[b] # <<>> /\ lastSeq[b] # Null /\ ~ Redrawn(b) /\ aid[b] = cid =>
         \A h \in Rest(lastSeq[b]) : h.seq <= Cut(b) => \E f \in Chunks(prime[b]) : Twin(f, h)
    /\ Redrawn(b) => ~ Honoured(b)
    /\ \A f \in OnTheWay(b) : f.seq # 0 /\ aid[b] = cid => lastSeq[b] < f.seq
    /\ \A f \in Chunks(prime[b]) : f.seq # 0 => aid[b] = cid /\ lastSeq[b] # Null
    /\ \A f, g \in Chunks(prime[b]) : f.seq = 0 => g = f

\* The history goes at least as far as anything b was ever told, so that a snapshot does too.
Ahead(b) ==
  cid # 0 =>
    \A x \in Told(b) :
      IF hist = <<>> THEN conn = "live" => \A c \in Owed : x < c
      ELSE \E y \in Data(Items(hist)) : x <= y
NoStepBack(b) ==
  \A f \in Chunks(prime[b]) : f.seq = 0 /\ f.data # {} => \A x \in Shown(b) : \E y \in f.data : x <= y

\* Nothing is missing in what b shows, will show or would show but what b misses for good.
Gapped(b) ==
  /\ Chain(Items(view[b]), Missing(b))
  /\ bst[b] = "open" => Chain(Destined(b), Missing(b))
  /\ OnLive(b) => Sound(Strand(b), Missing(b), conn, Owed, out)
  /\ bst[b] # "open" /\ Honoured(b) => Sound(Resumed(b), Missing(b), conn, Owed, out)

Made(b)   == lost[b] \cup Told(b) \subseteq 1 .. out
Intact(b) == Made(b) /\ Ahead(b) /\ NoStepBack(b) /\ Known(b) /\ Gapped(b)

\* The two kinds of catch-up.
LEMMA CatchUpKinds ==
  ASSUME TypeOK, HistorySeqs, NEW ls \in Nat \cup {Null}, NEW a, NEW C, C = CatchUp(ls, a)
  PROVE  \/ /\ a = cid /\ ls # Null /\ ls >= next - 1 - Len(hist)
            /\ \A f \in Items(C) : f.seq # 0
         \/ /\ ~ (a = cid /\ ls # Null /\ ls >= next - 1 - Len(hist))
            /\ \E s : C = <<s>> /\ s.seq = 0 /\ s.data = FullSnapshot(hist)
<1>1. /\ hist \in Seq(Entry) /\ next \in Nat \ {0} /\ Len(hist) \in Nat /\ Len(hist) <= next - 1
      /\ hist # <<>> => hist[1].seq = next - Len(hist)
  <2>1. hist \in Seq(Entry) /\ next \in Nat \ {0} /\ Len(hist) \in Nat /\ Len(hist) <= next - 1
    BY LenProperties DEF TypeOK, ClientTypeOK, HistorySeqs
  <2>2. hist # <<>> => 1 \in 1 .. Len(hist)
    BY <2>1, EmptySeq
  <2>3. hist # <<>> => hist[1].seq = next - 1 - Len(hist) + 1
    BY <2>2 DEF HistorySeqs, HistoryWindow
  <2> QED
    BY <2>1, <2>3
<1>2. hist = <<>> => Len(hist) = 0
  OBVIOUS
<1>3. PICK claim, m : claim = (IF a = cid THEN ls ELSE Null) /\ m = Len(hist)
  OBVIOUS
<1>4. CASE claim # Null /\ claim >= LatestSeq
  <2>1. C = <<>> /\ a = cid /\ ls # Null /\ claim = ls /\ ls \in Nat
    BY <1>3, <1>4 DEF CatchUp
  <2>2. ls >= next - 1 - Len(hist)
    BY <1>1, <1>4, <2>1 DEF LatestSeq
  <2> QED
    BY <2>1, <2>2 DEF Items
<1>5. CASE /\ ~ (claim # Null /\ claim >= LatestSeq)
           /\ claim # Null /\ hist # <<>> /\ claim >= hist[1].seq - 1
  <2>1. a = cid /\ ls # Null /\ claim = ls /\ ls \in Nat
    BY <1>3, <1>5
  <2>2. ls >= next - 1 - Len(hist)
    BY <1>1, <1>5, <2>1
  <2>3. PICK d, n : d = Since(hist, ls) /\ n = Len(d)
    OBVIOUS
  <2>4. PICK k \in 1 .. (Len(hist) + 1) : d = SuffixFrom(hist, k)
    BY <1>1, <2>1, <2>3, SinceShape
  <2>5. d \in Seq(Entry)
    BY <1>1, <2>4, SuffixProperties
  <2>6. Items(d) \subseteq Items(hist)
    BY <1>1, <2>4, ItemsOfSuffix
  <2>7. C = [i \in 1 .. n |-> Frame(d[i].seq, d[i].data, d[i].seq)]
    BY <1>3, <1>5, <2>1, <2>3 DEF CatchUp
  <2>8. Len(C) = n
    BY <2>3, <2>5, <2>7, LenProperties
  <2>9. ASSUME NEW f \in Items(C) PROVE f.seq # 0
    <3>1. PICK i \in 1 .. n : f = C[i]
      BY <2>8 DEF Items
    <3>2. f.seq = d[i].seq
      BY <2>7, <3>1 DEF Frame
    <3>3. d[i] \in Items(hist)
      BY <2>3, <2>6 DEF Items
    <3> QED
      BY <3>2, <3>3, HistNumbers
  <2> QED
    BY <2>1, <2>2, <2>9
<1>6. CASE /\ ~ (claim # Null /\ claim >= LatestSeq)
           /\ ~ (claim # Null /\ hist # <<>> /\ claim >= hist[1].seq - 1)
  <2>1. PICK s : s = Frame(0, FullSnapshot(hist), LatestSeq)
    OBVIOUS
  <2>2. C = <<s>> /\ s.seq = 0 /\ s.data = FullSnapshot(hist)
    BY <1>3, <1>6, <2>1 DEF CatchUp, Frame
  <2>3. ASSUME a = cid, ls # Null, ls >= next - 1 - Len(hist) PROVE FALSE
    <3>1. claim = ls /\ ls \in Nat
      BY <1>3, <2>3
    <3> QED
      BY <1>1, <1>2, <1>6, <2>3, <3>1 DEF LatestSeq
  <2> QED
    BY <2>2, <2>3
<1> QED
  BY <1>4, <1>5, <1>6

\* attach() for b, in these terms.
Primed(b) ==
  /\ Attached(b)
  /\ Chunks(prime[b])' = OnTheWay(b)' /\ prime'[b] # <<>> /\ Cut(b)' = next - 1
  /\ \/ /\ Honoured(b) /\ ~ Redrawn(b)'
        /\ \A f \in OnTheWay(b)' : /\ f.seq # 0 /\ lastSeq[b] < f.seq
                                   /\ \E h \in Items(hist) : Twin(f, h)
        /\ \A h \in Rest(lastSeq[b]) : \E f \in OnTheWay(b)' : Twin(f, h)
     \/ /\ ~ Honoured(b) /\ Redrawn(b)'
        /\ \E s : OnTheWay(b)' = {s} /\ s.seq = 0 /\ s.data = Data(Items(hist))

LEMMA PrimedEffect ==
  ASSUME TypeOK, HistorySeqs, NEW b \in Browsers, Attach(b)
  PROVE  Primed(b)
<1>1. lastSeq[b] \in Nat \cup {Null} /\ cid \in Nat /\ next \in Nat \ {0}
  BY BrowserTypes
<1>2. PICK C, h : C = CatchUp(lastSeq[b], aid[b]) /\ h = HelloFrame(LatestSeq, cid)
  OBVIOUS
<1>3. prime'[b] = Append(C, h) /\ rx'[b] = <<>> /\ cid # 0
  BY <1>2 DEF Attach, TypeOK, WsTypeOK
<1>4. C \in Seq(Frames) /\ \A i \in 1 .. Len(C) : ChunkFrame(C[i])
  BY <1>1, <1>2, CatchUpShape
<1>5. h \in Frames /\ h.kind = "hello" /\ h.seq = next - 1
  BY <1>1, <1>2 DEF HelloFrame, Frames, LatestSeq
<1>6. \A f \in Items(C) : ChunkFrame(f) /\ f.kind = "chunk"
  BY <1>4 DEF Items, ChunkFrame
<1>7. Items(Append(C, h)) = Items(C) \cup {h}
  BY <1>4, <1>5, ItemsAppended
<1>8. Items(<<>>) = {}
  BY DEF Items
<1>9. Chunks(prime'[b]) = Items(C) /\ Chunks(rx'[b]) = {}
  BY <1>3, <1>5, <1>6, <1>7, <1>8 DEF Chunks
<1>10. OnTheWay(b)' = Items(C) /\ Chunks(prime[b])' = Items(C)
  BY <1>9 DEF OnTheWay
<1>11. PICK P, n : P = prime'[b] /\ n = Len(C) /\ n \in Nat
  BY <1>4, LenProperties
<1>12. Len(P) = n + 1 /\ P[n + 1] = h
  BY <1>3, <1>4, <1>5, <1>11, AppendProperties
<1>13. P # <<>>
  BY <1>11, <1>12
<1>14. Cut(b)' = next - 1
  BY <1>5, <1>11, <1>12, <1>13 DEF Cut
<1>15. Attached(b)
  BY AttachEffect
<1>16. Covers(Items(C), lastSeq[b], aid[b])
  BY <1>1, <1>2, CatchUpCovers
<1>17. CASE /\ aid[b] = cid /\ lastSeq[b] # Null /\ lastSeq[b] >= next - 1 - Len(hist)
            /\ \A f \in Items(C) : f.seq # 0
  <2>1. Honoured(b) /\ ~ Redrawn(b)'
    BY <1>3, <1>10, <1>17 DEF Honoured, Redrawn
  <2>2. ASSUME NEW f \in Items(C) PROVE lastSeq[b] < f.seq /\ \E k \in Items(hist) : Twin(f, k)
    <3>1. PICK i \in 1 .. Len(C) : f = C[i]
      BY DEF Items
    <3>2. lastSeq[b] < C[i].seq
      BY <1>1, <1>2, <1>17, <3>1, CatchUpShape
    <3> QED
      BY <1>16, <1>17, <3>1, <3>2 DEF Covers, Twin
  <2>3. \A k \in Rest(lastSeq[b]) : \E f \in Items(C) : Twin(f, k)
    <3>1. \A k \in Items(hist) : k.seq \in Nat
      BY HistNumbers DEF Numbered
    <3> QED
      BY <1>1, <1>16, <1>17, <3>1 DEF Covers, Twin, Rest
  <2> QED
    BY <1>10, <1>11, <1>13, <1>14, <1>15, <1>17, <2>1, <2>2, <2>3 DEF Primed
<1>18. ASSUME ~ (aid[b] = cid /\ lastSeq[b] # Null /\ lastSeq[b] >= next - 1 - Len(hist)),
              NEW s, C = <<s>>, s.seq = 0, s.data = FullSnapshot(hist)
       PROVE  Primed(b)
  <2>1. Items(C) = {s}
    BY <1>18 DEF Items
  <2>2. Redrawn(b)' /\ ~ Honoured(b)
    BY <1>10, <1>18, <2>1 DEF Redrawn, Honoured
  <2>3. s.data = Data(Items(hist))
    BY <1>18 DEF FullSnapshot, Data, Items
  <2> QED
    BY <1>10, <1>11, <1>13, <1>14, <1>15, <1>18, <2>1, <2>2, <2>3 DEF Primed
<1>19. PICK ls, a : /\ ls = lastSeq[b] /\ a = aid[b] /\ ls \in Nat \cup {Null}
                    /\ C = CatchUp(ls, a)
  BY <1>1, <1>2
<1>20. \/ /\ a = cid /\ ls # Null /\ ls >= next - 1 - Len(hist)
          /\ \A f \in Items(C) : f.seq # 0
       \/ /\ ~ (a = cid /\ ls # Null /\ ls >= next - 1 - Len(hist))
          /\ \E s : C = <<s>> /\ s.seq = 0 /\ s.data = FullSnapshot(hist)
  BY <1>19, CatchUpKinds
<1> QED
  BY <1>17, <1>18, <1>19, <1>20

\* The reader task's step, for the history and for b.
ReadsFor(b, c, f, e) ==
  /\ Reads(c, e)
  /\ ReadFor(b, f, e)
  /\ f.data = {c}
  /\ prime'[b] = prime[b]
  /\ lost'[b] \subseteq lost[b] \cup Data(OnTheWay(b))

LEMMA ReadsForOne ==
  ASSUME TypeOK, HistorySeqs, LinesInOrder, NEW b \in Browsers, Streams(b), ReadStdout
  PROVE  \E c, f, e : ReadsFor(b, c, f, e)
<1>1. PICK c, e : Reads(c, e)
  BY ReadsOne
<1>2. PICK f, d : ReadFor(b, f, d)
  BY ReadEffect
<1>3. e \in Items(hist) \cup {d} /\ e.seq = next /\ e.data = {c}
  BY <1>1, <1>2 DEF Reads, ReadFor
<1>4. \A h \in Items(hist) : h.seq # next
  BY HistNumbers DEF Numbered
<1>5. e = d
  BY <1>3, <1>4
<1>6. f.data = {c}
  BY <1>2, <1>3, <1>5 DEF ReadFor
<1>7. /\ rx \in [Browsers -> Seq(Frames)] /\ lost \in [Browsers -> SUBSET (1 .. MaxOut)]
      /\ WsCap \in Nat \ {0}
  BY ServerAssumption DEF TypeOK, WsTypeOK, ServerAssumption
<1>8. Chunks(rx[b]) = Items(rx[b])
  BY LiveFrames DEF Streams
<1>9. Skipped(rx[b], WsCap) \subseteq Items(rx[b])
  <2>1. CASE rx[b] = <<>>
    <3>1. Len(rx[b]) = 0
      BY <2>1
    <3> QED
      BY <1>7, <3>1 DEF Skipped
  <2>2. CASE rx[b] # <<>>
    <3>1. rx[b] \in Seq(Frames)
      BY <1>7
    <3> QED
      BY <2>2, <3>1, ItemsTaken DEF Skipped
  <2> QED
    BY <2>1, <2>2
<1>10. lost'[b] \subseteq lost[b] \cup UNION {g.data : g \in Skipped(rx[b], WsCap)}
  BY <1>7 DEF ReadStdout
<1>11. lost'[b] \subseteq lost[b] \cup Data(OnTheWay(b))
  <2>1. UNION {g.data : g \in Skipped(rx[b], WsCap)} \subseteq Data(OnTheWay(b))
    BY <1>8, <1>9 DEF Data, OnTheWay
  <2> QED
    BY <1>10, <2>1
<1>12. prime'[b] = prime[b]
  BY DEF ReadStdout
<1> QED
  BY <1>1, <1>2, <1>5, <1>6, <1>11, <1>12 DEF ReadsFor

\* What b is told by a step.
LEMMA ToldStep ==
  ASSUME IInv, HistoryWhole, LinesInOrder, [Next]_vars, NEW b \in Browsers
  PROVE  \/ ReadStdout
         \/ /\ lost'[b] = lost[b]
            /\ \/ Told(b)' \subseteq Told(b)
               \/ Attach(b) /\ Told(b)' \subseteq Told(b) \cup Data(Items(hist))
            /\ \/ Connected
               \/ ClientSame
               \/ cid' = 0
<1>1. /\ TypeOK /\ HistorySeqs /\ ResumerWaits /\ Streams(b)
  BY DEF IInv, Streams
<1>2. CASE Idle(b) /\ (ClientSame \/ Connected)
  BY <1>2 DEF Idle, Told, OnTheWay
<1>3. CASE Closing(b)
  <2>1. OnTheWay(b)' = {} /\ Items(view[b])' \subseteq Items(view[b])
    BY <1>3 DEF Closing, OnTheWay, Chunks, Items
  <2> QED
    BY <1>3, <2>1 DEF Closing, Told, Data
<1>4. CASE Attach(b)
  <2>1. Primed(b)
    BY <1>1, <1>4, PrimedEffect
  <2>2. PICK X : X = OnTheWay(b)'
    OBVIOUS
  <2>3. Data(X) \subseteq Data(Items(hist))
    BY <2>1, <2>2 DEF Primed, Data, Twin
  <2>4. Items(view[b])' = Items(view[b]) /\ ClientSame /\ lost'[b] = lost[b]
    BY <2>1 DEF Primed, Attached
  <2> QED
    BY <1>4, <2>2, <2>3, <2>4 DEF Told
<1>5. ASSUME NEW f, Taking(b, f)
      PROVE  ClientSame /\ lost'[b] = lost[b] /\ Told(b)' \subseteq Told(b)
  <2>1. Took(b, f)
    BY <1>1, <1>5, TakingEffect
  <2>2. PICK X, Y, V, W : /\ X = OnTheWay(b) /\ Y = OnTheWay(b)'
                          /\ V = Items(view[b]) /\ W = Items(view[b])'
    OBVIOUS
  <2>3. Y \subseteq X /\ W \subseteq V \cup X
    BY <2>1, <2>2 DEF Took
  <2>4. Data(Y) \subseteq Data(X) /\ Data(W) \subseteq Data(V) \cup Data(X)
    BY <2>3 DEF Data
  <2> QED
    BY <1>5, <2>2, <2>4 DEF Taking, Told
<1> QED
  BY <1>1, <1>2, <1>3, <1>4, <1>5, StepOf

LEMMA MadeStep ==
  ASSUME IInv, HistoryWhole, LinesInOrder, [Next]_vars, NEW b \in Browsers, Made(b)
  PROVE  Made(b)'
<1>1. out' \in {out, out + 1} /\ out \in Nat
  BY LostMade DEF IInv
<1>2. 1 .. out \subseteq 1 .. out'
  BY <1>1
<1>3. CASE ReadStdout
  <2>1. PICK c, f, e : ReadsFor(b, c, f, e)
    BY <1>3, ReadsForOne DEF IInv, Streams
  <2>2. PICK X, Y, V : X = OnTheWay(b) /\ Y = OnTheWay(b)' /\ V = Items(view[b])
    OBVIOUS
  <2>3. Y \subseteq X \cup {f} /\ Items(view[b])' = V /\ f.data = {c}
    BY <2>1, <2>2 DEF ReadsFor, ReadFor, Sent
  <2>4. c \in 1 .. out
    BY <1>1, <2>1 DEF ReadsFor, Reads
  <2>5. Data(Y) \subseteq Data(X) \cup {c}
    BY <2>3 DEF Data
  <2>6. Data(X) \subseteq 1 .. out /\ Data(V) \subseteq 1 .. out /\ lost[b] \subseteq 1 .. out
    BY <2>2 DEF Made, Told
  <2>7. lost'[b] \subseteq 1 .. out
    BY <2>1, <2>2, <2>6 DEF ReadsFor
  <2> QED
    BY <1>2, <2>2, <2>3, <2>4, <2>5, <2>6, <2>7 DEF Made, Told
<1>4. CASE lost'[b] = lost[b] /\ Told(b)' \subseteq Told(b) \cup Data(Items(hist))
  BY <1>2, <1>4 DEF Made, HistoryWhole
<1> QED
  BY <1>3, <1>4, ToldStep

\* Between the daemon and the server only the reader task takes from what is owed.
LEMMA OwedStays ==
  ASSUME TypeOK, [Next]_vars, ~ Connected, ~ ReadStdout, conn' = "live"
  PROVE  conn = "live" /\ Owed' \subseteq Owed \cup {out + 1}
<1>1. CASE DaemonMoves /\ (PtyRead \/ PtyBroadcast \/ ChildExit)
  <2>1. conn = "live"
    BY <1>1 DEF PtyRead, PtyBroadcast, ChildExit
  <2> QED
    BY <1>1, <2>1, OwedRead, OwedSent
<1>2. CASE Rests
  BY <1>2 DEF Rests, Owed
<1> QED
  BY <1>1, <1>2, StepOfLine DEF DaemonMoves, DaemonGone, Accepts, Accept, Quits

\* A read drops the replay from the history only when what the history keeps goes beyond it.
LEMMA ReplayLeft ==
  ASSUME TypeOK, TypeOK', HistorySeqs, HistorySeqs', LinesInOrder, EntrySizes, EntrySizes',
         HistoryWhole, RingMax # 0, 2 * RingMax <= HistMax,
         AllRise(Items(hist')), NEW c, NEW e, Reads(c, e),
         NEW h \in Items(hist), h.seq = 1, h \notin Items(hist'), NEW x \in h.data
  PROVE  x <= c
<1>1. /\ hist \in Seq(Entry) /\ next \in Nat \ {0} /\ out \in Nat /\ MaxOut \in Nat
      /\ RingMax \in Nat \ {0} /\ HistMax \in Nat /\ Deep = RingMax
  BY DaemonAssumption, ServerAssumption
     DEF TypeOK, DaemonTypeOK, ClientTypeOK, DaemonAssumption, ServerAssumption, Deep
<1>2. PICK H, K, new : H = Items(hist) /\ K = Items(hist') /\ new = hist'
  OBVIOUS
<1>3. /\ c \in 1 .. MaxOut /\ e.seq = next /\ e.data = {c} /\ conn = "live" /\ conn' = "live"
      /\ new = HistAppend(hist, next, {c}) /\ e \in K /\ K \subseteq H \cup {e} /\ c \in Owed
  BY <1>2 DEF Reads
<1>4. new \in Seq(Entry) /\ K = Items(new)
  BY <1>2 DEF TypeOK, ClientTypeOK
<1>5. PICK m \in Nat : m = Len(new)
  BY <1>4, LenProperties
<1>6. HistMax < Deep + m /\ \A i \in 1 .. m : new[i].seq > 1
  <2>1. /\ \A f \in H : Cardinality(f.data) <= Deep
        /\ \A f \in H : f.seq > 1 => \E d \in 1 .. MaxOut : f.data = {d}
    <3>1. \A d \in 1 .. out : d \in 1 .. MaxOut
      BY <1>1 DEF TypeOK, DaemonTypeOK
    <3>2. \A f \in H : f.seq > 1 => \E d \in 1 .. out : f.data = {d}
      BY <1>2 DEF EntrySizes
    <3> QED
      BY <1>2, <3>1, <3>2 DEF EntrySizes
  <2>2. Consecutive(hist, next)
    BY DEF HistorySeqs, HistoryWindow, Consecutive
  <2>3. H \subseteq Items(new) \/ (HistMax < Deep + Len(new) /\ \A i \in 1 .. Len(new) : new[i].seq > 1)
    BY <1>1, <1>2, <1>3, <2>1, <2>2, HistAppendRun
  <2> QED
    BY <1>2, <1>5, <2>3
<1>7. PICK q : q = [i \in 1 .. m |-> CHOOSE d \in 1 .. out : new[i].data = {d}]
  OBVIOUS
<1>8. ASSUME NEW i \in 1 .. m
      PROVE  q[i] \in 1 .. out /\ new[i].data = {q[i]} /\ new[i].seq > 1 /\ new[i] \in K
  <2>1. new[i] \in K /\ new[i].seq > 1
    BY <1>4, <1>5, <1>6 DEF Items
  <2>2. \E d \in 1 .. out : new[i].data = {d}
    <3>1. out' = out
      BY DEF Reads
    <3> QED
      BY <1>2, <2>1, <3>1 DEF EntrySizes
  <2> QED
    BY <1>7, <2>1, <2>2
<1>9. \A i \in 1 .. m : new[i].seq = next' - 1 - m + i
  BY <1>2, <1>5 DEF HistorySeqs, HistoryWindow
<1>10. next' \in Nat
  BY DEF TypeOK, ClientTypeOK
<1>11. ASSUME NEW i \in 1 .. m, NEW j \in 1 .. m, i < j PROVE q[i] < q[j]
  <2>1. new[i].seq < new[j].seq
    BY <1>5, <1>9, <1>10, <1>11
  <2>2. Rises(new[i], new[j])
    BY <1>2, <1>8 DEF AllRise
  <2> QED
    BY <1>8, <2>1, <2>2 DEF Rises
<1>12. m # 0
  <2>1. e \in Items(new)
    BY <1>3, <1>4
  <2>2. Len(new) # 0
    BY <2>1 DEF Items
  <2> QED
    BY <1>5, <2>2
<1>13. q[1] + m - 1 <= q[m] /\ q[1] \in Nat /\ q[m] \in Nat
  <2>1. \A i \in 1 .. m : q[i] \in Nat
    BY <1>1, <1>8
  <2>2. 1 \in 1 .. m /\ m \in 1 .. m
    BY <1>5, <1>12
  <2> QED
    BY <1>5, <1>11, <1>12, <2>1, <2>2, RisingRun
<1>14. q[m] <= c
  <2>1. m \in 1 .. m
    BY <1>5, <1>12
  <2>2. PICK i \in 1 .. m : e = new[i]
    <3>1. e \in Items(new)
      BY <1>3, <1>4
    <3>2. PICK i \in 1 .. Len(new) : e = new[i]
      BY <3>1 DEF Items
    <3> QED
      BY <1>5, <3>2
  <2>3. q[i] = c
    BY <1>3, <1>8, <2>2
  <2>4. ASSUME i < m PROVE FALSE
    <3>1. new[i].seq < new[m].seq /\ new[m] \in K
      BY <1>5, <1>8, <1>9, <1>10, <2>1, <2>4
    <3>2. \A f \in H : f.seq < next
      BY <1>2, HistNumbers
    <3>3. new[m].seq \in Int
      BY <1>5, <1>9, <1>10, <2>1
    <3>4. new[m] \in H \/ new[m] = e
      BY <1>3, <3>1
    <3>5. new[m].seq <= next /\ new[i].seq = next
      BY <1>1, <1>3, <2>2, <3>2, <3>3, <3>4
    <3> QED
      BY <1>1, <3>1, <3>3, <3>5
  <2> QED
    BY <1>5, <2>1, <2>3, <2>4, <1>13
<1>15. SUFFICES ASSUME ~ (x <= c) PROVE FALSE
  OBVIOUS
<1>16. x \in 1 .. out
  BY DEF HistoryWhole, Data
<1>17. q[1] \in Line
  <2>1. 1 \in 1 .. m
    BY <1>5, <1>12
  <2>2. new[1] \in H \cup {e} /\ new[1].data = {q[1]} /\ new[1].seq > 1 /\ q[1] \in 1 .. out
    BY <1>3, <1>8, <2>1
  <2>3. CASE new[1] = e
    BY <1>3, <2>2, <2>3 DEF Line
  <2>4. CASE new[1] \in H
    <3>1. q[1] \in 1 .. MaxOut
      BY <1>1, <2>2 DEF TypeOK, DaemonTypeOK
    <3> QED
      BY <1>2, <1>3, <2>2, <2>4, <3>1 DEF Line, Live
  <2> QED
    BY <2>2, <2>3, <2>4
<1>18. q[1] < x
  BY <1>3, <1>5, <1>12, <1>13, <1>14, <1>15, <1>16
<1>19. (q[1] + 1) .. x \subseteq h.data
  BY <1>3, <1>17, <1>18 DEF HistoryWhole, Seam
<1>20. PICK a \in Int, z \in Int : a = q[1] + 1 /\ z = x
  BY <1>13, <1>16
<1>21. Cardinality(a .. z) = z - a + 1
  <2>1. Cardinality(a .. z) = IF a > z THEN 0 ELSE z - a + 1
    BY FS_Interval
  <2>2. ~ (a > z)
    BY <1>13, <1>16, <1>18, <1>20
  <2> QED
    BY <2>1, <2>2
<1>22. IsFiniteSet(h.data) /\ Cardinality(h.data) <= Deep
  <2>1. IsFiniteSet(1 .. out)
    BY <1>1, FS_Interval
  <2>2. h.data \subseteq 1 .. out
    BY DEF HistoryWhole, Data
  <2> QED
    BY <2>1, <2>2, FS_Subset DEF EntrySizes
<1>23. Cardinality(a .. z) <= Cardinality(h.data) /\ Cardinality(h.data) \in Nat
  <2>1. (a .. z) \subseteq h.data
    BY <1>19, <1>20
  <2> QED
    BY <1>22, <2>1, FS_Subset, FS_CardinalityType
<1>24. x - q[1] <= Deep
  BY SMTT(40), <1>1, <1>13, <1>16, <1>20, <1>21, <1>22, <1>23
<1> QED
  BY <1>1, <1>3, <1>5, <1>6, <1>12, <1>13, <1>14, <1>15, <1>16, <1>24

LEMMA ShownData ==
  ASSUME NEW b
  PROVE  Shown(b) = Data(Items(view[b]))
BY DEF Shown, Data, Items

\* The history keeps going at least as far as what b was told.
LEMMA AheadStep ==
  ASSUME IInv, IInv', LinesInOrder, RingTail, EntrySizes, EntrySizes', Remembered,
         Handshake, HistoryWhole, [Next]_vars, RingMax # 0, 2 * RingMax <= HistMax,
         cid # 0 => Precede(Items(hist)), cid' # 0 => AllRise(Items(hist')),
         NEW b \in Browsers, Made(b), Ahead(b)
  PROVE  Ahead(b)'
<1>1. TypeOK /\ TypeOK' /\ HistorySeqs /\ HistorySeqs' /\ Streams(b)
  BY DEF IInv, Streams
<1>2. out \in Nat /\ Owed \subseteq 1 .. out /\ Told(b) \subseteq 1 .. out
  BY <1>1, OwedMade DEF Made
<1>3. PICK H, K, T, U, O, P : /\ H = Items(hist) /\ K = Items(hist') /\ T = Told(b)
                              /\ U = Told(b)' /\ O = Owed /\ P = Owed'
  OBVIOUS
<1>4. Data(H) \subseteq 1 .. out
  BY <1>3 DEF HistoryWhole
<1>5. SUFFICES ASSUME cid' # 0, NEW x \in U
               PROVE  IF hist' = <<>> THEN conn' = "live" => \A c \in P : x < c
                      ELSE \E y \in Data(K) : x <= y
  BY <1>3 DEF Ahead
<1>6. CASE ReadStdout
  <2>1. PICK c, f, e : ReadsFor(b, c, f, e)
    BY <1>1, <1>6, ReadsForOne
  <2>2. /\ conn = "live" /\ cid # 0 /\ c \in O /\ e \in K /\ e.data = {c} /\ Reads(c, e)
    BY <1>3, <2>1 DEF ReadsFor, Reads, Remembered
  <2>3. hist' # <<>> /\ c \in Data(K)
    BY <1>3, <2>2 DEF Data, Items
  <2>4. U \subseteq T \cup {c}
    <3>1. PICK X, Y, V : X = OnTheWay(b) /\ Y = OnTheWay(b)' /\ V = Items(view[b])
      OBVIOUS
    <3>2. Y \subseteq X \cup {f} /\ Items(view[b])' = V /\ f.data = {c}
      BY <2>1, <3>1 DEF ReadsFor, ReadFor, Sent
    <3>3. Data(Y) \subseteq Data(X) \cup {c}
      BY <3>2 DEF Data
    <3> QED
      BY <1>3, <3>1, <3>2, <3>3 DEF Told
  <2>5. CASE x = c
    <3>1. x \in 1 .. out
      BY <1>2, <1>3, <2>2, <2>5
    <3>2. x <= x
      BY <3>1
    <3> QED
      BY <2>3, <2>5, <3>2
  <2>6. CASE x \in T /\ hist = <<>>
    <3>1. x < c
      BY <1>3, <2>2, <2>6 DEF Ahead
    <3> QED
      BY <1>2, <1>3, <2>2, <2>3, <2>6, <3>1
  <2>7. CASE x \in T /\ hist # <<>>
    <3>1. PICK y \in Data(H) : x <= y
      BY <1>3, <2>2, <2>7 DEF Ahead
    <3>2. PICK h \in H : y \in h.data
      BY DEF Data
    <3>3. CASE h \in K
      <4>1. y \in Data(K)
        BY <3>2, <3>3 DEF Data
      <4> QED
        BY <2>3, <3>1, <4>1
    <3>4. CASE h \notin K
      <4>1. h.seq \in Nat /\ h.seq >= 1
        BY <1>1, <1>3, HistNumbers DEF Numbered
      <4>2. CASE h.seq = 1
        <5>1. y <= c
          BY <1>1, <1>3, <1>5, <2>2, <3>2, <3>4, <4>2, ReplayLeft
        <5> QED
          BY <1>2, <1>3, <1>4, <2>2, <2>3, <2>7, <3>1, <5>1
      <4>3. CASE h.seq > 1
        <5>1. Awaited(y)
          BY <1>3, <2>2, <3>2, <4>3 DEF Precede
        <5>2. y < c
          BY <1>3, <2>2, <5>1 DEF Awaited, Owed, Items, Exit
        <5> QED
          BY <1>2, <1>3, <1>4, <2>2, <2>3, <2>7, <3>1, <5>2
      <4> QED
        BY <4>1, <4>2, <4>3
    <3> QED
      BY <3>3, <3>4
  <2> QED
    BY <2>4, <2>5, <2>6, <2>7
<1>7. CASE Connected
  <2>1. conn = "subscribed" /\ P = O
    BY <1>3, <1>7 DEF Connected, Owed
  <2>2. U \subseteq T
    BY <1>3, <1>7, <2>1, ToldStep DEF Attach, LockFree, ReadStdout
  <2>3. CASE ring = <<>>
    <3>1. hist' = <<>> /\ O = {}
      BY <1>3, <1>7, <2>1, <2>3 DEF Connected, Handshake
    <3> QED
      BY <2>1, <3>1
  <2>4. CASE ring # <<>>
    <3>1. ring \in Seq(1 .. MaxOut)
      BY <1>1 DEF TypeOK, DaemonTypeOK
    <3>2. PICK n \in Nat : n = Len(ring) /\ n # 0
      BY <2>4, <3>1, LenProperties, EmptySeq
    <3>3. Replay = (out - n + 1) .. out
      BY <1>1, <3>2, ReplayRange
    <3>4. out \in Replay
      BY <1>2, <3>2, <3>3
    <3>5. PICK h \in K : out \in h.data
      BY <1>1, <1>3, <1>7, <3>4, SeedItems
    <3>6. out \in Data(K) /\ hist' # <<>>
      BY <1>3, <3>5 DEF Data, Items
    <3> QED
      BY <1>2, <1>3, <2>2, <3>6
  <2> QED
    BY <2>3, <2>4
<1>8. CASE ClientSame /\ ~ ReadStdout /\ ~ Connected
  <2>1. cid # 0 /\ hist' = hist /\ K = H /\ U \subseteq T \cup Data(H)
    BY <1>3, <1>5, <1>8, ToldStep DEF ClientSame
  <2>2. CASE hist = <<>>
    <3>1. x \in T
      BY <1>3, <2>1, <2>2 DEF Data, Items
    <3>2. ASSUME conn' = "live", NEW c \in P PROVE x < c
      <4>1. conn = "live" /\ P \subseteq O \cup {out + 1}
        BY <1>1, <1>3, <1>8, <3>2, OwedStays
      <4>2. c \in O => x < c
        BY <1>3, <2>1, <2>2, <3>1, <4>1 DEF Ahead
      <4>3. x \in 1 .. out
        BY <1>2, <1>3, <3>1
      <4> QED
        BY <1>2, <3>2, <4>1, <4>2, <4>3
    <3> QED
      BY <2>1, <2>2, <3>2
  <2>3. CASE hist # <<>>
    <3>1. x \in T => \E y \in Data(H) : x <= y
      BY <1>3, <2>1, <2>3 DEF Ahead
    <3>2. x \in Data(H) => x \in 1 .. out
      BY <1>4
    <3>3. x \in Data(H) => x <= x
      BY <1>2, <3>2
    <3> QED
      BY <2>1, <2>3, <3>1, <3>3
  <2> QED
    BY <2>2, <2>3
<1> QED
  BY <1>5, <1>6, <1>7, <1>8, ToldStep

\* A snapshot on its way keeps ending no earlier than the screen.
LEMMA NoStepBackStep ==
  ASSUME IInv, [Next]_vars, NEW b \in Browsers, Ahead(b), NoStepBack(b)
  PROVE  NoStepBack(b)'
<1>1. /\ TypeOK /\ HistorySeqs /\ ResumerWaits /\ Streams(b)
  BY DEF IInv, Streams
<1>2. ASSUME prime'[b] = prime[b], view'[b] = view[b] PROVE NoStepBack(b)'
  <2>1. PICK V : V = Shown(b) /\ V = Shown(b)'
    BY <1>2 DEF Shown
  <2>2. PICK C : C = Chunks(prime[b]) /\ C = Chunks(prime[b])'
    BY <1>2
  <2>3. \A f \in C : f.seq = 0 /\ f.data # {} => \A x \in V : \E y \in f.data : x <= y
    BY <2>1, <2>2 DEF NoStepBack
  <2> QED
    BY <2>1, <2>2, <2>3 DEF NoStepBack
<1>3. CASE Closing(b)
  BY <1>3 DEF Closing, NoStepBack, Chunks, Items
<1>4. CASE Attach(b)
  <2>1. Primed(b)
    BY <1>1, <1>4, PrimedEffect
  <2>2. PICK V, C, D : V = Shown(b)' /\ C = Chunks(prime[b])' /\ D = Data(Items(hist))
    OBVIOUS
  <2>3. V = Shown(b) /\ cid # 0
    BY <2>1, <2>2 DEF Primed, Attached, Shown
  <2>4. ASSUME NEW f \in C, f.seq = 0, f.data # {}, NEW x \in V PROVE \E y \in f.data : x <= y
    <3>1. f.data = D
      BY <2>1, <2>2, <2>4 DEF Primed
    <3>2. hist # <<>>
      BY <2>2, <2>4, <3>1 DEF Data, Items
    <3>3. x \in Told(b)
      BY <2>3, <2>4, ShownData DEF Told
    <3> QED
      BY <2>2, <2>3, <3>1, <3>2, <3>3 DEF Ahead
  <2> QED
    BY <2>2, <2>4 DEF NoStepBack
<1>5. CASE ReadStdout
  <2>1. prime'[b] = prime[b] /\ view'[b] = view[b]
    BY <1>5 DEF ReadStdout, pageVars
  <2> QED
    BY <1>2, <2>1
<1>6. ASSUME NEW f, Taking(b, f) PROVE NoStepBack(b)'
  <2>1. \A g \in OnTheWay(b)' : g.seq # 0
    BY <1>1, <1>6, TakingEffect DEF Took
  <2>2. \A g \in Chunks(prime[b])' : g.seq # 0
    BY <2>1 DEF OnTheWay
  <2> QED
    BY <2>2 DEF NoStepBack
<1>7. CASE Idle(b)
  BY <1>2, <1>7 DEF Idle
<1> QED
  BY <1>1, <1>3, <1>4, <1>5, <1>6, <1>7, StepOf

\* Losing more spoils nothing.
LEMMA SoundMore ==
  ASSUME NEW S, NEW L, NEW M, L \subseteq M, NEW k, NEW O, NEW n
  PROVE  /\ Chain(S, L) => Chain(S, M)
         /\ Sound(S, L, k, O, n) => Sound(S, M, k, O, n)
BY DEF Chain, Fits, Sound

\* Where all of R is lost or in D, the chain of both is one of D.
LEMMA ChainOf ==
  ASSUME NEW D, NEW R, NEW M, NEW k, NEW O, NEW n, Sound(D \cup R, M, k, O, n),
         \A h \in R : h.data \subseteq M \/ \E f \in D : Twin(f, h)
  PROVE  Chain(D, M)
<1>1. PICK S : S = D \cup R
  OBVIOUS
<1>2. Chain(S, M)
  BY <1>1 DEF Sound
<1>3. \A f \in D : \E h \in S : Twin(f, h)
  BY <1>1 DEF Twin
<1>4. \A h \in S : h.data \subseteq M \/ \E f \in D : Twin(f, h)
  BY <1>1 DEF Twin
<1> QED
  BY <1>2, <1>3, <1>4, ChainThin

\* Numbered, below the next seq, of chunks that were made.
Placed(S) == Numbered(S) /\ \A f \in S : f.seq < next /\ f.data \subseteq 1 .. out

LEMMA OutputPlaced ==
  ASSUME IInv, NEW b \in Browsers, OutputRises(b), HistoryWhole, Made(b)
  PROVE  /\ OnLive(b) => cid # 0 /\ Placed(Strand(b))
         /\ Honoured(b) => Placed(Resumed(b))
         /\ Numbered(Items(view[b])) /\ Numbered(OnTheWay(b))
<1>1. TypeOK /\ HistorySeqs /\ EpochsInOrder
  BY DEF IInv
<1>2. PICK H, V, W, D, C : /\ H = Items(hist) /\ V = Items(view[b]) /\ W = OnTheWay(b)
                           /\ D = Destined(b) /\ C = OfClient(b)
  OBVIOUS
<1>3. Numbered(V) /\ Numbered(W) /\ Numbered(H)
  BY <1>1, <1>2, OutputNumbered
<1>4. \A f \in V \cup W \cup H : f.data \subseteq 1 .. out
  BY <1>2 DEF Made, Told, HistoryWhole, Data
<1>5. cid # 0 => \A g \in C \cup H : g.seq < next
  BY <1>2, BelowNext DEF OutputRises
<1>6. D \subseteq V \cup W
  BY <1>2 DEF Destined
<1>7. ASSUME OnLive(b) PROVE cid # 0 /\ Placed(Strand(b))
  <2>1. cid # 0 /\ D \subseteq C
    BY <1>1, <1>2, <1>7 DEF OnLive, EpochsInOrder, OfClient
  <2>2. Strand(b) \subseteq D \cup H
    BY <1>2 DEF Strand, Rest
  <2> QED
    BY <1>3, <1>4, <1>5, <1>6, <2>1, <2>2 DEF Placed, Numbered
<1>8. ASSUME Honoured(b) PROVE Placed(Resumed(b))
  <2>1. cid # 0 /\ V \subseteq C
    BY <1>2, <1>8 DEF Honoured, OfClient
  <2>2. Resumed(b) \subseteq V \cup H
    BY <1>2 DEF Resumed, Rest
  <2> QED
    BY <1>3, <1>4, <1>5, <2>1, <2>2 DEF Placed, Numbered
<1> QED
  BY <1>2, <1>3, <1>7, <1>8

\* A cursor is past all that is on the screen.
LEMMA ScreenBelow ==
  ASSUME IInv, NEW b \in Browsers, \A f \in Items(view[b]) : ChunkFrame(f), lastSeq[b] # Null
  PROVE  \A f \in Items(view[b]) : f.seq <= lastSeq[b]
<1>1. SUFFICES ASSUME NEW f \in Items(view[b]) PROVE f.seq <= lastSeq[b]
  OBVIOUS
<1>2. PICK V \in Seq(Frames) : V = view[b] /\ lastSeq[b] \in Nat
  BY BrowserTypes DEF IInv
<1>3. PICK i \in 1 .. Len(V) : f = V[i]
  BY <1>2 DEF Items
<1>4. f.seq \in Nat /\ f.top \in Nat
  BY <1>2, <1>3, FrameFields
<1>5. f.top <= lastSeq[b]
  BY <1>2, <1>3 DEF IInv, ScreenInOrder
<1> QED
  BY <1>2, <1>4, <1>5 DEF ChunkFrame

\* What a read keeps of the history, by its numbers.
LEMMA ReadWindow ==
  ASSUME TypeOK, TypeOK', HistorySeqs, HistorySeqs', next' = next + 1,
         NEW c, NEW e, Reads(c, e)
  PROVE  /\ next' - Len(hist') >= next - Len(hist)
         /\ \A h \in Items(hist) : h.seq >= next' - Len(hist') => h \in Items(hist')
<1>1. PICK H, K, n, m, s : /\ H = Items(hist) /\ K = Items(hist') /\ s = next
                           /\ n = Len(hist) /\ m = Len(hist')
  OBVIOUS
<1>2. /\ s \in Nat /\ n \in Nat /\ m \in Nat /\ e \in K /\ K \subseteq H \cup {e} /\ e.seq = s
      /\ \A f \in H : f \in K \/ \A g \in K : f.seq < g.seq
      /\ \A h \in H : h.seq \in Nat /\ h.seq < s /\ h.seq >= s - n
  <2>1. hist' \in Seq(Entry)
    BY DEF TypeOK, ClientTypeOK
  <2>2. m \in Nat
    BY <1>1, <2>1, LenProperties
  <2> QED
    BY <1>1, <2>2, HistNumbers DEF Reads, Numbered
<1>3. ASSUME NEW i \in 1 .. m PROVE hist'[i] \in K /\ hist'[i].seq = s - m + i
  <2>1. hist'[i].seq = next' - 1 - m + i
    BY <1>1, <1>3 DEF HistorySeqs, HistoryWindow
  <2> QED
    BY <1>1, <1>2, <1>3, <2>1 DEF Items
<1>4. m # 0
  BY <1>1, <1>2 DEF Items
<1>5. s - m + 1 >= s - n
  <2>1. 1 \in 1 .. m
    BY <1>2, <1>4
  <2>2. hist'[1] \in K /\ hist'[1].seq = s - m + 1
    BY <1>3, <2>1
  <2>3. CASE hist'[1] = e
    BY <1>2, <2>2, <2>3
  <2>4. CASE hist'[1] \in H
    BY <1>2, <2>2, <2>4
  <2> QED
    BY <1>2, <2>2, <2>3, <2>4
<1>6. ASSUME NEW h \in H, h.seq >= s + 1 - m PROVE h \in K
  <2>1. PICK i : i = h.seq - (s - m)
    OBVIOUS
  <2>2. i \in 1 .. m
    BY <1>2, <1>6, <2>1
  <2>3. hist'[i] \in K /\ hist'[i].seq = h.seq
    BY <1>2, <1>3, <1>6, <2>1, <2>2
  <2> QED
    BY <1>2, <1>6, <2>3
<1> QED
  BY <1>1, <1>2, <1>5, <1>6

\* What a step takes for good.
LEMMA MissingGrows ==
  ASSUME IInv, HistoryWhole, LinesInOrder, [Next]_vars, NEW b \in Browsers
  PROVE  Missing(b) \subseteq Missing(b)' /\ dlost' \subseteq Missing(b)'
<1>1. lost[b] \subseteq lost'[b]
  <2>1. CASE ReadStdout
    BY <2>1, ReadsForOne DEF IInv, Streams, ReadsFor, ReadFor
  <2> QED
    BY <2>1, ToldStep
<1>2. dlost \subseteq dlost'
  BY LostMade DEF IInv
<1> QED
  BY <1>1, <1>2 DEF Missing

\* What holds of b between two steps; what is to hold after it.
Standing(b) ==
  /\ IInv /\ OutputRises(b) /\ LinesInOrder /\ LineWhole /\ HistoryWhole /\ Made(b) /\ Known(b) /\ Gapped(b)
  /\ cid # 0 => Precede(Items(hist))
Stands(b) == Known(b) /\ Gapped(b)

\* Nothing happens to b.
LEMMA StandsIdle ==
  ASSUME NEW b \in Browsers, Standing(b), [Next]_vars, Idle(b), ClientSame \/ Connected
  PROVE  Stands(b)'
<1>1. TypeOK /\ IInv /\ LinesInOrder
  BY DEF Standing, IInv
<1>2. PICK L, M : L = Missing(b) /\ M = Missing(b)' /\ L \subseteq M /\ dlost' \subseteq M
  BY MissingGrows DEF Standing
<1>3. PICK V, W, D : V = Items(view[b]) /\ W = OnTheWay(b) /\ D = Destined(b)
  OBVIOUS
<1>4. /\ Items(view[b])' = V /\ OnTheWay(b)' = W /\ Destined(b)' = D
      /\ Redrawn(b)' = Redrawn(b) /\ Cut(b)' = Cut(b)
  BY <1>3 DEF Idle, OnTheWay, Destined, Redrawn, Cut
<1>5. Chain(V, M) /\ (bst[b] = "open" => Chain(D, M))
  BY <1>2, <1>3, SoundMore DEF Standing, Gapped
<1>6. CASE Connected
  <2>1. cid' = epochs + 1 /\ epochs \in Nat /\ ep[b] \in Nat /\ aid[b] \in Nat
        /\ ep[b] <= epochs /\ aid[b] <= epochs
    BY <1>1, <1>6, BrowserTypes DEF Connected, EpochsInOrder, IInv
  <2>2. ~ OnLive(b)' /\ ~ Honoured(b)'
    BY <2>1 DEF OnLive, Honoured, Idle
  <2>3. Known(b)'
    BY <2>2 DEF Known
  <2>4. Gapped(b)'
    BY <1>2, <1>3, <1>4, <1>5, <2>2 DEF Gapped, Idle
  <2> QED
    BY <2>3, <2>4 DEF Stands
<1>7. CASE ClientSame
  <2>1. ~ Connected /\ ~ ReadStdout
    <3>1. epochs + 1 # epochs /\ epochs + 1 # 0 /\ next + 1 # next
      BY <1>1, BrowserTypes
    <3>2. cid \in {0, epochs}
      BY <1>1 DEF IInv, EpochsInOrder
    <3> QED
      BY <1>7, <3>1, <3>2 DEF ClientSame, Connected, ReadStdout
  <2>2. /\ OnLive(b)' = OnLive(b) /\ Honoured(b)' = Honoured(b)
        /\ \A s : Rest(s)' = Rest(s)
    BY <1>7 DEF Idle, ClientSame, OnLive, Honoured, Rest
  <2>3. PICK S, R : /\ S = Strand(b) /\ R = Resumed(b) /\ S = Strand(b)' /\ R = Resumed(b)'
    BY <1>3, <1>4, <1>7 DEF Strand, Resumed, Rest, ClientSame, Idle
  <2>4. Known(b)'
    <3>1. PICK C, H, RC, RL : /\ C = Chunks(prime[b]) /\ C = Chunks(prime[b])' /\ H = Items(hist)
                              /\ H = Items(hist)' /\ RC = Rest(Cut(b)) /\ RC = Rest(Cut(b))'
                              /\ RL = Rest(lastSeq[b]) /\ RL = Rest(lastSeq[b])'
      BY <1>4, <1>7 DEF Idle, ClientSame, Rest
    <3> QED
      BY <1>3, <1>4, <1>7, <2>2, <3>1 DEF Standing, Known, Idle, ClientSame
  <2>5. ASSUME OnLive(b) PROVE Sound(S, M, conn', Owed', out')
    <3>1. Numbered(S) /\ \A f \in S : f.data \subseteq 1 .. out
      BY <2>3, <2>5, OutputPlaced DEF Standing, Placed
    <3>2. Sound(S, L, conn, Owed, out)
      BY <1>2, <2>3, <2>5 DEF Standing, Gapped
    <3> QED
      BY <1>1, <1>2, <2>1, <3>1, <3>2, SoundStays
  <2>6. ASSUME bst[b] # "open", Honoured(b) PROVE Sound(R, M, conn', Owed', out')
    <3>1. Numbered(R) /\ \A f \in R : f.data \subseteq 1 .. out
      BY <2>3, <2>6, OutputPlaced DEF Standing, Placed
    <3>2. Sound(R, L, conn, Owed, out)
      BY <1>2, <2>3, <2>6 DEF Standing, Gapped
    <3> QED
      BY <1>1, <1>2, <2>1, <3>1, <3>2, SoundStays
  <2>7. Gapped(b)'
    BY <1>2, <1>3, <1>4, <1>5, <2>2, <2>3, <2>5, <2>6 DEF Gapped, Idle
  <2> QED
    BY <2>4, <2>7 DEF Stands
<1> QED
  BY <1>6, <1>7

\* The connection of b goes.
LEMMA ResumedWhole ==
  ASSUME NEW b \in Browsers, Standing(b), Honoured(b)
  PROVE  Sound(Resumed(b), Missing(b), conn, Owed, out)
<1>1. TypeOK /\ IInv /\ EpochsInOrder /\ HistorySeqs /\ Known(b) /\ Gapped(b)
  BY DEF Standing, IInv
<1>2. SUFFICES ASSUME bst[b] = "open" PROVE Sound(Resumed(b), Missing(b), conn, Owed, out)
  BY <1>1 DEF Gapped
<1>3. PICK ls : ls = lastSeq[b] /\ ls \in Nat /\ aid[b] = cid /\ cid # 0 /\ ls >= next - 1 - Len(hist)
  BY <1>1, BrowserTypes DEF Honoured
<1>4. OnLive(b)
  <2>1. aid[b] <= ep[b] /\ ep[b] <= epochs /\ cid = epochs /\ epochs \in Nat /\ ep[b] \in Nat
    BY <1>1, <1>2, <1>3, BrowserTypes DEF EpochsInOrder
  <2> QED
    BY <1>2, <1>3, <2>1 DEF OnLive
<1>5. ~ Redrawn(b)
  BY <1>1, <1>4 DEF Known
<1>6. PICK V, W, H, S, R, L, x :
        /\ V = Items(view[b]) /\ W = OnTheWay(b) /\ H = Items(hist) /\ S = Strand(b)
        /\ R = Resumed(b) /\ L = Missing(b) /\ x = Cut(b)
  OBVIOUS
<1>7. /\ S = W \cup V \cup {h \in H : h.seq > x}
      /\ R = V \cup {h \in H : h.seq > ls}
  BY <1>3, <1>5, <1>6 DEF Strand, Resumed, Destined, Rest
<1>8. \A f \in W : f.seq \in Nat /\ f.seq # 0 /\ ls < f.seq
  <2>1. Numbered(W)
    BY <1>1, <1>6, OutputNumbered
  <2>2. \A f \in W : f.seq # 0
    BY <1>5, <1>6 DEF Redrawn
  <2> QED
    BY <1>1, <1>3, <1>4, <1>6, <2>1, <2>2 DEF Known, Numbered
<1>9. \A f \in W : \E h \in H : Twin(f, h)
  <2>1. next \in Nat /\ Len(hist) \in Nat
    BY <1>1, HistNumbers
  <2>2. \A f \in W : f.seq >= next - Len(hist)
    BY <1>3, <1>8, <2>1
  <2> QED
    BY <1>1, <1>4, <1>6, <1>8, <2>2 DEF Known
<1>10. ASSUME NEW h \in H, h.seq > x PROVE h.data \subseteq L \/ \E f \in W : Twin(f, h)
  BY <1>1, <1>4, <1>6, <1>10 DEF Known, Rest, Missing
<1>11. ASSUME NEW h \in H, h.seq > ls, ~ (h.seq > x) PROVE \E f \in W : Twin(f, h)
  <2>1. prime[b] # <<>>
    BY <1>3, <1>6, <1>11 DEF Cut
  <2>2. h.seq <= x
    <3>1. h.seq \in Nat
      BY <1>1, <1>6, HistNumbers DEF Numbered
    <3>2. x \in Nat
      <4>1. PICK P, n : P = prime[b] /\ n = Len(P)
        OBVIOUS
      <4>2. P \in Seq(Frames) /\ n \in 1 .. n
        BY <1>1, <2>1, <4>1, BrowserTypes, EmptySeq
      <4>3. P[n].seq \in Nat
        BY <4>1, <4>2, FrameFields
      <4> QED
        BY <1>6, <2>1, <4>1, <4>3 DEF Cut
    <3> QED
      BY <1>11, <3>1, <3>2
  <2>3. \E f \in Chunks(prime[b]) : Twin(f, h)
    BY <1>1, <1>3, <1>4, <1>5, <1>6, <1>11, <2>1, <2>2 DEF Known, Rest, Null
  <2> QED
    BY <1>6, <2>3 DEF OnTheWay
<1>12. \A f \in R : \E h \in S : Twin(f, h)
  BY <1>7, <1>11 DEF Twin
<1>13. ASSUME NEW h \in W PROVE \E k \in R : Twin(k, h)
  <2>1. PICK k \in H : Twin(h, k)
    BY <1>9
  <2>2. k.seq > ls
    BY <1>3, <1>8, <2>1 DEF Twin
  <2> QED
    BY <1>7, <2>1, <2>2 DEF Twin
<1>14. \A h \in S : h.data \subseteq L \/ \E k \in R : Twin(k, h)
  <2>1. \A h \in V : \E k \in R : Twin(k, h)
    BY <1>7 DEF Twin
  <2>2. ASSUME NEW h \in H, h.seq > x PROVE h.data \subseteq L \/ \E k \in R : Twin(k, h)
    <3>1. h.data \subseteq L \/ \E f \in W : Twin(f, h)
      BY <1>10, <2>2
    <3> QED
      BY <1>13, <3>1 DEF Twin
  <2> QED
    BY <1>7, <1>13, <2>1, <2>2
<1>15. Kept(R, S, L)
  BY <1>12, <1>14 DEF Kept
<1>16. PICK k, O, n : k = conn /\ O = Owed /\ n = out
  OBVIOUS
<1>17. Sound(S, L, k, O, n)
  BY <1>1, <1>4, <1>6, <1>16 DEF Gapped
<1>18. Sound(R, L, k, O, n)
  BY <1>15, <1>17, SoundThin
<1> QED
  BY <1>6, <1>16, <1>18

LEMMA StandsClosed ==
  ASSUME NEW b \in Browsers, Standing(b), [Next]_vars, Closing(b)
  PROVE  Stands(b)'
<1>1. TypeOK /\ IInv /\ LinesInOrder /\ \A f \in Items(view[b]) : ChunkFrame(f)
  BY DEF Standing, IInv, OutputRises
<1>2. PICK L, M : L = Missing(b) /\ M = Missing(b)' /\ L \subseteq M /\ dlost' \subseteq M
  BY MissingGrows DEF Standing
<1>3. PICK V, U, R, Q : V = Items(view[b]) /\ U = Items(view[b])' /\ R = Resumed(b) /\ Q = Resumed(b)'
  OBVIOUS
<1>4. U = V \/ U = {}
  BY <1>3 DEF Closing, Items
<1>5. Chain(U, M)
  <2>1. Chain(V, M)
    BY <1>2, <1>3, SoundMore DEF Standing, Gapped
  <2> QED
    BY <1>4, <2>1 DEF Chain
<1>6. Known(b)' /\ ~ OnLive(b)' /\ bst'[b] # "open"
  BY DEF Closing, Known, OnLive
<1>7. ASSUME Honoured(b)' PROVE Sound(Q, M, conn', Owed', out')
  <2>1. ClientSame /\ Honoured(b) /\ lastSeq'[b] = lastSeq[b] /\ lastSeq[b] # Null
    BY <1>7 DEF Closing, Honoured, ClientSame
  <2>2. ~ Connected /\ ~ ReadStdout
    <3>1. epochs + 1 # epochs /\ epochs + 1 # 0 /\ next + 1 # next
      BY <1>1, BrowserTypes
    <3>2. cid \in {0, epochs}
      BY <1>1 DEF IInv, EpochsInOrder
    <3> QED
      BY <2>1, <3>1, <3>2 DEF ClientSame, Connected, ReadStdout
  <2>3. Sound(R, L, conn, Owed, out)
    BY <1>2, <1>3, <2>1, ResumedWhole
  <2>4. Numbered(R) /\ \A f \in R : f.data \subseteq 1 .. out
    BY <1>3, <2>1, OutputPlaced DEF Standing, Placed
  <2>5. Sound(R, M, conn', Owed', out')
    BY <1>1, <1>2, <2>2, <2>3, <2>4, SoundStays
  <2>6. PICK T : T = Rest(lastSeq[b]) /\ R = V \cup T /\ Q = U \cup T
    BY <1>3, <2>1 DEF Resumed, Rest, ClientSame
  <2>7. Kept(Q, R, M)
    <3>1. Q \subseteq R
      BY <1>4, <2>6
    <3>2. ASSUME U = {}, NEW f \in T, NEW h \in V, f.seq <= h.seq PROVE FALSE
      <4>1. h.seq <= lastSeq[b]
        BY <1>1, <1>3, <2>1, <3>2, ScreenBelow
      <4>2. f.seq > lastSeq[b] /\ f.seq \in Nat /\ h.seq \in Nat /\ lastSeq[b] \in Nat
        BY <1>1, <1>3, <2>1, <2>4, <2>6, <3>2, BrowserTypes DEF Rest, Numbered
      <4> QED
        BY <3>2, <4>1, <4>2
    <3>3. \A f \in Q, h \in R : f.seq <= h.seq => h \in Q
      BY <1>4, <2>6, <3>2
    <3> QED
      BY <3>1, <3>3 DEF Kept, Twin
  <2>8. PICK k, O, n : k = conn' /\ O = Owed' /\ n = out'
    OBVIOUS
  <2>9. Sound(Q, M, k, O, n)
    BY <2>5, <2>7, <2>8, SoundThin
  <2> QED
    BY <2>8, <2>9
<1>8. Gapped(b)'
  BY <1>2, <1>3, <1>5, <1>6, <1>7 DEF Gapped
<1> QED
  BY <1>6, <1>8 DEF Stands

\* b attaches.
LEMMA StandsAttached ==
  ASSUME NEW b \in Browsers, Standing(b), Attach(b)
  PROVE  Stands(b)'
<1>1. TypeOK /\ IInv /\ HistorySeqs /\ Known(b) /\ Gapped(b) /\ Primed(b)
  BY PrimedEffect DEF Standing, IInv
<1>2. /\ conn' = conn /\ out' = out /\ Owed' = Owed /\ dlost' = dlost /\ lost'[b] = lost[b]
      /\ bst[b] = "upgraded" /\ bst[b] # "open"
  BY DEF Attach, daemonVars, Owed
<1>3. ClientSame /\ bst'[b] = "open" /\ ep'[b] = cid /\ cid # 0 /\ cid' = cid /\ hist' = hist
      /\ next' = next /\ lastSeq'[b] = lastSeq[b] /\ aid'[b] = aid[b] /\ view'[b] = view[b]
  BY <1>1 DEF Primed, Attached, ClientSame
<1>4. PICK L, V, X, H, k, O, n :
        /\ L = Missing(b) /\ L = Missing(b)' /\ V = Items(view[b]) /\ V = Items(view[b])'
        /\ X = OnTheWay(b)' /\ H = Items(hist) /\ H = Items(hist)'
        /\ k = conn /\ O = Owed /\ n = out
  BY <1>2, <1>3 DEF Missing
<1>5. PICK ls : ls = lastSeq[b]
  OBVIOUS
<1>6. PICK RL : RL = {h \in H : h.seq > ls} /\ RL = Rest(lastSeq[b]) /\ RL = Rest(lastSeq[b])'
  BY <1>3, <1>4, <1>5 DEF Rest
<1>7. Rest(Cut(b))' = {}
  <2>1. \A h \in H : ~ (h.seq > next - 1)
    <3>1. \A h \in H : h.seq \in Nat /\ h.seq < next /\ next \in Nat
      BY <1>1, <1>4, HistNumbers DEF Numbered
    <3> QED
      BY <3>1
  <2> QED
    BY <1>1, <1>4, <2>1 DEF Primed, Rest
<1>8. OnLive(b)' /\ Honoured(b)' = Honoured(b)
  BY <1>3 DEF OnLive, Honoured
<1>9. PICK D : D = Destined(b)' /\ D = X \cup (IF Redrawn(b)' THEN {} ELSE V)
  BY <1>4 DEF Destined
<1>10. Strand(b)' = D
  BY <1>7, <1>9 DEF Strand
<1>11. CASE /\ Honoured(b) /\ ~ Redrawn(b)'
            /\ \A f \in X : f.seq # 0 /\ ls < f.seq /\ \E h \in H : Twin(f, h)
            /\ \A h \in RL : \E f \in X : Twin(f, h)
  <2>1. Known(b)'
    <3>1. lastSeq[b] # Null /\ aid[b] = cid
      BY <1>11 DEF Honoured
    <3>2. Chunks(prime[b])' = X
      BY <1>1, <1>4 DEF Primed
    <3>3. PICK C : C = Chunks(prime[b])' /\ C = X
      BY <3>2
    <3> QED
      BY <1>3, <1>4, <1>5, <1>6, <1>7, <1>11, <3>1, <3>3 DEF Known
  <2>2. PICK R : R = Resumed(b) /\ R = V \cup RL
    BY <1>4, <1>6 DEF Resumed
  <2>3. Sound(R, L, k, O, n)
    BY <1>1, <1>2, <1>4, <1>11, <2>2 DEF Gapped
  <2>4. D = X \cup V
    BY <1>9, <1>11
  <2>5. Kept(D, R, L)
    <3>1. \A h \in H : h.seq \in Nat
      BY <1>1, <1>4, HistNumbers DEF Numbered
    <3>2. ASSUME NEW f \in X PROVE \E h \in R : Twin(f, h)
      <4>1. PICK h \in H : Twin(f, h) /\ ls < f.seq
        BY <1>11
      <4>2. h.seq > ls
        BY <4>1 DEF Twin
      <4> QED
        BY <1>6, <2>2, <4>1, <4>2
    <3>3. \A f \in D : \E h \in R : Twin(f, h)
      BY <2>2, <2>4, <3>2 DEF Twin
    <3>4. \A h \in R : \E f \in D : Twin(f, h)
      BY <1>11, <2>2, <2>4 DEF Twin
    <3> QED
      BY <3>3, <3>4 DEF Kept
  <2>6. Sound(D, L, k, O, n)
    BY <2>3, <2>5, SoundThin
  <2>7. Chain(V, L) /\ Chain(D, L)
    BY <1>1, <1>4, <2>6 DEF Gapped, Sound
  <2>8. Gapped(b)'
    BY <1>2, <1>3, <1>4, <1>9, <1>10, <2>6, <2>7 DEF Gapped
  <2> QED
    BY <2>1, <2>8 DEF Stands
<1>12. CASE /\ ~ Honoured(b) /\ Redrawn(b)'
            /\ \E s : X = {s} /\ s.seq = 0 /\ s.data = Data(H)
  <2>1. PICK s : X = {s} /\ s.seq = 0 /\ s.data = Data(H)
    BY <1>12
  <2>2. Known(b)'
    <3>1. PICK C : C = Chunks(prime[b])' /\ C = X
      BY <1>1, <1>4 DEF Primed
    <3> QED
      BY <1>3, <1>4, <1>6, <1>7, <1>8, <1>12, <2>1, <3>1 DEF Known
  <2>3. D = {s}
    BY <1>9, <1>12, <2>1
  <2>4. Sound(H, dlost, k, O, n)
    BY <1>3, <1>4 DEF Standing, HistoryWhole
  <2>5. dlost \subseteq L
    BY <1>4 DEF Missing
  <2>6. PICK E : E = dlost
    OBVIOUS
  <2>7. Sound(H, L, k, O, n)
    BY <2>4, <2>5, <2>6, SoundMore
  <2>8. Numbered(H)
    BY <1>1, <1>4, HistNumbers
  <2>9. Sound(D, L, k, O, n)
    BY <2>1, <2>3, <2>7, <2>8, SoundMerged
  <2>10. Chain(V, L) /\ Chain(D, L)
    BY <1>1, <1>4, <2>9 DEF Gapped, Sound
  <2>11. Gapped(b)'
    BY <1>2, <1>3, <1>4, <1>9, <1>10, <2>9, <2>10 DEF Gapped
  <2> QED
    BY <2>2, <2>11 DEF Stands
<1>13. \/ /\ Honoured(b) /\ ~ Redrawn(b)'
          /\ \A f \in X : /\ f.seq # 0 /\ lastSeq[b] < f.seq
                          /\ \E h \in Items(hist) : Twin(f, h)
          /\ \A h \in Rest(lastSeq[b]) : \E f \in X : Twin(f, h)
       \/ /\ ~ Honoured(b) /\ Redrawn(b)'
          /\ \E s : X = {s} /\ s.seq = 0 /\ s.data = Data(Items(hist))
  BY <1>1, <1>4 DEF Primed
<1> QED
  BY <1>4, <1>5, <1>6, <1>11, <1>12, <1>13

\* The reader task's step, for b.
LEMMA StandsRead ==
  ASSUME NEW b \in Browsers, Standing(b), IInv', ReadStdout
  PROVE  Stands(b)'
<1>1. /\ TypeOK /\ IInv /\ HistorySeqs /\ Known(b) /\ Gapped(b) /\ LinesInOrder /\ Streams(b)
      /\ LineWhole /\ TypeOK' /\ HistorySeqs' /\ HistoryWhole /\ (cid # 0 => Precede(Items(hist)))
  BY DEF Standing, IInv, Streams
<1>2. PICK c, f, e : ReadsFor(b, c, f, e)
  BY <1>1, ReadsForOne
<1>3. /\ Reads(c, e) /\ f.seq = next /\ f.data = {c} /\ e.seq = next /\ e.data = {c}
      /\ cid' = cid /\ next' = next + 1 /\ bst'[b] = bst[b] /\ ep'[b] = ep[b]
      /\ lastSeq'[b] = lastSeq[b] /\ aid'[b] = aid[b] /\ view'[b] = view[b]
      /\ prime'[b] = prime[b] /\ (Redrawn(b)' <=> Redrawn(b)) /\ lost[b] \subseteq lost'[b]
      /\ conn = "live" /\ out' = out /\ dlost' = dlost
  BY <1>2 DEF ReadsFor, ReadFor, Reads
<1>4. PICK L, M, V, W, X, H, K, x, ls :
        /\ L = Missing(b) /\ M = Missing(b)' /\ V = Items(view[b]) /\ V = Items(view[b])'
        /\ W = OnTheWay(b) /\ X = OnTheWay(b)' /\ H = Items(hist) /\ K = Items(hist')
        /\ x = Cut(b) /\ x = Cut(b)' /\ ls = lastSeq[b]
  BY <1>3 DEF Cut
<1>5. L \subseteq M /\ lost'[b] \subseteq M /\ dlost \subseteq L
  BY <1>3, <1>4 DEF Missing
<1>6. /\ e \in K /\ K \subseteq H \cup {e} /\ next \in Nat
      /\ next' - Len(hist') >= next - Len(hist) /\ Len(hist) \in Nat /\ Len(hist') \in Nat
      /\ \A h \in H : h.seq >= next' - Len(hist') => h \in K
      /\ \A h \in H : h.seq \in Nat /\ h.seq < next
  <2>1. hist' \in Seq(Entry)
    BY <1>1 DEF TypeOK, ClientTypeOK
  <2>2. Len(hist') \in Nat
    BY <2>1, LenProperties
  <2> QED
    BY <1>1, <1>3, <1>4, <2>2, ReadWindow, HistNumbers DEF Reads, Numbered
<1>7. PICK k, O, n : k = conn' /\ O = Owed' /\ n = out'
  OBVIOUS
<1>8. ASSUME Honoured(b)' PROVE Honoured(b) /\ ls \in Nat /\ ls >= next' - 1 - Len(hist') /\ ls < next
  <2>1. /\ aid[b] = cid /\ cid # 0 /\ ls # Null /\ ls >= next' - 1 - Len(hist')
        /\ ls \in Nat \cup {Null}
    BY <1>1, <1>3, <1>4, <1>8, BrowserTypes DEF Honoured
  <2>2. ls >= next - 1 - Len(hist)
    BY <1>3, <1>6, <2>1
  <2>3. ls < next
    BY <1>1, <1>4, <2>1 DEF IInv, ScreenInOrder
  <2> QED
    BY <1>4, <2>1, <2>2, <2>3 DEF Honoured
<1>9. Chain(V, M)
  BY <1>1, <1>4, <1>5, SoundMore DEF Gapped
<1>10. ASSUME OnLive(b) PROVE Stands(b)'
  <2>1. /\ f \in X /\ X \subseteq W \cup {f} /\ \A g \in W : g \in X \/ g.data \subseteq lost'[b]
    <3>1. PICK gone : Sent(X, W, f, gone) /\ \A g \in gone : g.data \subseteq lost'[b]
      BY <1>2, <1>4, <1>10 DEF ReadsFor, ReadFor, OnLive
    <3> QED
      BY <3>1 DEF Sent
  <2>2. PICK S, D, R, Z, Q :
          /\ S = Strand(b) /\ D = Destined(b)' /\ R = {h \in K : h.seq > x} /\ Z = D \cup R
          /\ Z = Strand(b)' /\ D = X \cup (IF Redrawn(b) THEN {} ELSE V)
          /\ Q = {h \in H : h.seq > x} /\ Q = Rest(Cut(b)) /\ R = Rest(Cut(b))'
          /\ S = W \cup (IF Redrawn(b) THEN {} ELSE V) \cup Q
    <3>1. Destined(b)' = X \cup (IF Redrawn(b) THEN {} ELSE V)
      BY <1>3, <1>4 DEF Destined
    <3>2. Destined(b) = W \cup (IF Redrawn(b) THEN {} ELSE V)
      BY <1>4 DEF Destined
    <3>3. Rest(Cut(b)) = {h \in H : h.seq > x} /\ Rest(Cut(b))' = {h \in K : h.seq > x}
      BY <1>4 DEF Rest
    <3>4. Strand(b) = Destined(b) \cup Rest(Cut(b)) /\ Strand(b)' = Destined(b)' \cup Rest(Cut(b))'
      BY DEF Strand
    <3> QED
      BY <3>1, <3>2, <3>3, <3>4
  <2>3. cid # 0 /\ Numbered(S) /\ \A g \in S : g.seq < next /\ g.data \subseteq 1 .. out
    BY <1>10, <2>2, OutputPlaced DEF Standing, Placed
  <2>4. \A g \in W : g.seq \in Nat /\ g.seq < next
    BY <2>2, <2>3 DEF Numbered
  <2>5. ASSUME NEW h \in Q PROVE h.data \subseteq lost'[b] \/ \E g \in X : Twin(g, h)
    <3>1. h.data \subseteq lost[b] \/ \E g \in W : Twin(g, h)
      BY <1>1, <1>4, <1>10, <2>2, <2>5 DEF Known
    <3> QED
      BY <1>3, <2>1, <3>1 DEF Twin
  <2>6. ASSUME NEW h \in R PROVE h.data \subseteq lost'[b] \/ \E g \in X : Twin(g, h)
    <3>1. h = e \/ h \in Q
      BY <1>6, <2>2, <2>6
    <3> QED
      BY <1>3, <2>1, <2>5, <3>1 DEF Twin
  <2>7. ASSUME NEW g \in X, g.seq # 0, g.seq >= next' - Len(hist') PROVE \E h \in K : Twin(g, h)
    <3>1. CASE g = f
      BY <1>3, <1>6, <3>1 DEF Twin
    <3>2. CASE g \in W
      <4>1. g.seq >= next - Len(hist)
        BY <1>3, <1>6, <2>4, <2>7, <3>2
      <4>2. PICK h \in H : Twin(g, h)
        BY <1>1, <1>4, <1>10, <2>7, <3>2, <4>1 DEF Known
      <4> QED
        BY <1>6, <2>7, <4>2 DEF Twin
    <3> QED
      BY <2>1, <2>7, <3>1, <3>2
  <2>8. ASSUME prime[b] # <<>>, ls # Null, ~ Redrawn(b), aid[b] = cid,
               NEW h \in K, h.seq > ls, h.seq <= x
        PROVE  \E g \in Chunks(prime[b]) : Twin(g, h)
    <3>1. x < next
      BY <1>1, <1>4, <1>10, <2>8 DEF Cut, IInv, PrimeInOrder, OnLive
    <3>2. x \in Nat
      <4>1. PICK P, m : P = prime[b] /\ m = Len(P)
        OBVIOUS
      <4>2. P \in Seq(Frames) /\ m \in 1 .. m
        BY <1>1, <2>8, <4>1, BrowserTypes, EmptySeq
      <4>3. P[m].seq \in Nat
        BY <4>1, <4>2, FrameFields
      <4> QED
        BY <1>4, <2>8, <4>1, <4>3 DEF Cut
    <3>3. h \in H
      BY <1>3, <1>6, <2>8, <3>1, <3>2
    <3> QED
      BY <1>1, <1>4, <1>10, <2>8, <3>3 DEF Known, Rest
  <2>9. ASSUME NEW g \in X, g.seq # 0, aid[b] = cid PROVE ls < g.seq
    <3>1. CASE g \in W
      BY <1>1, <1>4, <1>10, <2>9, <3>1 DEF Known
    <3>2. CASE g = f
      <4>1. ls \in Nat \cup {Null}
        BY <1>1, <1>4, BrowserTypes
      <4>2. ls # Null => ls < next
        BY <1>1, <1>4, <2>3, <2>9 DEF IInv, ScreenInOrder
      <4> QED
        BY <1>3, <1>6, <3>2, <4>1, <4>2 DEF Null
    <3> QED
      BY <2>1, <2>9, <3>1, <3>2
  <2>10. Known(b)'
    <3>1. PICK C, RL : C = Chunks(prime[b]) /\ C = Chunks(prime[b])'
                       /\ RL = Rest(lastSeq[b])' /\ RL = {h \in K : h.seq > ls}
      BY <1>3, <1>4 DEF Rest
    <3>2. prime[b] # <<>> /\ ls # Null /\ ~ Redrawn(b) /\ aid[b] = cid =>
            \A h \in RL : h.seq <= x => \E g \in C : Twin(g, h)
      BY <2>8, <3>1
    <3>3. Redrawn(b) => ~ Honoured(b)'
      BY <1>1, <1>8, <1>10 DEF Known
    <3>4. /\ \A g \in C : g.seq # 0 => aid[b] = cid /\ ls # Null
          /\ \A g, h \in C : g.seq = 0 => h = g
      BY <1>1, <1>4, <1>10, <3>1 DEF Known
    <3> QED
      BY <1>3, <1>4, <2>2, <2>6, <2>7, <2>9, <3>1, <3>2, <3>3, <3>4 DEF Known
  <2>11. Sound(S, L, conn, Owed, out)
    BY <1>1, <1>4, <1>10, <2>2 DEF Gapped
  <2>12. Precede(Items(hist))
    BY <1>1, <2>3
  <2>13. PICK T : T = S \cup {e} /\ Sound(T, L, k, O, n)
    BY <1>1, <1>3, <1>5, <1>7, <2>3, <2>11, <2>12, ReadGrows
  <2>14. Kept(Z, T, M)
    <3>1. ASSUME NEW g \in Z PROVE \E h \in T : Twin(g, h)
      <4>1. g = f \/ g \in T
        BY <1>6, <2>1, <2>2, <2>13, <3>1
      <4> QED
        BY <1>3, <2>13, <4>1 DEF Twin
    <3>2. ASSUME NEW h \in T PROVE h.data \subseteq M \/ \E g \in Z : Twin(g, h)
      <4>1. CASE h = e
        BY <1>3, <2>1, <2>2, <4>1 DEF Twin
      <4>2. CASE h \in W
        BY <1>5, <2>1, <2>2, <4>2 DEF Twin
      <4>3. CASE h \in V /\ ~ Redrawn(b)
        BY <2>2, <4>3 DEF Twin
      <4>4. CASE h \in Q
        BY <1>5, <2>2, <2>5, <4>4
      <4> QED
        BY <2>2, <2>13, <3>2, <4>1, <4>2, <4>3, <4>4
    <3> QED
      BY <3>1, <3>2 DEF Kept
  <2>15. Sound(Z, M, k, O, n)
    BY <1>5, <2>13, <2>14, SoundThin
  <2>16. Chain(D, M)
    <3>1. \A h \in R : h.data \subseteq M \/ \E g \in D : Twin(g, h)
      BY <1>5, <2>2, <2>6
    <3>2. Sound(D \cup R, M, k, O, n)
      BY <2>2, <2>15
    <3> QED
      BY <3>1, <3>2, ChainOf
  <2>17. bst'[b] = "open"
    BY <1>3, <1>10 DEF OnLive
  <2>18. Gapped(b)'
    BY <1>4, <1>7, <1>9, <2>2, <2>15, <2>16, <2>17 DEF Gapped
  <2> QED
    BY <2>10, <2>18 DEF Stands
<1>11. ASSUME ~ OnLive(b) PROVE Stands(b)'
  <2>1. X = W /\ ~ OnLive(b)'
    BY <1>2, <1>3, <1>4, <1>11 DEF ReadsFor, ReadFor, OnLive
  <2>2. Known(b)'
    BY <2>1 DEF Known
  <2>3. PICK D : D = Destined(b) /\ D = Destined(b)'
    BY <1>3, <1>4, <2>1 DEF Destined
  <2>4. bst[b] = "open" => Chain(D, M)
    BY <1>1, <1>4, <1>5, <2>3, SoundMore DEF Gapped
  <2>5. ASSUME bst[b] # "open", Honoured(b)' PROVE Sound(Resumed(b)', M, k, O, n)
    <3>1. PICK R, Z, T : /\ R = Resumed(b) /\ R = V \cup {h \in H : h.seq > ls}
                         /\ Z = Resumed(b)' /\ Z = V \cup {h \in K : h.seq > ls}
                         /\ T = R \cup {e}
      BY <1>3, <1>4 DEF Resumed, Rest
    <3>2. Numbered(R) /\ (\A g \in R : g.seq < next /\ g.data \subseteq 1 .. out)
          /\ cid # 0 /\ Sound(R, L, conn, Owed, out)
      BY <1>1, <1>4, <1>8, <2>5, <3>1, OutputPlaced DEF Standing, Placed, Gapped, Honoured
    <3>3. Precede(Items(hist))
      BY <1>1, <3>2
    <3>4. Sound(T, L, k, O, n)
      BY <1>1, <1>3, <1>5, <1>7, <3>1, <3>2, <3>3, ReadGrows
    <3>5. Z \subseteq T
      BY <1>6, <3>1
    <3>6. ASSUME NEW h \in T PROVE h \in Z
      <4>1. CASE h = e
        BY <1>3, <1>6, <1>8, <2>5, <3>1, <4>1
      <4>2. CASE h \in V
        BY <3>1, <4>2
      <4>3. CASE h \in H /\ h.seq > ls
        <5>1. h.seq >= next' - Len(hist')
          BY <1>3, <1>6, <1>8, <2>5, <4>3
        <5> QED
          BY <1>6, <3>1, <4>3, <5>1
      <4> QED
        BY <3>1, <3>6, <4>1, <4>2, <4>3
    <3>7. Kept(Z, T, M)
      BY <3>5, <3>6 DEF Kept, Twin
    <3> QED
      BY <1>5, <3>1, <3>4, <3>7, SoundThin
  <2>6. Gapped(b)'
    BY <1>3, <1>4, <1>7, <1>9, <2>1, <2>3, <2>4, <2>5 DEF Gapped
  <2> QED
    BY <2>2, <2>6 DEF Stands
<1> QED
  BY <1>10, <1>11

\* b takes the frame f: what it will show stays.
TookPrime(b, f) ==
  /\ prime[b] # <<>>
  /\ Cut(b)' = Cut(b)
  /\ f.kind = "hello" => prime'[b] = <<>> /\ f.seq = Cut(b)
  /\ f.kind = "chunk" =>
       f \in Chunks(prime[b]) /\ f.seq <= Cut(b) /\ Chunks(prime[b]) = {f} \cup Chunks(prime'[b])
TookLive(b, f) ==
  /\ prime[b] = <<>> /\ prime'[b] = <<>> /\ f.kind = "chunk" /\ f.seq # 0
  /\ Cut(b) = lastSeq[b] /\ Cut(b)' = f.seq

LEMMA TookEnd ==
  ASSUME NEW b \in Browsers, TypeOK, Streams(b), NEW f, Taking(b, f)
  PROVE  TookPrime(b, f) \/ TookLive(b, f)
<1>1. Took(b, f) /\ PrimeInOrder(b) /\ LiveInOrder(b)
  BY TakingEffect DEF Streams
<1>2. CASE prime[b] # <<>> /\ f = Head(prime[b]) /\ prime'[b] = Tail(prime[b])
  <2>1. /\ f \in Frames
        /\ f.kind = "hello" => Tail(prime[b]) = <<>> /\ f = prime[b][Len(prime[b])]
        /\ f.kind = "chunk" => /\ Chunks(prime[b]) = {f} \cup Chunks(Tail(prime[b]))
                               /\ f.seq <= prime[b][Len(prime[b])].seq
    BY <1>1, <1>2, HeadOfPrime
  <2>2. Cut(b) = prime[b][Len(prime[b])].seq
    BY <1>2 DEF Cut
  <2>3. CASE f.kind = "hello"
    <3>1. lastSeq'[b] = f.seq
      BY <1>1, <2>3 DEF Took
    <3>2. Cut(b)' = f.seq
      BY <1>2, <2>1, <2>3, <3>1 DEF Cut
    <3> QED
      BY <1>2, <2>1, <2>2, <2>3, <3>2 DEF TookPrime
  <2>4. CASE f.kind = "chunk"
    <3>1. PICK P, Q, m : P = prime[b] /\ Q = Tail(P) /\ m = Len(P)
      OBVIOUS
    <3>2. P \in Seq(Frames) /\ m \in Nat
      BY <3>1, BrowserTypes
    <3>3. /\ 1 \in 1 .. m /\ Len(Q) = m - 1 /\ Head(P) = P[1]
          /\ \A i \in 1 .. Len(Q) : i + 1 \in 1 .. m /\ Q[i] = P[i + 1]
      BY <1>2, <3>1, <3>2, QueueTaken
    <3>4. P[m].kind = "hello"
      BY <1>1, <1>2, <3>1 DEF PrimeInOrder
    <3>5. m # 1
      BY <1>2, <2>4, <3>1, <3>3, <3>4
    <3>6. Len(Q) \in 1 .. Len(Q) /\ Len(Q) + 1 = m
      BY <3>2, <3>3, <3>5
    <3>7. Q[Len(Q)] = P[m] /\ Q # <<>>
      BY <3>3, <3>6
    <3>8. Cut(b)' = P[m].seq
      BY <1>2, <3>1, <3>7 DEF Cut
    <3> QED
      BY <1>2, <2>1, <2>2, <2>4, <3>1, <3>8 DEF TookPrime
  <2> QED
    BY <1>1, <2>3, <2>4 DEF Took
<1>3. CASE prime[b] = <<>> /\ prime'[b] = <<>> /\ rx[b] # <<>> /\ f = Head(rx[b])
  <2>1. f.kind = "chunk" /\ f.seq # 0
    BY <1>1, <1>3, HeadOfLive DEF ChunkFrame
  <2>2. lastSeq'[b] = f.seq
    BY <1>1, <2>1 DEF Took
  <2> QED
    BY <1>3, <2>1, <2>2 DEF TookLive, Cut
<1> QED
  BY <1>2, <1>3 DEF Taking

LEMMA StandsTaken ==
  ASSUME NEW b \in Browsers, Standing(b), IInv', OutputRises(b)', [Next]_vars,
         NEW f, Taking(b, f)
  PROVE  Stands(b)'
<1>1. /\ TypeOK /\ IInv /\ EpochsInOrder /\ Known(b) /\ Gapped(b) /\ LinesInOrder /\ Streams(b)
      /\ Took(b, f) /\ TypeOK'
  BY TakingEffect DEF Standing, IInv, Streams
<1>2. ~ Connected /\ ~ ReadStdout
  <2>1. epochs + 1 # epochs /\ epochs + 1 # 0 /\ next + 1 # next
    BY <1>1, BrowserTypes
  <2>2. cid \in {0, epochs}
    BY <1>1 DEF EpochsInOrder
  <2> QED
    BY <2>1, <2>2 DEF Taking, ClientSame, Connected, ReadStdout
<1>3. /\ bst[b] = "open" /\ bst'[b] = "open" /\ ep'[b] = ep[b] /\ lost'[b] = lost[b]
      /\ cid' = cid /\ hist' = hist /\ next' = next
  BY DEF Taking, ClientSame
<1>4. PICK L, M : /\ L = Missing(b) /\ M = Missing(b)' /\ L \subseteq M /\ dlost' \subseteq M
                  /\ lost[b] \subseteq M
  BY <1>3, MissingGrows DEF Standing, Missing
<1>5. PICK V, U, W, X, H, D, ls, lt, x, y, C, E :
        /\ V = Items(view[b]) /\ U = Items(view[b])' /\ W = OnTheWay(b) /\ X = OnTheWay(b)'
        /\ H = Items(hist) /\ H = Items(hist)' /\ D = Destined(b)
        /\ ls = lastSeq[b] /\ lt = lastSeq'[b] /\ x = Cut(b) /\ y = Cut(b)'
        /\ C = Chunks(prime[b]) /\ E = Chunks(prime[b])'
  BY <1>3
<1>6. /\ Numbered(V) /\ Numbered(W) /\ Numbered(H) /\ f.seq \in Nat
      /\ \A g \in X : g.seq # 0 /\ f.seq < g.seq
      /\ ~ Redrawn(b)' /\ C \subseteq W /\ E \subseteq X
      /\ ls \in Nat \cup {Null}
  <2>1. \A g \in X : g.seq # 0
    BY <1>1, <1>5 DEF Took
  <2>2. ~ Redrawn(b)'
    BY <1>5, <2>1 DEF Redrawn
  <2> QED
    BY <1>1, <1>5, <2>2, OutputNumbered, BrowserTypes DEF Took, OnTheWay
<1>7. PICK k, O, n : k = conn' /\ O = Owed' /\ n = out'
  OBVIOUS
<1>8. OnLive(b)' = OnLive(b)
  BY <1>3 DEF OnLive
<1>9. PICK Q, S : Q = {h \in H : h.seq > x} /\ S = D \cup Q /\ S = Strand(b) /\ Q = Rest(Cut(b))
  BY <1>5 DEF Strand, Rest
<1>10. PICK G, Z, B : /\ G = {h \in H : h.seq > y} /\ B = Destined(b)' /\ Z = B \cup G
                      /\ Z = Strand(b)' /\ G = Rest(Cut(b))'
  BY <1>5 DEF Strand, Rest
<1>11. OnLive(b) => Sound(S, M, k, O, n)
  <2>1. ASSUME OnLive(b) PROVE Sound(S, M, conn', Owed', out')
    <3>1. Numbered(S) /\ \A g \in S : g.data \subseteq 1 .. out
      BY <1>9, <2>1, OutputPlaced DEF Standing, Placed
    <3>2. Sound(S, L, conn, Owed, out)
      BY <1>1, <1>4, <1>9, <2>1 DEF Gapped
    <3> QED
      BY <1>1, <1>2, <1>4, <3>1, <3>2, SoundStays
  <2> QED
    BY <1>7, <2>1
<1>12. Chain(D, M)
  BY <1>1, <1>3, <1>4, <1>5, SoundMore DEF Gapped
<1>13. \A h \in Q : OnLive(b) => h.data \subseteq lost[b] \/ \E g \in W : Twin(g, h)
  BY <1>1, <1>5, <1>9 DEF Known
<1>14. CASE f.kind = "hello"
  <2>1. /\ X = W /\ ~ Redrawn(b) /\ U = V /\ lt = f.seq /\ aid'[b] = ep[b] /\ TookPrime(b, f)
    BY <1>1, <1>5, <1>14, TookEnd DEF Took, TookLive
  <2>2. prime'[b] = <<>> /\ y = x /\ E = {} /\ G = Q
    BY <1>5, <1>9, <1>10, <1>14, <2>1 DEF TookPrime, Chunks, Items
  <2>3. B = D
    <3>1. B = X \cup U
      BY <1>5, <1>6, <1>10 DEF Destined
    <3>2. D = W \cup V
      BY <1>5, <2>1 DEF Destined
    <3> QED
      BY <2>1, <3>1, <3>2
  <2>4. Z = S
    BY <1>9, <1>10, <2>2, <2>3
  <2>5. Known(b)'
    <3>1. OnLive(b) => /\ \A g \in X : g.seq # 0 /\ g.seq >= next - Len(hist) => \E h \in H : Twin(g, h)
                       /\ \A h \in G : h.data \subseteq lost[b] \/ \E g \in X : Twin(g, h)
      BY <1>1, <1>5, <1>13, <2>1, <2>2 DEF Known
    <3> QED
      BY <1>3, <1>5, <1>6, <1>8, <1>10, <2>1, <2>2, <3>1 DEF Known
  <2>6. Chain(U, M)
    BY <1>1, <1>4, <1>5, <2>1, SoundMore DEF Gapped
  <2>7. Gapped(b)'
    BY <1>3, <1>4, <1>5, <1>7, <1>8, <1>10, <1>11, <1>12, <2>3, <2>4, <2>6 DEF Gapped
  <2> QED
    BY <2>5, <2>7 DEF Stands
<1>15. CASE f.kind = "chunk"
  <2>1. /\ ChunkFrame(f) /\ W = {f} \cup X /\ U = {f} \cup (IF f.seq = 0 THEN {} ELSE V)
        /\ lt = (IF f.seq = 0 THEN Null ELSE f.seq) /\ aid'[b] = aid[b]
    BY <1>1, <1>5, <1>15 DEF Took
  <2>2. Redrawn(b) <=> f.seq = 0
    BY <1>5, <1>6, <2>1 DEF Redrawn
  <2>3. B = D /\ D = X \cup U
    <3>1. B = X \cup U
      BY <1>5, <1>6, <1>10 DEF Destined
    <3>2. D = W \cup (IF f.seq = 0 THEN {} ELSE V)
      BY <1>5, <2>2 DEF Destined
    <3> QED
      BY <2>1, <3>1, <3>2
  <2>4. \A g \in U : g.seq \in Nat /\ g.seq <= f.seq
    <3>1. CASE f.seq = 0
      BY <1>6, <2>1, <3>1
    <3>2. CASE f.seq # 0
      <4>1. \A g \in Items(view'[b]) : ChunkFrame(g)
        BY DEF OutputRises
      <4>2. lastSeq'[b] # Null /\ lastSeq'[b] = f.seq
        BY <1>5, <1>6, <2>1, <3>2 DEF Null
      <4>3. \A g \in Items(view'[b]) : g.seq <= lastSeq'[b]
        <5>1. SUFFICES ASSUME NEW g \in Items(view'[b]) PROVE g.seq <= lastSeq'[b]
          OBVIOUS
        <5>2. PICK J \in Seq(Frames) : J = view'[b]
          BY <1>1 DEF TypeOK, PageTypeOK
        <5>3. PICK i \in 1 .. Len(J) : g = J[i]
          BY <5>2 DEF Items
        <5>4. g.seq \in Nat /\ g.top \in Nat
          BY <5>2, <5>3, FrameFields
        <5>5. g.top <= lastSeq'[b]
          BY <4>2, <5>2, <5>3 DEF IInv, ScreenInOrder
        <5> QED
          BY <1>6, <4>1, <4>2, <5>4, <5>5 DEF ChunkFrame
      <4>4. \A g \in V : g.seq \in Nat
        BY <1>6 DEF Numbered
      <4> QED
        BY <1>5, <1>6, <2>1, <4>2, <4>3, <4>4
    <3> QED
      BY <3>1, <3>2
  <2>5. Chain(U, M)
    <3>1. \A g \in U : \E h \in D : Twin(g, h)
      BY <2>3 DEF Twin
    <3>2. ASSUME NEW g \in U, NEW h \in D, h.seq <= g.seq PROVE h \in U
      <4>1. \A j \in X : f.seq < j.seq /\ j.seq \in Nat
        BY <1>6, <2>1 DEF Numbered
      <4>2. h \notin X
        BY <1>6, <2>4, <3>2, <4>1
      <4> QED
        BY <2>3, <3>2, <4>2
    <3>3. \A g, j \in U, h \in D : g.seq <= h.seq /\ h.seq <= j.seq => \E i \in U : Twin(i, h)
      BY <3>2 DEF Twin
    <3> QED
      BY <1>12, <3>1, <3>3, ChainThin
  <2>6. ASSUME OnLive(b) PROVE Sound(Z, M, k, O, n)
    <3>1. CASE TookPrime(b, f)
      <4>1. G = Q
        BY <1>5, <1>9, <1>10, <3>1 DEF TookPrime
      <4> QED
        BY <1>9, <1>10, <1>11, <2>3, <2>6, <4>1
    <3>2. CASE TookLive(b, f)
      <4>1. x = ls /\ y = f.seq /\ aid[b] = cid /\ ls < f.seq
        <5>1. x = ls /\ y = f.seq /\ prime[b] = <<>> /\ f.seq # 0
          BY <1>5, <3>2 DEF TookLive
        <5>2. aid[b] = cid
          BY <1>1, <1>3, <2>6, <5>1 DEF EpochsInOrder, OnLive
        <5>3. f \in W
          BY <2>1
        <5> QED
          BY <1>1, <1>5, <2>6, <5>1, <5>2, <5>3 DEF Known
      <4>2. G \subseteq Q
        <5>1. \A h \in H : h.seq \in Nat
          BY <1>6 DEF Numbered
        <5>2. \A h \in H : h.seq > f.seq => h.seq > ls
          BY <1>6, <4>1, <5>1 DEF Null
        <5> QED
          BY <1>9, <1>10, <4>1, <5>2
      <4>3. W \subseteq D
        BY <1>5 DEF Destined
      <4>4. \A h \in S : h.data \subseteq M \/ \E g \in Z : Twin(g, h)
        <5>1. \A h \in D : \E g \in Z : Twin(g, h)
          BY <1>10, <2>3 DEF Twin
        <5>2. \A h \in Q : h.data \subseteq M \/ \E g \in D : Twin(g, h)
          BY <1>4, <1>13, <2>6, <4>3
        <5> QED
          BY <1>9, <1>10, <2>3, <5>1, <5>2
      <4>5. Kept(Z, S, M)
        BY <1>9, <1>10, <2>3, <4>2, <4>4 DEF Kept, Twin
      <4> QED
        BY <1>11, <2>6, <4>5, SoundThin
    <3> QED
      BY <1>1, <3>1, <3>2, TookEnd
  <2>7. Gapped(b)'
    BY <1>3, <1>4, <1>5, <1>7, <1>8, <1>10, <1>12, <2>3, <2>5, <2>6 DEF Gapped
  <2>8. ASSUME OnLive(b) PROVE Known(b)'
    <3>1. \A g \in X : g.seq # 0 /\ g.seq >= next - Len(hist) => \E h \in H : Twin(g, h)
      BY <1>1, <1>5, <2>1, <2>8 DEF Known
    <3>2. \A g \in X : g.seq # 0 /\ aid[b] = cid => lt < g.seq
      <4>1. \A g \in X : g.seq \in Nat /\ f.seq < g.seq
        BY <1>6, <2>1 DEF Numbered
      <4> QED
        BY <1>6, <2>1, <4>1 DEF Null
    <3>3. \A g \in X : g.seq \in Nat /\ f.seq < g.seq
      BY <1>6, <2>1 DEF Numbered
    <3>4. \A h \in H : h.seq \in Nat
      BY <1>6 DEF Numbered
    <3>5. CASE TookPrime(b, f)
      <4>1. /\ prime[b] # <<>> /\ y = x /\ f \in C /\ f.seq <= x /\ C = {f} \cup E
        BY <1>5, <1>15, <3>5 DEF TookPrime
      <4>2. x \in Nat
        <5>1. PICK P, m : P = prime[b] /\ m = Len(P)
          OBVIOUS
        <5>2. P \in Seq(Frames) /\ m \in 1 .. m
          BY <1>1, <4>1, <5>1, BrowserTypes, EmptySeq
        <5>3. P[m].seq \in Nat
          BY <5>1, <5>2, FrameFields
        <5> QED
          BY <1>5, <4>1, <5>1, <5>3 DEF Cut
      <4>3. \A h \in G : h.data \subseteq lost[b] \/ \E g \in X : Twin(g, h)
        <5>1. ASSUME NEW h \in G, NEW g \in W, Twin(g, h) PROVE g \in X
          <6>1. h.seq > x /\ h \in H
            BY <1>10, <4>1, <5>1
          <6>2. g.seq # f.seq
            BY <1>6, <3>4, <4>1, <4>2, <5>1, <6>1 DEF Twin
          <6> QED
            BY <2>1, <5>1, <6>2
        <5>2. G = Q
          BY <1>9, <1>10, <4>1
        <5> QED
          BY <1>13, <2>8, <5>1, <5>2
      <4>4. /\ \A g \in C : g.seq # 0 => aid[b] = cid /\ ls # Null
            /\ \A g, h \in C : g.seq = 0 => h = g
        BY <1>1, <1>5, <2>8 DEF Known
      <4>5. ASSUME lt # Null, NEW h \in H, h.seq > lt, h.seq <= x
            PROVE  \E g \in E : Twin(g, h)
        <5>1. f.seq # 0 /\ lt = f.seq
          BY <2>1, <4>5
        <5>2. aid[b] = cid /\ ls # Null /\ ~ Redrawn(b)
          BY <2>2, <4>1, <4>4, <5>1
        <5>3. ls < f.seq
          BY <1>1, <1>5, <2>1, <2>8, <5>1, <5>2 DEF Known
        <5>4. h.seq > ls
          BY <1>6, <3>4, <4>5, <5>1, <5>2, <5>3
        <5>5. PICK g \in C : Twin(g, h)
          BY <1>1, <1>5, <2>8, <4>1, <4>5, <5>2, <5>4 DEF Known, Rest
        <5>6. g # f
          BY <1>6, <3>4, <4>5, <5>1, <5>5 DEF Twin
        <5> QED
          BY <4>1, <5>5, <5>6
      <4>6. ASSUME NEW g \in E PROVE g.seq # 0 /\ aid[b] = cid /\ lt # Null
        <5>1. g.seq # 0 /\ g \in C
          BY <1>6, <4>1, <4>6
        <5>2. f.seq # 0
          BY <4>1, <4>4, <5>1
        <5> QED
          BY <1>6, <2>1, <4>4, <5>1, <5>2 DEF Null
      <4>7. PICK RL : RL = Rest(lastSeq[b])' /\ RL = {h \in H : h.seq > lt}
        BY <1>5 DEF Rest
      <4> QED
        BY <1>3, <1>5, <1>6, <1>10, <2>1, <3>1, <3>2, <4>1, <4>3, <4>5, <4>6, <4>7 DEF Known
    <3>6. CASE TookLive(b, f)
      <4>1. x = ls /\ y = f.seq /\ prime[b] = <<>> /\ prime'[b] = <<>> /\ f.seq # 0
        BY <1>5, <3>6 DEF TookLive
      <4>2. aid[b] = cid
        BY <1>1, <1>3, <2>8, <4>1 DEF EpochsInOrder, OnLive
      <4>3. ls < f.seq
        BY <1>1, <1>5, <2>1, <2>8, <4>1, <4>2 DEF Known
      <4>4. E = {}
        BY <1>5, <4>1 DEF Chunks, Items
      <4>5. \A h \in G : h.data \subseteq lost[b] \/ \E g \in X : Twin(g, h)
        <5>1. SUFFICES ASSUME NEW h \in G PROVE h.data \subseteq lost[b] \/ \E g \in X : Twin(g, h)
          OBVIOUS
        <5>2. h \in H /\ h.seq > f.seq
          BY <1>10, <4>1, <5>1
        <5>3. h \in Q
          BY <1>6, <1>9, <3>4, <4>1, <4>3, <5>2 DEF Null
        <5>4. \A g \in W : Twin(g, h) => g \in X
          BY <1>6, <2>1, <3>4, <5>2 DEF Twin
        <5> QED
          BY <1>13, <2>8, <5>3, <5>4
      <4> QED
        BY <1>3, <1>5, <1>6, <1>10, <2>1, <3>1, <3>2, <4>1, <4>4, <4>5 DEF Known
    <3> QED
      BY <1>1, <3>5, <3>6, TookEnd
  <2>9. Known(b)'
    BY <1>8, <2>8 DEF Known
  <2> QED
    BY <2>7, <2>9 DEF Stands
<1> QED
  BY <1>1, <1>14, <1>15 DEF Took

\* A step of the system, for one of its browsers.
LEMMA IntactStep ==
  ASSUME IInv, IInv', OutputInOrder, OutputInOrder', RingTail, EntrySizes, EntrySizes', LineWhole,
         Remembered, Handshake, HistoryWhole, [Next]_vars, RingMax # 0, 2 * RingMax <= HistMax,
         NEW b \in Browsers, Intact(b)
  PROVE  Intact(b)'
<1>1. /\ TypeOK /\ HistorySeqs /\ ResumerWaits /\ LinesInOrder /\ OutputRises(b) /\ OutputRises(b)'
      /\ Made(b) /\ Ahead(b) /\ NoStepBack(b)
  BY DEF IInv, OutputInOrder, Intact
<1>2. (cid # 0 => Precede(Items(hist))) /\ (cid' # 0 => AllRise(Items(hist')))
  <2>1. PICK S, T : S = OfClient(b) \cup Items(hist) /\ T = OfClient(b)' \cup Items(hist')
    OBVIOUS
  <2>2. (cid # 0 => Precede(S)) /\ (cid' # 0 => AllRise(T))
    BY <1>1, <2>1 DEF OutputRises
  <2> QED
    BY <2>1, <2>2 DEF Precede, AllRise
<1>3. Standing(b)
  BY <1>1, <1>2 DEF Standing, Intact
<1>4. Stands(b)'
  <2>1. CASE ReadStdout
    BY <1>3, <2>1, StandsRead
  <2>2. CASE Closing(b)
    BY <1>3, <2>2, StandsClosed
  <2>3. CASE Attach(b)
    BY <1>3, <2>3, StandsAttached
  <2>4. CASE Idle(b) /\ (ClientSame \/ Connected)
    BY <1>3, <2>4, StandsIdle
  <2>5. ASSUME NEW f, Taking(b, f) PROVE Stands(b)'
    BY <1>1, <1>3, <2>5, StandsTaken
  <2> QED
    BY <1>1, <2>1, <2>2, <2>3, <2>4, <2>5, StepOf
<1>5. Made(b)'
  BY <1>1, MadeStep
<1>6. Ahead(b)'
  BY <1>1, <1>2, AheadStep
<1>7. NoStepBack(b)'
  BY <1>1, NoStepBackStep
<1> QED
  BY <1>4, <1>5, <1>6, <1>7 DEF Intact, Stands

\* As long as no handshake has been overrun.
Smooth ==
  Browsers # {} /\ ~ overrun => Handshake /\ HistoryWhole /\ \A b \in Browsers : Intact(b)

LEMMA SmoothAlways ==
  ASSUME RingMax # 0, 2 * RingMax <= HistMax
  PROVE  Spec => []Smooth
<1>1. Init => Smooth
  <2> SUFFICES ASSUME Init PROVE Smooth
    OBVIOUS
  <2>1. Items(hist) = {} /\ Handshake /\ cid = 0 /\ conn = "none"
    BY DEF Init, DaemonInit, Items, Handshake
  <2>2. HistoryWhole
    BY <2>1 DEF Init, DaemonInit, HistoryWhole, Data, Seam
  <2>3. ASSUME NEW b \in Browsers PROVE Intact(b)
    <3>1. /\ Items(view[b]) = {} /\ Items(prime[b]) = {} /\ Items(rx[b]) = {}
          /\ bst[b] = "closed" /\ lost[b] = {}
      BY DEF Init, Items
    <3>2. OnTheWay(b) = {} /\ Chunks(prime[b]) = {}
      BY <3>1 DEF OnTheWay, Chunks
    <3>3. Made(b) /\ Ahead(b) /\ NoStepBack(b)
      BY <2>1, <3>1, <3>2 DEF Made, Told, Data, Ahead, NoStepBack
    <3>4. ~ OnLive(b) /\ ~ Honoured(b)
      BY <2>1, <3>1 DEF OnLive, Honoured
    <3>5. Known(b)
      BY <3>4 DEF Known
    <3>6. Gapped(b)
      BY <3>1, <3>4 DEF Gapped, Chain
    <3> QED
      BY <3>3, <3>5, <3>6 DEF Intact
  <2> QED
    BY <2>1, <2>2, <2>3 DEF Smooth
<1>2. /\ IInv /\ IInv' /\ OutputInOrder /\ OutputInOrder' /\ Whole /\ Whole' /\ Smooth
      /\ [Next]_vars
      => Smooth'
  <2> SUFFICES ASSUME IInv, IInv', OutputInOrder, OutputInOrder', Whole, Whole', Smooth,
                      [Next]_vars, Browsers # {}, ~ overrun'
               PROVE  (Handshake /\ HistoryWhole /\ \A b \in Browsers : Intact(b))'
    BY DEF Smooth
  <2>1. /\ TypeOK /\ TypeOK' /\ HistorySeqs /\ HistorySeqs' /\ LinesInOrder
        /\ RingTail /\ EntrySizes /\ LineWhole /\ Remembered /\ EntrySizes'
        /\ Handshake /\ HistoryWhole /\ \A b \in Browsers : Intact(b)
        /\ Connected => Meets
    BY OverrunStays, HandshakeMeets DEF IInv, OutputInOrder, Whole, Smooth
  <2>2. Handshake'
    BY <2>1, HandshakeStep
  <2>3. HistoryWhole'
    <3>1. PICK b \in Browsers : OutputRises(b)
      BY DEF OutputInOrder
    <3>2. cid # 0 => Precede(Items(hist))
      BY <3>1 DEF OutputRises, Precede
    <3>3. conn = "live" => cid # 0
      BY <2>1 DEF Remembered
    <3> QED
      BY <2>1, <3>2, <3>3, HistoryWholeStep
  <2>4. ASSUME NEW b \in Browsers PROVE Intact(b)'
    BY <2>1, <2>4, IntactStep
  <2> QED
    BY <2>2, <2>3, <2>4
<1> QED
  BY <1>1, <1>2, WholeAlways, OutputAlways, InvariantCorrect, PTL DEF Spec

-----------------------------------------------------------------------------
\* A step that paints nothing and reads nothing from the PTY is at most a lag for Screen.
LEMMA SkipStep ==
  ASSUME IInv, OutputInOrder, Smooth, Smooth', [Next]_vars, ~ overrun', overrun' = overrun,
         out' = out, view' = view
  PROVE  Abstract!Skip
<1>1. ASSUME NEW b \in Browsers
      PROVE  lost'[b] \cup dlost' \in SUBSET (1 .. out) /\ lost[b] \cup dlost \subseteq lost'[b] \cup dlost'
  <2>1. HistoryWhole /\ HistoryWhole' /\ Made(b)' /\ LinesInOrder
    BY DEF Smooth, Intact, OutputInOrder
  <2>2. Missing(b) \subseteq Missing(b)'
    BY <2>1, MissingGrows
  <2> QED
    BY <2>1, <2>2 DEF Missing, Made, HistoryWhole
<1>2. PICK F, G : /\ F = [b \in Browsers |-> lost[b] \cup dlost]
                  /\ G = [b \in Browsers |-> lost'[b] \cup dlost']
  OBVIOUS
<1>3. G \in [Browsers -> SUBSET (1 .. out)] /\ \A b \in Browsers : F[b] \subseteq G[b]
  BY <1>1, <1>2
<1>4. [b \in Browsers |-> Shown(b)]' = [b \in Browsers |-> Shown(b)]
  BY DEF Shown
<1> QED
  BY <1>2, <1>3, <1>4 DEF Abstract!Skip

\* A frame arrives: the screen of b is drawn anew, further on.
LEMMA RedrawStep ==
  ASSUME IInv, IInv', Smooth, Smooth', [Next]_vars, ~ overrun', overrun' = overrun,
         NEW b \in Browsers, Receive(b) \/ Remount(b)
  PROVE  Abstract!Redraw(b)
<1>1. /\ TypeOK /\ TypeOK' /\ HistorySeqs /\ ResumerWaits /\ Streams(b) /\ Intact(b) /\ Intact(b)'
      /\ view \in [Browsers -> Seq(Frames)] /\ lastSeq \in [Browsers -> Nat \cup {Null}]
  BY DEF IInv, Streams, Smooth, TypeOK, PageTypeOK
<1>2. out' = out /\ dlost' = dlost /\ lost' = lost /\ \A a \in Browsers : a # b => view'[a] = view[a]
  BY <1>1 DEF Receive, Remount, Paint, daemonVars
<1>3. PICK S, L, R : S = Shown(b)' /\ L = lost[b] \cup dlost /\ R = Shown(b) /\ L = Missing(b)'
                     /\ S = Data(Items(view[b])')
  <2>1. Shown(b)' = Data(Items(view[b])')
    BY DEF Shown, Data, Items
  <2>2. Missing(b)' = lost[b] \cup dlost
    BY <1>2 DEF Missing
  <2> QED
    BY <2>1, <2>2
<1>4. S \in SUBSET (1 .. out)
  BY <1>1, <1>2, <1>3 DEF Intact, Made, Told
<1>5. \A x, y \in S : \A z \in x .. y : z \in S \cup L
  <2>1. PICK U : U = Items(view[b])' /\ Chain(U, L) /\ S = Data(U) /\ \A f \in U : f.seq \in Nat
    <3>1. Items(view'[b]) \in SUBSET Frames
      BY <1>1, BrowserTypes, ItemsOf DEF TypeOK, PageTypeOK
    <3>2. \A f \in Items(view[b])' : f.seq \in Nat
      BY <3>1 DEF Frames
    <3> QED
      BY <1>1, <1>3, <3>2 DEF Intact, Gapped
  <2>2. ASSUME NEW x \in S, NEW y \in S, NEW z \in x .. y PROVE z \in S \cup L
    <3>1. PICK f \in U, g \in U : x \in f.data /\ y \in g.data
      BY <2>1 DEF Data
    <3>2. f.seq <= g.seq \/ g.seq <= f.seq
      BY <2>1
    <3>3. z \in L \/ \E h \in U : z \in h.data
      BY <2>1, <3>1, <3>2 DEF Chain
    <3> QED
      BY <2>1, <3>3 DEF Data
  <2> QED
    BY <2>2
<1>6. \A x \in R : x <= x
  <2>1. R \subseteq 1 .. out
    BY <1>1, <1>3, ShownData DEF Intact, Made, Told
  <2> QED
    BY <2>1, <1>1 DEF TypeOK, DaemonTypeOK
<1>7. S # {} => \A x \in R : \E y \in S : x <= y
  <2>1. CASE Remount(b)
    <3>1. view'[b] = <<>>
      BY <1>1, <2>1 DEF Remount
    <3> QED
      BY <1>3, <3>1 DEF Shown
  <2>2. CASE view'[b] = view[b]
    BY <1>3, <1>6, <2>2 DEF Shown
  <2>3. ASSUME NEW f, Taking(b, f) PROVE S # {} => \A x \in R : \E y \in S : x <= y
    <3>1. Took(b, f)
      BY <1>1, <2>3, TakingEffect
    <3>2. CASE f.kind = "hello"
      BY <2>2, <3>1, <3>2 DEF Took
    <3>3. CASE f.kind = "chunk" /\ f.seq # 0
      <4>1. R \subseteq S
        BY <1>3, <3>1, <3>3, ShownData DEF Took, Data
      <4> QED
        BY <1>6, <4>1
    <3>4. CASE f.kind = "chunk" /\ f.seq = 0
      <4>1. S = f.data
        BY <1>3, <3>1, <3>4 DEF Took, Data
      <4>2. f \in Chunks(prime[b])
        <5>1. \A g \in Items(rx[b]) : g.seq # 0
          BY <1>1, LiveFrames DEF Streams
        <5> QED
          BY <3>1, <3>4, <5>1 DEF Took, OnTheWay, Chunks
      <4> QED
        BY <1>1, <1>3, <3>4, <4>1, <4>2 DEF Intact, NoStepBack
    <3> QED
      BY <3>1, <3>2, <3>3, <3>4 DEF Took
  <2>4. CASE Receive(b)
    <3>1. ~ Closing(b) /\ ~ Attach(b) /\ ~ ReadStdout
      <4>1. next + 1 # next
        BY <1>1, BrowserTypes
      <4> QED
        BY <2>4, <4>1 DEF Receive, Closing, Attach, ReadStdout, clientVars
    <3> QED
      BY <1>1, <2>2, <2>3, <3>1, StepOf DEF Idle
  <2> QED
    BY <2>1, <2>4
<1>8. PICK F, G : F = [a \in Browsers |-> Shown(a)] /\ G = [a \in Browsers |-> Shown(a)']
  OBVIOUS
<1>9. G = [F EXCEPT ![b] = S]
  <2>1. \A a \in Browsers : a # b => Shown(a)' = Shown(a)
    BY <1>2 DEF Shown
  <2> QED
    BY <1>3, <1>8, <2>1
<1>10. Abstract!Gapless(S, L)
  BY <1>5 DEF Abstract!Gapless
<1>11. S # {} => Abstract!NotBeyond(R, S)
  BY <1>7 DEF Abstract!NotBeyond
<1>12. [a \in Browsers |-> lost[a] \cup dlost]' = [a \in Browsers |-> lost[a] \cup dlost]
  BY <1>2
<1> QED
  BY <1>2, <1>3, <1>4, <1>8, <1>9, <1>10, <1>11, <1>12 DEF Abstract!Redraw

\* Once a handshake has been overrun, all that is left to say is that nothing else is shown or
\* skipped than chunks.
LEMMA TornStep ==
  ASSUME TypeOK, TypeOK', [Next]_vars, overrun', overrun' = overrun, out' = out
  PROVE  Abstract!Garble
<1>1. ASSUME NEW b \in Browsers PROVE Shown(b)' \in SUBSET Nat /\ lost'[b] \cup dlost' \in SUBSET Nat
  <2>1. \A n \in 1 .. MaxOut : n \in Nat
    BY DaemonAssumption DEF DaemonAssumption
  <2>2. view'[b] \in Seq(Frames) /\ lost'[b] \in SUBSET (1 .. MaxOut) /\ dlost' \in SUBSET (1 .. MaxOut)
    BY DEF TypeOK, PageTypeOK, WsTypeOK, DaemonTypeOK
  <2>3. \A i \in 1 .. Len(view'[b]) : view'[b][i].data \in SUBSET (1 .. MaxOut)
    <3>1. PICK v \in Seq(Frames) : v = view'[b]
      BY <2>2
    <3>2. \A i \in 1 .. Len(v) : v[i] \in Frames
      BY ElementOfSeq
    <3> QED
      BY <3>1, <3>2 DEF Frames
  <2> QED
    BY <2>1, <2>2, <2>3 DEF Shown
<1>2. PICK F, G : F = [b \in Browsers |-> Shown(b)'] /\ G = [b \in Browsers |-> lost'[b] \cup dlost']
  OBVIOUS
<1>3. F \in [Browsers -> SUBSET Nat] /\ G \in [Browsers -> SUBSET Nat]
  BY <1>1, <1>2
<1> QED
  BY <1>2, <1>3 DEF Abstract!Garble

\* Every step is one of Screen, or nothing to it.
LEMMA ScreenStep ==
  ASSUME IInv, IInv', OutputInOrder, Smooth, Smooth', [Next]_vars
  PROVE  Abstract!Next
<1>0. TypeOK /\ TypeOK' /\ overrun \in BOOLEAN /\ overrun' \in BOOLEAN
  BY Zenon DEF IInv, TypeOK, FaultTypeOK
<1>1. ASSUME overrun' = overrun, out' = out, view' = view PROVE Abstract!Next
  <2>1. CASE overrun'
    BY <1>0, <1>1, <2>1, TornStep DEF Abstract!Next
  <2>2. CASE ~ overrun'
    BY <1>1, <2>2, SkipStep DEF Abstract!Next
  <2> QED
    BY <2>1, <2>2
<1>2. ASSUME NEW b \in Browsers, Receive(b) \/ Remount(b) PROVE Abstract!Next
  <2>0. out' = out /\ overrun' = overrun
    BY <1>2 DEF Receive, Remount, daemonVars, faultVars
  <2>1. CASE overrun'
    BY <1>0, <2>0, <2>1, TornStep DEF Abstract!Next
  <2>2. CASE ~ overrun'
    BY <1>2, <2>0, <2>2, RedrawStep DEF Abstract!Next
  <2> QED
    BY <2>1, <2>2
<1>3. CASE DaemonStep /\ PtyRead
  <2>1. out' = out + 1 /\ view' = view /\ lost' = lost /\ dlost' = dlost /\ overrun' = overrun
    BY <1>3 DEF DaemonStep, serverVars, wsVars, pageVars, faultVars, PtyRead
  <2>2. /\ [b \in Browsers |-> Shown(b)]' = [b \in Browsers |-> Shown(b)]
        /\ [b \in Browsers |-> lost[b] \cup dlost]' = [b \in Browsers |-> lost[b] \cup dlost]
    BY <2>1 DEF Shown
  <2> QED
    BY <2>1, <2>2 DEF Abstract!Make, Abstract!Next
<1>4. CASE DaemonStep /\ ~ PtyRead
  BY <1>1, <1>4 DEF DaemonStep, serverVars, pageVars, faultVars, PtyBroadcast, ChildExit, DaemonGone
<1>5. ASSUME NEW who \in Browsers \cup {Nobody}, Resume(who) PROVE Abstract!Next
  BY <1>1, <1>5 DEF Resume, Accept, pageVars, faultVars
<1>6. CASE Connected
  <2>1. out' = out /\ view' = view /\ lost' = lost /\ dlost' = dlost
    BY <1>6 DEF Connected, pageVars
  <2>2. CASE overrun' = overrun
    BY <1>1, <2>1, <2>2
  <2>3. CASE overrun' # overrun
    <3>1. ~ overrun => overrun' = TRUE
      BY <1>0, <2>3, Zenon
    <3>2. overrun' = TRUE
      BY <1>0, <1>6, <2>3, <3>1 DEF Connected
    <3>3. /\ [b \in Browsers |-> Shown(b)]' = [b \in Browsers |-> Shown(b)]
          /\ [b \in Browsers |-> lost[b] \cup dlost]' = [b \in Browsers |-> lost[b] \cup dlost]
      BY <2>1 DEF Shown
    <3> QED
      BY <2>1, <3>2, <3>3 DEF Abstract!Tear, Abstract!Next
  <2> QED
    BY <2>2, <2>3
<1>7. CASE ResumeFailed \/ ReadStdout \/ ReadExit \/ ReadEof \/ Restart
  BY <1>1, <1>7 DEF ResumeFailed, ReadStdout, ReadExit, ReadEof, Restart, pageVars, faultVars, daemonVars
<1>8. ASSUME NEW b \in Browsers, Upgrade(b) \/ Attach(b) \/ Drop(b) PROVE Abstract!Next
  BY <1>1, <1>8 DEF Upgrade, Attach, Drop, pageVars, faultVars, daemonVars
<1>9. CASE UNCHANGED vars
  BY <1>1, <1>9 DEF vars, serverVars, pageVars, faultVars, daemonVars
<1> QED
  BY <1>2, <1>3, <1>4, <1>5, <1>6, <1>7, <1>8, <1>9 DEF Next

\* What attaching a browser to a terminal promises (attach() and the cursor of useTerminalCore):
\* its screen is a window of the output without a silent hole that never steps back, over lags,
\* dropped connections, remounts, restarts of the server and of daemons, until a handshake is
\* overrun.  The history holds twice what the ring does (2 MiB and 1 MiB in the code).
THEOREM ScreenCorrect ==
  ASSUME RingMax # 0, 2 * RingMax <= HistMax
  PROVE  Spec => ScreenSpec
<1>1. Init => Abstract!Init
  BY DEF Init, DaemonInit, Abstract!Init, Shown
<1>2. IInv /\ IInv' /\ OutputInOrder /\ Smooth /\ Smooth' /\ [Next]_vars
      => [Abstract!Next]_(Abstract!vars)
  BY ScreenStep
<1> QED
  BY <1>1, <1>2, SmoothAlways, OutputAlways, InvariantCorrect, PTL
     DEF Spec, ScreenSpec, Abstract!Spec
=============================================================================
