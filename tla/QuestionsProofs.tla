--------------------------- MODULE QuestionsProofs ---------------------------
(***************************************************************************)
(* Theorems about the chat stream under ask_question, for every number of  *)
(* pages, every size of the buffers and channels, and every number of      *)
(* restarts, drops, pages opened afresh and respawned runners: the order   *)
(* of the events on a page, what may be repeated, that a page fed by one   *)
(* client misses nothing, and that an answer finds the tool that waits.    *)
(***************************************************************************)
EXTENDS Questions, DaemonProofs

-----------------------------------------------------------------------------
(* The inductive invariant of the stream *)

\* The history never reaches below seq 1; without a client there is none.
HistorySeqs ==
  /\ HistoryWindow
  /\ Len(hist) <= next - 1
  /\ client = 0 => hist = <<>>

\* Clients are numbered as they come; a connection that is open belongs to one,
\* and its page has nothing of a later one.
ClientsInOrder ==
  /\ client \in {0, Len(replays)}
  /\ conn = "live" => client # 0
  /\ \A b \in Browsers :
       /\ ep[b] <= Len(replays)
       /\ bst[b] = "open" => ep[b] # 0
       /\ \A i \in 1 .. Len(events[b]) :
            /\ events[b][i].by <= Len(replays)
            /\ bst[b] = "open" => events[b][i].by <= ep[b]

\* A WebSocket request that is being resumed has no WebSocket yet.
ResumerWaits ==
  conn = "subscribed" /\ resumer # Nobody => bst[resumer] = "closed"

\* What b has not received yet of its catch-up: events of its client in order,
\* then the hello.
PrimeInOrder(b) ==
  LET P == prime[b]
      n == Len(P)
  IN  P # <<>> =>
        /\ bst[b] = "open"
        /\ P[n].ev = Hello
        /\ ep[b] = client => P[n].seq < next
        /\ \A i \in 1 .. n : P[i].by = ep[b]
        /\ \A i \in 1 .. (n - 1) : P[i].ev # Hello /\ P[i].seq <= P[n].seq
        /\ \A i, j \in 1 .. (n - 1) : i < j => P[i].seq < P[j].seq

\* The live events on their way: in order, after the catch-up, below next_seq.
LiveInOrder(b) ==
  LET P == prime[b]
      R == rx[b]
  IN  \A i \in 1 .. Len(R) :
        /\ bst[b] = "open"
        /\ R[i].by = ep[b] /\ R[i].ev # Hello
        /\ \A j \in 1 .. Len(R) : i < j => R[i].seq < R[j].seq
        /\ P # <<>> => P[Len(P)].seq < R[i].seq
        /\ ep[b] = client => R[i].seq < next

\* The order of the events on a page.
Before(x, y) == x.by < y.by \/ (x.by = y.by /\ x.seq < y.seq)

\* The page: in order, and before all that its own client still sends; what
\* it holds of the session's client is covered by its cursor.
PageInOrder(b) ==
  LET P == prime[b]
      n == Len(P)
      R == rx[b]
      V == events[b]
  IN  /\ \A i, j \in 1 .. Len(V) : i < j => Before(V[i], V[j])
      /\ \A i \in 1 .. Len(V) :
           /\ V[i].ev # Hello
           /\ bst[b] = "open" /\ V[i].by = ep[b] =>
                /\ P # <<>> => V[i].seq <= P[n].seq
                /\ \A j \in 1 .. (n - 1) : V[i].seq < P[j].seq
                /\ \A j \in 1 .. Len(R) : V[i].seq < R[j].seq
           /\ V[i].by = client => V[i].seq < next /\ V[i].seq <= lastSeq[b]

Streams(b) == PrimeInOrder(b) /\ LiveInOrder(b) /\ PageInOrder(b)

\* A page that has events of no client but the session's: its cursor stands
\* for what it holds, and what is above the cursor is on its way once it is
\* connected.
Covers(b) ==
  LET P == prime[b]
      R == rx[b]
      Known(h) == h.ev \in Held(b) \cup lost[b]
      Comes(q, h) == \E j \in 1 .. Len(q) : q[j].seq = h.seq /\ q[j].ev = h.ev
  IN  /\ events[b] = <<>> =>
           /\ lastSeq[b] \in {Null, 0}
           /\ P # <<>> => P[1].ev # Hello \/ P[1].seq = 0
      /\ (\A i \in 1 .. Len(events[b]) : events[b][i].by = client) =>
           /\ lastSeq[b] < next
           /\ \A i \in 1 .. Len(hist) : hist[i].seq <= lastSeq[b] => Known(hist[i])
           /\ bst[b] = "open" /\ ep[b] = client =>
                \A i \in 1 .. Len(hist) :
                  Known(hist[i]) \/ Comes(P, hist[i]) \/ Comes(R, hist[i])

\* The copies of events in the server's history, on their way and on pages.
OnPage(b, x) ==
  \/ \E i \in 1 .. Len(prime[b]) : x = prime[b][i]
  \/ \E i \in 1 .. Len(rx[b]) : x = rx[b][i]
  \/ \E i \in 1 .. Len(events[b]) : x = events[b][i]
InHistory(x) == \E i \in 1 .. Len(hist) : x = Envelope(hist[i])
IsCopy(x) == x.ev # Hello /\ (InHistory(x) \/ \E b \in Browsers : OnPage(b, x))

\* A copy is of a client there was, numbered below next_seq; it is a line of
\* the runner or was injected.
CopiesKnown ==
  \A x \in Envelopes : IsCopy(x) =>
    /\ x.by <= Len(replays)
    /\ x.by = client => x.seq < next
    /\ x.ev > MaxOut => x.ev \in injected

\* The lines a live client still waits for are later than those it got live.
CopiesPrecede ==
  conn = "live" =>
    \A x \in Envelopes :
      IsCopy(x) /\ x.by = client /\ x.ev <= MaxOut /\ x.seq > replays[client] =>
        /\ x.ev <= out
        /\ unsent # 0 => x.ev < unsent
        /\ \A i \in 1 .. Len(dq) : dq[i] # Exit => x.ev < dq[i]

\* A client numbers an event twice only where it was seeded with it.
NumberedOnce ==
  \A x, y \in Envelopes :
    IsCopy(x) /\ IsCopy(y) /\ x.by = y.by /\ x.ev = y.ev /\ x.seq < y.seq
      => x.seq <= replays[x.by]

\* The inductive invariant of the stream.
StreamIInv ==
  /\ TypeOK
  /\ HistorySeqs
  /\ LinesInOrder
  /\ ClientsInOrder
  /\ ResumerWaits
  /\ \A b \in Browsers : Streams(b)
  /\ \A b \in Browsers : Covers(b)
  /\ CopiesKnown
  /\ CopiesPrecede
  /\ NumberedOnce

-----------------------------------------------------------------------------
(* History and catch-up *)

\* History::append: the new entry is last, what is before it is a suffix of
\* the old history, and the budget is kept.
LEMMA HistAppendShape ==
  ASSUME NEW h \in Seq(Entry), NEW s \in Nat \ {0}, NEW e \in AnyEvent,
         NEW new, new = HistAppend(h, s, e)
  PROVE  /\ new \in Seq(Entry)
         /\ WithinBudget(Ones(new), HistMax)
         /\ \E d \in 0 .. Len(h) : AddedTo(new, h, d, [seq |-> s, ev |-> e])
<1>1. PICK entry \in Entry : entry = [seq |-> s, ev |-> e]
  BY DEF Entry
<1>2. PICK t \in Seq(Entry) : t = Append(h, entry)
  BY <1>1, AppendProperties
<1>3. /\ Len(h) \in Nat /\ Len(t) = Len(h) + 1 /\ Len(t) > 0
      /\ \A i \in 1 .. Len(h) : t[i] = h[i]
      /\ t[Len(h) + 1] = entry
  BY <1>1, <1>2, AppendProperties, LenProperties
<1>4. new = HistAppend(h, s, e)
  OBVIOUS
<1>5. new = Evict(t, Ones(t), HistMax)
  BY <1>1, <1>2, <1>4 DEF HistAppend, Ones
<1>6. /\ new \in Seq(Entry)
      /\ WithinBudget(Ones(new), HistMax)
      /\ \E k \in 1 .. Len(t) : FromOn(new, t, k)
  BY <1>3, <1>5, EvictOnes
<1>7. PICK k \in 1 .. Len(t) :
        /\ Len(new) = Len(t) - k + 1
        /\ \A i \in 1 .. (Len(t) - k + 1) : new[i] = t[k + i - 1]
  BY <1>6 DEF FromOn
<1>8. PICK d \in 0 .. Len(h) : k = d + 1
  <2>1. k - 1 \in 0 .. Len(h) /\ k = (k - 1) + 1
    BY <1>3, <1>7
  <2> QED
    BY <2>1
<1>9. Len(new) = Len(h) + 1 - d
  BY <1>3, <1>7, <1>8
<1>10. \A i \in 1 .. (Len(h) - d) : new[i] = h[i + d]
  <2>1. TAKE i \in 1 .. (Len(h) - d)
  <2>2. i \in 1 .. (Len(t) - k + 1) /\ k + i - 1 = i + d /\ i + d \in 1 .. Len(h)
    BY <1>3, <1>8, <2>1
  <2> QED
    BY <1>3, <1>7, <2>2
<1>11. new[Len(h) + 1 - d] = entry
  <2>1. PICK i : i = Len(h) + 1 - d
    OBVIOUS
  <2>2. i \in 1 .. (Len(t) - k + 1) /\ k + i - 1 = Len(h) + 1
    BY <1>3, <1>8, <2>1
  <2> QED
    BY <1>3, <1>7, <2>1, <2>2
<1>12. AddedTo(new, h, d, [seq |-> s, ev |-> e])
  BY <1>1, <1>3, <1>9, <1>10, <1>11 DEF AddedTo
<1> QED
  BY <1>6, <1>12

\* The seed of a new client: the last of the daemon's events, numbered as they
\* were.
LEMMA SeededShape ==
  ASSUME NEW s \in Seq(AnyEvent)
  PROVE  LET new == Seeded(s)
         IN  /\ new \in Seq(Entry)
             /\ WithinBudget(Ones(new), HistMax)
             /\ Len(new) <= Len(s)
             /\ s # <<>> => new # <<>>
             /\ \A i \in 1 .. Len(new) :
                  /\ Len(s) - Len(new) + i \in 1 .. Len(s)
                  /\ new[i] = [seq |-> Len(s) - Len(new) + i, ev |-> s[Len(s) - Len(new) + i]]
<1>1. Len(s) \in Nat /\ \A i \in 1 .. Len(s) : s[i] \in AnyEvent
  BY LenProperties, ElementOfSeq
<1>2. PICK new : new = Seeded(s)
  OBVIOUS
<1>3. CASE s = <<>>
  <2>1. new = <<>>
    BY <1>2, <1>3 DEF Seeded
  <2> QED
    BY <1>2, <1>3, <2>1 DEF WithinBudget, Ones
<1>4. CASE s # <<>>
  <2>1. PICK n \in Nat : n = Len(s) /\ n > 0
    BY <1>1, <1>4, EmptySeq
  <2>2. \A i \in 1 .. n : [seq |-> i, ev |-> s[i]] \in Entry
    BY <1>1, <2>1 DEF Entry
  <2>3. PICK all : all = [i \in 1 .. n |-> [seq |-> i, ev |-> s[i]]]
    OBVIOUS
  <2>4. all \in Seq(Entry) /\ Len(all) = n /\ \A i \in 1 .. n : all[i] = [seq |-> i, ev |-> s[i]]
    BY <2>2, <2>3
  <2>5. new = Evict(all, Ones(all), HistMax)
    <3>1. new = Evict(all, [i \in 1 .. n |-> 1], HistMax)
      BY <1>2, <1>4, <2>1, <2>3 DEF Seeded
    <3>2. [i \in 1 .. n |-> 1] = Ones(all)
      BY <2>4 DEF Ones
    <3> QED
      BY <3>1, <3>2
  <2>6. all \in Seq(Entry) /\ Len(all) > 0
    BY <2>1, <2>4
  <2>7. /\ new \in Seq(Entry)
        /\ WithinBudget(Ones(new), HistMax)
        /\ \E k \in 1 .. Len(all) : FromOn(new, all, k)
    BY <2>5, <2>6, EvictOnes
  <2>8. PICK k \in 1 .. n : /\ Len(new) = n - k + 1
                             /\ \A i \in 1 .. (n - k + 1) : new[i] = all[k + i - 1]
    BY <2>4, <2>7 DEF FromOn
  <2>9. \A i \in 1 .. Len(new) :
          /\ n - Len(new) + i \in 1 .. n
          /\ new[i] = [seq |-> n - Len(new) + i, ev |-> s[n - Len(new) + i]]
    <3>1. TAKE i \in 1 .. Len(new)
    <3>2. PICK j : j = k + i - 1
      OBVIOUS
    <3>3. j \in 1 .. n /\ n - Len(new) + i = j
      BY <2>1, <2>8, <3>1, <3>2
    <3>4. new[i] = all[j]
      BY <2>1, <2>8, <3>1, <3>2
    <3> QED
      BY <2>4, <3>3, <3>4
  <2>10. Len(new) <= n /\ new # <<>>
    BY <2>1, <2>8, EmptySeq
  <2> QED
    BY <1>2, <2>1, <2>7, <2>9, <2>10
<1> QED
  BY <1>3, <1>4

\* The entries of the history.
LEMMA HistoryFields ==
  ASSUME ClientTypeOK, HistorySeqs
  PROVE  /\ hist \in Seq(Entry) /\ Len(hist) \in Nat /\ next \in Nat \ {0}
         /\ LatestSeq \in Nat /\ LatestSeq < next
         /\ hist = <<>> => LatestSeq = 0
         /\ \A i \in 1 .. Len(hist) :
              /\ hist[i] \in Entry /\ hist[i].seq \in Nat \ {0} /\ hist[i].ev \in AnyEvent
              /\ hist[i].seq = LatestSeq - Len(hist) + i
              /\ hist[i].seq <= LatestSeq
         /\ Len(hist) <= LatestSeq
<1>1. hist \in Seq(Entry) /\ Len(hist) \in Nat /\ next \in Nat \ {0}
  BY LenProperties DEF ClientTypeOK
<1>2. /\ LatestSeq = next - 1 /\ Len(hist) <= next - 1 /\ (hist = <<>> => next = 1)
      /\ \A i \in 1 .. Len(hist) : hist[i].seq = next - 1 - Len(hist) + i
  BY DEF HistorySeqs, HistoryWindow, LatestSeq
<1>3. PICK n \in Nat : n = Len(hist)
  BY <1>1
<1>4. LatestSeq \in Nat /\ LatestSeq < next /\ n <= LatestSeq
  BY <1>1, <1>2, <1>3
<1>5. \A i \in 1 .. n : hist[i].seq = LatestSeq - n + i /\ hist[i].seq <= LatestSeq
  BY <1>1, <1>2, <1>3, <1>4
<1>6. \A i \in 1 .. n :
        hist[i] \in Entry /\ hist[i].seq \in Nat \ {0} /\ hist[i].ev \in AnyEvent
  <2>1. \A i \in 1 .. n : hist[i] \in Entry
    BY <1>1, <1>3, ElementOfSeq
  <2> QED
    BY <2>1 DEF Entry
<1> QED
  BY <1>1, <1>2, <1>3, <1>4, <1>5, <1>6

\* attach() sends the entries of the history above the claim, in order, all of
\* them; and with no claim the whole history.
LEMMA CatchUpShape ==
  ASSUME ClientTypeOK, HistorySeqs, NEW ls \in Nat \cup {Null}
  PROVE  \E k \in 1 .. (Len(hist) + 1) :
           /\ CatchUp(ls) \in Seq(Entry)
           /\ Len(CatchUp(ls)) = Len(hist) - k + 1
           /\ \A i \in 1 .. (Len(hist) - k + 1) : CatchUp(ls)[i] = hist[k + i - 1]
           /\ \A i \in 1 .. (k - 1) : hist[i].seq <= ls
           /\ \A i \in k .. Len(hist) : ls < hist[i].seq
           /\ ls \in {Null, 0} => k = 1
<1>1. PICK n \in Nat : n = Len(hist)
  BY HistoryFields
<1>2. PICK top \in Nat : top = LatestSeq
  BY HistoryFields
<1>3. /\ hist \in Seq(Entry) /\ n <= top /\ (hist = <<>> => top = 0)
      /\ \A i \in 1 .. n : hist[i].seq = top - n + i
  BY <1>1, <1>2, HistoryFields
<1>4. ASSUME NEW k \in 1 .. (n + 1), CatchUp(ls) = SuffixFrom(hist, k)
      PROVE  /\ CatchUp(ls) \in Seq(Entry)
             /\ Len(CatchUp(ls)) = n - k + 1
             /\ \A i \in 1 .. (n - k + 1) : CatchUp(ls)[i] = hist[k + i - 1]
  BY <1>1, <1>3, <1>4, SuffixProperties
<1>5. CASE ls # Null /\ ls >= top
  <2>1. CatchUp(ls) = <<>>
    BY <1>2, <1>5 DEF CatchUp
  <2>2. ls \in Nat
    BY <1>5
  <2>3. \A i \in 1 .. n : hist[i].seq <= ls
    BY <1>3, <1>5, <2>2
  <2>4. ls = 0 => n = 0
    BY <1>3, <1>5
  <2>5. PICK k : k = n + 1
    OBVIOUS
  <2>6. /\ k \in 1 .. (n + 1) /\ k - 1 = n /\ n - k + 1 = 0
    BY <2>5
  <2>7. CatchUp(ls) \in Seq(Entry) /\ Len(CatchUp(ls)) = n - k + 1
    BY <2>1, <2>6, EmptySeq
  <2>8. \A i \in 1 .. (n - k + 1) : CatchUp(ls)[i] = hist[k + i - 1]
    BY <2>6
  <2>9. \A i \in k .. n : ls < hist[i].seq
    BY <2>5
  <2>10. ls \in {Null, 0} => k = 1
    BY <1>5, <2>4, <2>5
  <2>11. \A i \in 1 .. (k - 1) : hist[i].seq <= ls
    BY <2>3, <2>6
  <2> QED
    BY <1>1, <2>6, <2>7, <2>8, <2>9, <2>10, <2>11
<1>6. CASE /\ ~ (ls # Null /\ ls >= top)
           /\ ls # Null /\ hist # <<>> /\ ls >= hist[1].seq - 1
  <2>1. ls \in Nat /\ ls < top /\ n >= 1
    BY <1>1, <1>2, <1>3, <1>6, EmptySeq
  <2>2. hist[1].seq = top - n + 1
    BY <1>3, <2>1
  <2>3. PICK c : c = ls - (top - n) + 1
    OBVIOUS
  <2>4. c \in 1 .. (n + 1)
    BY <1>3, <1>6, <2>1, <2>2, <2>3
  <2>5. /\ \A i \in 1 .. (c - 1) : hist[i].seq <= ls
        /\ \A i \in c .. n : hist[i].seq > ls
    BY <1>3, <2>1, <2>3, <2>4
  <2>6. CatchUp(ls) = Since(ls)
    BY <1>2, <1>6 DEF CatchUp
  <2>7. \E k \in 1 .. (n + 1) :
          /\ \A i \in 1 .. (k - 1) : hist[i].seq <= ls
          /\ \A i \in k .. n : hist[i].seq > ls
    BY <2>4, <2>5
  <2>8. PICK k \in 1 .. (n + 1) :
          /\ \A i \in 1 .. (k - 1) : hist[i].seq <= ls
          /\ \A i \in k .. n : hist[i].seq > ls
          /\ Since(ls) = SuffixFrom(hist, k)
    BY <1>1, <2>7 DEF Since
  <2>9. ls = 0 => k = 1
    <3>1. \A i \in 1 .. n : hist[i].seq > 0
      BY <1>3
    <3>2. ls = 0 /\ k # 1 => 1 \in 1 .. (k - 1) /\ 1 \in 1 .. n
      BY <2>1
    <3> QED
      BY <2>1, <2>2, <1>3, <2>8, <3>1, <3>2
  <2>10. \A i \in k .. n : ls < hist[i].seq
    <3>1. \A i \in k .. n : i \in 1 .. n /\ hist[i].seq > ls
      BY <2>8
    <3> QED
      BY <1>3, <2>1, <3>1
  <2>11. /\ CatchUp(ls) \in Seq(Entry)
         /\ Len(CatchUp(ls)) = n - k + 1
         /\ \A i \in 1 .. (n - k + 1) : CatchUp(ls)[i] = hist[k + i - 1]
    BY <1>4, <2>6, <2>8
  <2>12. ls \in {Null, 0} => k = 1
    BY <1>6, <2>9
  <2> QED
    BY <1>1, <2>8, <2>10, <2>11, <2>12
<1>7. CASE /\ ~ (ls # Null /\ ls >= top)
           /\ ~ (ls # Null /\ hist # <<>> /\ ls >= hist[1].seq - 1)
  <2>1. CatchUp(ls) = hist
    BY <1>2, <1>7 DEF CatchUp
  <2>2. \A i \in 1 .. n : ls < hist[i].seq
    <3>1. CASE n = 0
      BY <3>1
    <3>2. CASE n # 0
      <4>1. hist # <<>> /\ hist[1].seq = top - n + 1
        BY <1>1, <1>3, <3>2, EmptySeq
      <4>2. ls = Null \/ (ls \in Nat /\ ls < top - n)
        BY <1>3, <1>7, <4>1
      <4> QED
        BY <1>3, <4>2 DEF Null
    <3> QED
      BY <3>1, <3>2
  <2>3. 1 \in 1 .. (n + 1) /\ \A i \in 1 .. (n - 1 + 1) : hist[i] = hist[1 + i - 1]
    OBVIOUS
  <2>4. Len(CatchUp(ls)) = n - 1 + 1
    BY <1>1, <2>1
  <2> QED
    BY <1>1, <1>3, <2>1, <2>2, <2>3, <2>4
<1> QED
  BY <1>5, <1>6, <1>7
-----------------------------------------------------------------------------
(* The steps of the stream, and the types *)

\* What the steps of AskNext make of the stream's variables.
StreamAct ==
  \/ [Next]_vars
  \/ RemoveSession
  \/ \E b \in Browsers : AttachFails(b)

LEMMA AskStepIsStreamAct == [AskNext]_allVars => StreamAct
<1> SUFFICES ASSUME [AskNext]_allVars PROVE StreamAct
  OBVIOUS
<1>1. CASE StreamStep
  BY <1>1 DEF StreamStep, StreamAct, Next
<1>2. ASSUME NEW q \in Asked, Register(q) \/ HangUp(q) PROVE StreamAct
  BY <1>2 DEF Register, HangUp, StreamAct
<1>3. ASSUME NEW q \in Asked, Surface(q) PROVE StreamAct
  <2>1. Dialog(q) \in Injectable
    BY ChatAssumption, DaemonAssumption
       DEF Asked, Dialog, Injectable, ChatAssumption, DaemonAssumption
  <2> QED
    BY <1>3, <2>1 DEF Surface, StreamAct, Next
<1>4. ASSUME NEW b \in Browsers, NEW q \in Asked, Submit(b, q) \/ Answer(b, q) PROVE StreamAct
  BY <1>4 DEF Submit, Answer, StreamAct
<1>5. ASSUME NEW b \in Browsers, Cut(b) PROVE StreamAct
  BY <1>5 DEF Cut, StreamAct, Next
<1>6. CASE ServerRestart
  BY <1>6 DEF ServerRestart, StreamAct, Next
<1>7. CASE UNCHANGED allVars
  BY <1>7 DEF allVars, StreamAct
<1> QED
  BY <1>1, <1>2, <1>3, <1>4, <1>5, <1>6, <1>7 DEF AskNext, StreamAct

\* A step that touches neither the history nor the queues nor the pages.
Quiet ==
  /\ UNCHANGED <<client, replays, hist, next, injected, ep, prime, rx, lost, lastSeq, events>>
  /\ \A b \in Browsers : bst'[b] = "open" <=> bst[b] = "open"

\* A connection of b ends; the page keeps what it has, or is opened afresh.
Closes(b) ==
  /\ Disconnect(b)
  /\ UNCHANGED <<daemonVars, client, replays, hist, next, injected, lost>>
  /\ UNCHANGED <<lastSeq, events>> \/ Opened(b)

LEMMA StepEffect ==
  ASSUME TypeOK, ResumerWaits, StreamAct
  PROVE  \/ Quiet \/ Connected \/ ReadEvent \/ Restart \/ RemoveSession
         \/ \E e \in Injectable : Inject(e)
         \/ \E b \in Browsers : Attach(b) \/ Receive(b) \/ Closes(b)
<1>0. bst \in [Browsers -> {"closed", "upgraded", "open"}] /\ resumer \in Browsers \cup {Nobody}
  BY DEF TypeOK, WsTypeOK
<1>1. CASE UNCHANGED vars
  BY <1>1 DEF vars, serverVars, clientVars, wsVars, pageVars, Quiet
<1>2. CASE DaemonStep
  BY <1>2 DEF DaemonStep, serverVars, clientVars, wsVars, pageVars, Quiet
<1>3. CASE \E who \in Browsers \cup {Nobody} : Resume(who)
  BY <1>3 DEF Resume, clientVars, wsVars, pageVars, Quiet
<1>4. CASE ResumeFailed
  <2>1. \A b \in Browsers : bst'[b] = "open" <=> bst[b] = "open"
    BY <1>0, <1>4 DEF ResumeFailed, ResumerWaits
  <2> QED
    BY <1>4, <2>1 DEF ResumeFailed, clientVars, pageVars, Quiet
<1>5. CASE ReadExit \/ ReadEof
  BY <1>5 DEF ReadExit, ReadEof, wsVars, pageVars, Quiet
<1>6. ASSUME NEW b \in Browsers, Upgrade(b) PROVE Quiet
  <2>1. \A a \in Browsers : bst'[a] = "open" <=> bst[a] = "open"
    BY <1>0, <1>6 DEF Upgrade
  <2> QED
    BY <1>6, <2>1 DEF Upgrade, clientVars, pageVars, Quiet
<1>7. ASSUME NEW b \in Browsers, Drop(b) \/ Reload(b) \/ AttachFails(b) PROVE Closes(b)
  BY <1>7 DEF Drop, Reload, AttachFails, clientVars, pageVars, Closes
<1> QED
  BY <1>1, <1>2, <1>3, <1>4, <1>5, <1>6, <1>7 DEF StreamAct, Next

\* What an action leaves alone stays well typed.
LEMMA UnchangedTypes ==
  ASSUME TypeOK
  PROVE  /\ UNCHANGED daemonVars => DaemonTypeOK'
         /\ UNCHANGED clientVars => ClientTypeOK'
         /\ UNCHANGED wsVars => WsTypeOK'
         /\ UNCHANGED pageVars => PageTypeOK'
         /\ UNCHANGED faultVars => FaultTypeOK'
<1>1. UNCHANGED daemonVars => DaemonTypeOK'
  BY DEF TypeOK, daemonVars, DaemonTypeOK
<1>2. UNCHANGED clientVars => ClientTypeOK'
  <2> SUFFICES ASSUME UNCHANGED clientVars PROVE ClientTypeOK'
    OBVIOUS
  <2>1. alive' \in BOOLEAN
    BY Zenon DEF TypeOK, ClientTypeOK, clientVars
  <2>2. UNCHANGED <<client, replays, hist, next, injected>>
    BY DEF clientVars
  <2> QED
    BY <2>1, <2>2, Zenon DEF TypeOK, ClientTypeOK
<1>3. UNCHANGED wsVars => WsTypeOK'
  BY DEF TypeOK, wsVars, WsTypeOK
<1>4. UNCHANGED pageVars => PageTypeOK'
  BY DEF TypeOK, pageVars, PageTypeOK
<1>5. UNCHANGED faultVars => FaultTypeOK'
  BY DEF TypeOK, faultVars, FaultTypeOK
<1> QED
  BY <1>1, <1>2, <1>3, <1>4, <1>5

LEMMA StreamInitially == Init => TypeOK /\ HistorySeqs /\ LinesInOrder /\ ResumerWaits
<1> SUFFICES ASSUME Init PROVE TypeOK /\ HistorySeqs /\ LinesInOrder /\ ResumerWaits
  OBVIOUS
<1>1. DaemonTypeOK
  BY DaemonAssumption DEF Init, DaemonInit, DaemonTypeOK, DaemonAssumption
<1>2. ClientTypeOK
  <2>1. /\ client \in Nat /\ replays \in Seq(Nat) /\ hist \in Seq(Entry) /\ next \in Nat \ {0}
        /\ injected \subseteq Injectable
    BY EmptySeq DEF Init
  <2>2. alive \in BOOLEAN
    BY Zenon DEF Init
  <2> QED
    BY <2>1, <2>2, Zenon DEF ClientTypeOK
<1>3. WsTypeOK
  BY EmptySeq DEF Init, WsTypeOK
<1>4. PageTypeOK
  BY EmptySeq DEF Init, PageTypeOK
<1>5. FaultTypeOK
  BY ChatAssumption DEF Init, FaultTypeOK, ChatAssumption
<1>6. resumer \in Browsers \cup {Nobody} /\ ResumerWaits
  BY DEF Init, ResumerWaits
<1>7. HistorySeqs
  BY DEF Init, HistorySeqs, HistoryWindow, WithinBudget
<1>8. LinesInOrder
  BY DEF Init, DaemonInit, LinesInOrder
<1> QED
  BY <1>1, <1>2, <1>3, <1>4, <1>5, <1>6, <1>7, <1>8 DEF TypeOK

\* An event that is published keeps the variables well typed.
LEMMA PublishType ==
  ASSUME TypeOK, \A b \in Browsers : LiveInOrder(b),
         client # 0, NEW e \in AnyEvent, Publish(e)
  PROVE  /\ hist' \in Seq(Entry) /\ next' \in Nat \ {0}
         /\ rx' \in [Browsers -> Seq(Envelopes)]
         /\ lost' \in [Browsers -> SUBSET AnyEvent]
<1> DEFINE f == Envelope([seq |-> next, ev |-> e])
           listening(b) == bst[b] = "open" /\ ep[b] = client
<1>1. /\ next \in Nat \ {0} /\ hist \in Seq(Entry) /\ WsCap \in Nat \ {0}
      /\ client \in Nat \ {0}
      /\ rx \in [Browsers -> Seq(Envelopes)]
      /\ lost \in [Browsers -> SUBSET AnyEvent]
  BY ChatAssumption DEF TypeOK, ClientTypeOK, WsTypeOK, ChatAssumption
<1>2. /\ hist' = HistAppend(hist, next, e) /\ next' = next + 1
      /\ rx' = [b \in Browsers |-> IF listening(b) THEN Push(rx[b], f, WsCap) ELSE rx[b]]
      /\ lost' = [b \in Browsers |->
                    IF listening(b)
                    THEN lost[b] \cup {g.ev : g \in Skipped(rx[b], WsCap)}
                    ELSE lost[b]]
  BY DEF Publish
<1>3. f \in Envelopes
  BY <1>1 DEF Envelope, Envelopes
<1> HIDE DEF f
<1>4. HistAppend(hist, next, e) \in Seq(Entry)
  BY <1>1, HistAppendShape
<1>5. \A b \in Browsers : /\ Push(rx[b], f, WsCap) \in Seq(Envelopes)
                          /\ Skipped(rx[b], WsCap) \in SUBSET Envelopes
  BY <1>1, <1>3, PushType
<1>6. rx' \in [Browsers -> Seq(Envelopes)]
  BY <1>1, <1>2, <1>5
<1>7. ASSUME NEW b \in Browsers, NEW g \in Skipped(rx[b], WsCap) PROVE g.ev \in AnyEvent
  <2>1. rx[b] \in Seq(Envelopes) /\ Len(rx[b]) \in Nat
    BY <1>1, LenProperties
  <2>2. ~ (Len(rx[b]) < WsCap) /\ g = Head(rx[b])
    BY <1>7 DEF Skipped
  <2>3. rx[b] # <<>> /\ 1 \in 1 .. Len(rx[b])
    BY <1>1, <2>1, <2>2
  <2>4. g = rx[b][1] /\ g \in Envelopes
    BY <2>1, <2>2, <2>3, HeadTailProperties
  <2>5. g.ev # Hello
    BY <2>3, <2>4 DEF LiveInOrder
  <2> QED
    BY <2>4, <2>5 DEF Envelopes
<1>8. lost' \in [Browsers -> SUBSET AnyEvent]
  <2>1. \A b \in Browsers : {g.ev : g \in Skipped(rx[b], WsCap)} \in SUBSET AnyEvent
    BY <1>7
  <2> QED
    BY <1>1, <1>2, <2>1
<1> QED
  BY <1>1, <1>2, <1>4, <1>6, <1>8

\* The daemon's lines are events.
LEMMA LinesAreEvents ==
  ASSUME NEW s \in Seq(1 .. MaxOut), MaxOut \in Nat, MaxInject \in Nat
  PROVE  s \in Seq(AnyEvent)
<1>1. Len(s) \in Nat /\ s = [i \in 1 .. Len(s) |-> s[i]]
  BY LenProperties
<1>2. \A i \in 1 .. Len(s) : s[i] \in 1 .. MaxOut
  BY ElementOfSeq
<1>3. \A i \in 1 .. Len(s) : s[i] \in AnyEvent
  BY <1>2 DEF AnyEvent
<1>4. s \in [1 .. Len(s) -> AnyEvent]
  BY <1>1, <1>3
<1> QED
  BY <1>1, <1>4, SeqDef

LEMMA ConnectedType ==
  ASSUME TypeOK, Connected
  PROVE  TypeOK'
<1>1. DaemonTypeOK'
  BY DEF Connected, TypeOK, DaemonTypeOK
<1>2. ClientTypeOK'
  <2>1. ring \in Seq(1 .. MaxOut) /\ ring \in Seq(AnyEvent)
    <3>1. ring \in Seq(1 .. MaxOut) /\ MaxOut \in Nat /\ MaxInject \in Nat
      BY ChatAssumption, DaemonAssumption
         DEF TypeOK, DaemonTypeOK, ChatAssumption, DaemonAssumption
    <3> QED
      BY <3>1, LinesAreEvents
  <2>2. Len(ring) \in Nat /\ Seeded(ring) \in Seq(Entry)
    BY <2>1, LenProperties, SeededShape
  <2>3. /\ replays' = Append(replays, Len(ring)) /\ client' = Len(replays) + 1
        /\ hist' = Seeded(ring) /\ next' = Len(ring) + 1 /\ injected' = injected
    BY DEF Connected
  <2>4. replays \in Seq(Nat) /\ Len(replays) \in Nat
    BY LenProperties DEF TypeOK, ClientTypeOK
  <2>5. replays' \in Seq(Nat)
    BY <2>2, <2>3, <2>4, AppendProperties
  <2>6. client' \in Nat /\ next' \in Nat \ {0}
    BY <2>2, <2>3, <2>4
  <2>7. alive' \in BOOLEAN
    BY Zenon DEF Connected
  <2>8. injected' \subseteq Injectable
    BY <2>3 DEF TypeOK, ClientTypeOK
  <2>9. hist' \in Seq(Entry)
    BY <2>2, <2>3
  <2> QED
    BY <2>5, <2>6, <2>7, <2>8, <2>9, Zenon DEF ClientTypeOK
<1>3. WsTypeOK'
  BY DEF Connected, TypeOK, WsTypeOK
<1>4. resumer' \in Browsers \cup {Nobody}
  BY DEF Connected
<1>5. UNCHANGED pageVars /\ UNCHANGED faultVars
  BY DEF Connected
<1> QED
  BY <1>1, <1>2, <1>3, <1>4, <1>5, UnchangedTypes DEF TypeOK

\* The line the reader task takes.
LEMMA LineTaken ==
  ASSUME DaemonTypeOK, dq # <<>>, Head(dq) # Exit
  PROVE  Head(dq) \in 1 .. MaxOut /\ Head(dq) \in AnyEvent /\ Tail(dq) \in Seq(0 .. MaxOut)
<1>1. dq \in Seq(0 .. MaxOut) /\ MaxOut \in Nat /\ MaxInject \in Nat
  BY DaemonAssumption, ChatAssumption DEF DaemonTypeOK, DaemonAssumption, ChatAssumption
<1>2. Head(dq) \in 0 .. MaxOut /\ Tail(dq) \in Seq(0 .. MaxOut)
  BY <1>1, HeadTailProperties
<1> QED
  BY <1>1, <1>2 DEF Exit, AnyEvent

LEMMA ReadEventType ==
  ASSUME TypeOK, ClientsInOrder, \A b \in Browsers : LiveInOrder(b), ReadEvent
  PROVE  TypeOK'
<1>1. /\ dq # <<>> /\ Head(dq) # Exit /\ conn = "live" /\ dq' = Tail(dq) /\ Publish(Head(dq))
      /\ UNCHANGED <<out, ring, unsent, dstate, conn, dlost, spawns>>
      /\ UNCHANGED <<client, replays, injected>> /\ alive' = alive
      /\ UNCHANGED <<bst, ep, prime>>
      /\ resumer' = resumer /\ UNCHANGED pageVars /\ UNCHANGED faultVars
  BY DEF ReadEvent
<1>2. Head(dq) \in AnyEvent /\ Tail(dq) \in Seq(0 .. MaxOut)
  BY <1>1, LineTaken DEF TypeOK
<1>3. client # 0
  BY <1>1 DEF ClientsInOrder
<1>4. /\ hist' \in Seq(Entry) /\ next' \in Nat \ {0}
      /\ rx' \in [Browsers -> Seq(Envelopes)]
      /\ lost' \in [Browsers -> SUBSET AnyEvent]
  BY <1>1, <1>2, <1>3, PublishType
<1>5. DaemonTypeOK'
  BY <1>1, <1>2 DEF TypeOK, DaemonTypeOK
<1>6. ClientTypeOK'
  <2>1. alive' \in BOOLEAN
    BY <1>1, Zenon DEF TypeOK, ClientTypeOK
  <2> QED
    BY <1>1, <1>4, <2>1, Zenon DEF TypeOK, ClientTypeOK
<1>7. WsTypeOK'
  BY <1>1, <1>4 DEF TypeOK, WsTypeOK
<1> QED
  BY <1>1, <1>5, <1>6, <1>7, UnchangedTypes DEF TypeOK

LEMMA InjectType ==
  ASSUME TypeOK, \A b \in Browsers : LiveInOrder(b), NEW e \in Injectable, Inject(e)
  PROVE  TypeOK'
<1>1. /\ client # 0 /\ injected' = injected \cup {e} /\ Publish(e)
      /\ UNCHANGED daemonVars /\ UNCHANGED <<client, replays>> /\ alive' = alive
      /\ UNCHANGED <<bst, ep, prime>>
      /\ resumer' = resumer /\ UNCHANGED pageVars /\ UNCHANGED faultVars
  BY DEF Inject
<1>2. e \in AnyEvent
  BY DaemonAssumption DEF Injectable, AnyEvent, DaemonAssumption
<1>3. /\ hist' \in Seq(Entry) /\ next' \in Nat \ {0}
      /\ rx' \in [Browsers -> Seq(Envelopes)]
      /\ lost' \in [Browsers -> SUBSET AnyEvent]
  BY <1>1, <1>2, PublishType
<1>4. ClientTypeOK'
  <2>1. alive' \in BOOLEAN
    BY <1>1, Zenon DEF TypeOK, ClientTypeOK
  <2>2. injected' \subseteq Injectable
    BY <1>1 DEF TypeOK, ClientTypeOK
  <2> QED
    BY <1>1, <1>3, <2>1, <2>2, Zenon DEF TypeOK, ClientTypeOK
<1>5. WsTypeOK'
  BY <1>1, <1>3 DEF TypeOK, WsTypeOK
<1> QED
  BY <1>1, <1>4, <1>5, UnchangedTypes DEF TypeOK

\* Restart and the deletion of the session leave no client.
LEMMA ClientGoneType ==
  ASSUME TypeOK, client' = 0, hist' = <<>>, next' = 1, alive' = FALSE,
         UNCHANGED <<replays, injected>>
  PROVE  ClientTypeOK'
<1>1. alive' \in BOOLEAN
  BY Zenon
<1>2. client' \in Nat /\ hist' \in Seq(Entry) /\ next' \in Nat \ {0}
  BY EmptySeq
<1> QED
  BY <1>1, <1>2, Zenon DEF TypeOK, ClientTypeOK

LEMMA RestartType ==
  ASSUME TypeOK, Restart \/ RemoveSession
  PROVE  TypeOK'
<1>1. CASE Restart
  <2>1. DaemonTypeOK'
    BY <1>1, EmptySeq DEF Restart, TypeOK, DaemonTypeOK
  <2>2. ClientTypeOK'
    BY <1>1, ClientGoneType DEF Restart
  <2>3. WsTypeOK'
    BY <1>1, EmptySeq DEF Restart, TypeOK, WsTypeOK
  <2>4. FaultTypeOK'
    BY <1>1, ChatAssumption DEF Restart, TypeOK, FaultTypeOK, ChatAssumption
  <2>5. resumer' = Nobody /\ UNCHANGED pageVars
    BY <1>1 DEF Restart
  <2> QED
    BY <2>1, <2>2, <2>3, <2>4, <2>5, UnchangedTypes DEF TypeOK
<1>2. CASE RemoveSession
  <2>1. DaemonTypeOK'
    BY <1>2, DaemonAssumption, EmptySeq
       DEF RemoveSession, TypeOK, DaemonTypeOK, DaemonAssumption
  <2>2. ClientTypeOK'
    BY <1>2, ClientGoneType DEF RemoveSession
  <2>3. UNCHANGED wsVars /\ UNCHANGED pageVars /\ UNCHANGED faultVars /\ resumer' = resumer
    BY <1>2 DEF RemoveSession
  <2> QED
    BY <2>1, <2>2, <2>3, UnchangedTypes DEF TypeOK
<1> QED
  BY <1>1, <1>2

\* What attach() sends: the entries of the catch-up, then the hello.
LEMMA PrimedShape ==
  ASSUME TypeOK, HistorySeqs, NEW b \in Browsers, Attach(b)
  PROVE  \E k \in 1 .. (Len(hist) + 1) :
           /\ prime'[b] \in Seq(Envelopes)
           /\ Len(prime'[b]) = Len(hist) - k + 2
           /\ \A i \in 1 .. (Len(hist) - k + 1) : prime'[b][i] = Envelope(hist[k + i - 1])
           /\ prime'[b][Len(hist) - k + 2] = HelloEnvelope(LatestSeq)
           /\ \A i \in 1 .. (k - 1) : hist[i].seq <= lastSeq[b]
           /\ \A i \in k .. Len(hist) : lastSeq[b] < hist[i].seq
           /\ lastSeq[b] \in {Null, 0} => k = 1
<1>1. lastSeq[b] \in Nat \cup {Null} /\ client \in Nat \ {0} /\ ClientTypeOK
      /\ prime \in [Browsers -> Seq(Envelopes)]
  BY DEF TypeOK, PageTypeOK, ClientTypeOK, WsTypeOK, Attach
<1>2. PICK due : due = CatchUp(lastSeq[b])
  OBVIOUS
<1>3. PICK n \in Nat : n = Len(hist)
  BY <1>1, HistoryFields
<1>4. PICK k \in 1 .. (n + 1) :
        /\ due \in Seq(Entry)
        /\ Len(due) = n - k + 1
        /\ \A i \in 1 .. (n - k + 1) : due[i] = hist[k + i - 1]
        /\ \A i \in 1 .. (k - 1) : hist[i].seq <= lastSeq[b]
        /\ \A i \in k .. n : lastSeq[b] < hist[i].seq
        /\ lastSeq[b] \in {Null, 0} => k = 1
  BY <1>1, <1>2, <1>3, CatchUpShape
<1>5. PICK m \in Nat : m = n - k + 1
  <2>1. n - k + 1 \in Nat
    BY <1>3
  <2> QED
    BY <2>1
<1>6. PICK hello \in Envelopes : hello = HelloEnvelope(LatestSeq)
  BY <1>1, HistoryFields DEF HelloEnvelope, Envelopes
<1>7. PICK sq : sq = [i \in 1 .. m |-> Envelope(due[i])]
  OBVIOUS
<1>8. \A i \in 1 .. m : Envelope(due[i]) \in Envelopes
  <2>1. \A i \in 1 .. m : due[i] \in Entry
    BY <1>4, <1>5, ElementOfSeq
  <2> QED
    BY <1>1, <2>1 DEF Envelope, Envelopes, Entry
<1>9. sq \in Seq(Envelopes) /\ Len(sq) = m /\ \A i \in 1 .. m : sq[i] = Envelope(due[i])
  BY <1>7, <1>8
<1>10. prime'[b] = Append(sq, hello)
  <2>1. prime' = [prime EXCEPT ![b] =
                    Append([i \in 1 .. Len(due) |-> Envelope(due[i])], HelloEnvelope(LatestSeq))]
    BY <1>2 DEF Attach
  <2> QED
    BY <1>1, <1>4, <1>5, <1>6, <1>7, <2>1
<1>11. /\ prime'[b] \in Seq(Envelopes) /\ Len(prime'[b]) = m + 1
       /\ \A i \in 1 .. m : prime'[b][i] = sq[i]
       /\ prime'[b][m + 1] = hello
  BY <1>6, <1>9, <1>10, AppendProperties
<1>12. m + 1 = n - k + 2
  BY <1>4, <1>5
<1>13. \A i \in 1 .. m : prime'[b][i] = Envelope(hist[k + i - 1])
  BY <1>4, <1>5, <1>9, <1>11
<1> QED
  BY <1>3, <1>4, <1>5, <1>6, <1>11, <1>12, <1>13

LEMMA AttachType ==
  ASSUME TypeOK, HistorySeqs, NEW b \in Browsers, Upgrade(b) \/ Attach(b)
  PROVE  TypeOK'
<1>1. ASSUME Upgrade(b) PROVE WsTypeOK'
  BY <1>1 DEF Upgrade, TypeOK, WsTypeOK
<1>2. ASSUME Attach(b) PROVE WsTypeOK'
  <2>1. prime'[b] \in Seq(Envelopes)
    BY <1>2, PrimedShape
  <2>2. PICK due : prime' = [prime EXCEPT ![b] = due]
    BY <1>2 DEF Attach
  <2>3. prime' \in [Browsers -> Seq(Envelopes)]
    BY <2>1, <2>2 DEF TypeOK, WsTypeOK
  <2>4. client \in Nat
    BY DEF TypeOK, ClientTypeOK
  <2>5. /\ bst' = [bst EXCEPT ![b] = "open"] /\ ep' = [ep EXCEPT ![b] = client]
        /\ rx' = [rx EXCEPT ![b] = <<>>] /\ lost' = lost
    BY <1>2 DEF Attach
  <2> QED
    BY <2>3, <2>4, <2>5, EmptySeq DEF TypeOK, WsTypeOK
<1>3. /\ UNCHANGED daemonVars /\ UNCHANGED clientVars /\ UNCHANGED resumer
      /\ UNCHANGED pageVars /\ UNCHANGED faultVars
  BY DEF Upgrade, Attach
<1> QED
  BY <1>1, <1>2, <1>3, UnchangedTypes DEF TypeOK

\* The next envelope of a connection is one, and so is the rest.
LEMMA QueueType ==
  ASSUME NEW q \in [Browsers -> Seq(Envelopes)], NEW b \in Browsers, q[b] # <<>>
  PROVE  /\ Head(q[b]) \in Envelopes
         /\ [q EXCEPT ![b] = Tail(@)] \in [Browsers -> Seq(Envelopes)]
<1>1. q[b] \in Seq(Envelopes)
  OBVIOUS
<1>2. Head(q[b]) \in Envelopes /\ Tail(q[b]) \in Seq(Envelopes)
  BY <1>1, HeadTailProperties
<1> QED
  BY <1>2

LEMMA TakeType ==
  ASSUME TypeOK, NEW b \in Browsers, NEW f \in Envelopes, Take(b, f)
  PROVE  PageTypeOK'
<1>1. f.seq \in Nat
  BY DEF Envelopes
<1>2. events \in [Browsers -> Seq(Envelopes)] /\ lastSeq \in [Browsers -> Nat \cup {Null}]
  BY DEF TypeOK, PageTypeOK
<1>3. Append(events[b], f) \in Seq(Envelopes)
  BY <1>2, AppendProperties
<1> QED
  BY <1>1, <1>2, <1>3 DEF Take, PageTypeOK

LEMMA ReceiveType ==
  ASSUME TypeOK, NEW b \in Browsers, Receive(b)
  PROVE  TypeOK'
<1>1. prime \in [Browsers -> Seq(Envelopes)] /\ rx \in [Browsers -> Seq(Envelopes)]
  BY DEF TypeOK, WsTypeOK
<1>2. /\ PageTypeOK'
      /\ prime' \in [Browsers -> Seq(Envelopes)] /\ rx' \in [Browsers -> Seq(Envelopes)]
  <2>1. CASE /\ prime[b] # <<>> /\ Take(b, Head(prime[b]))
             /\ prime' = [prime EXCEPT ![b] = Tail(@)] /\ rx' = rx
    BY <1>1, <2>1, QueueType, TakeType
  <2>2. CASE /\ rx[b] # <<>> /\ Take(b, Head(rx[b]))
             /\ rx' = [rx EXCEPT ![b] = Tail(@)] /\ prime' = prime
    BY <1>1, <2>2, QueueType, TakeType
  <2> QED
    BY <2>1, <2>2 DEF Receive
<1>3. /\ UNCHANGED daemonVars /\ UNCHANGED clientVars /\ UNCHANGED resumer
      /\ UNCHANGED <<bst, ep, lost>> /\ UNCHANGED faultVars
  BY DEF Receive
<1>4. WsTypeOK'
  BY <1>2, <1>3 DEF TypeOK, WsTypeOK
<1> QED
  BY <1>2, <1>3, <1>4, UnchangedTypes DEF TypeOK

LEMMA DropType ==
  ASSUME TypeOK, NEW b \in Browsers, Drop(b) \/ Reload(b) \/ AttachFails(b)
  PROVE  TypeOK'
<1>1. WsTypeOK'
  <2>1. Disconnect(b) /\ lost' = lost
    BY DEF Drop, Reload, AttachFails
  <2> QED
    BY <2>1, EmptySeq DEF Disconnect, TypeOK, WsTypeOK
<1>2. PageTypeOK'
  <2>1. CASE UNCHANGED pageVars
    BY <2>1, UnchangedTypes
  <2>2. CASE Opened(b)
    BY <2>2, EmptySeq DEF Opened, TypeOK, PageTypeOK
  <2> QED
    BY <2>1, <2>2 DEF Drop, Reload, AttachFails
<1>3. FaultTypeOK'
  BY ChatAssumption DEF Drop, Reload, AttachFails, TypeOK, FaultTypeOK, ChatAssumption, faultVars
<1>4. UNCHANGED daemonVars /\ UNCHANGED clientVars /\ UNCHANGED resumer
  BY DEF Drop, Reload, AttachFails
<1> QED
  BY <1>1, <1>2, <1>3, <1>4, UnchangedTypes DEF TypeOK

\* TypeOK is inductive together with the history, which attach() needs to find
\* the place of a cursor, and the queues, which hold no second hello.
LEMMA TypeStep ==
  ASSUME TypeOK, HistorySeqs, ClientsInOrder, \A b \in Browsers : LiveInOrder(b), StreamAct
  PROVE  TypeOK'
<1>1. CASE UNCHANGED vars
  BY <1>1, UnchangedTypes DEF TypeOK, vars, serverVars
<1>2. CASE DaemonStep
  <2>1. DaemonTypeOK'
    BY <1>2, DaemonTypeStep DEF TypeOK, DaemonStep
  <2>2. /\ UNCHANGED clientVars /\ UNCHANGED resumer /\ UNCHANGED wsVars
        /\ UNCHANGED pageVars /\ UNCHANGED faultVars
    BY <1>2 DEF DaemonStep, serverVars
  <2> QED
    BY <2>1, <2>2, UnchangedTypes DEF TypeOK
<1>3. ASSUME NEW who \in Browsers \cup {Nobody}, Resume(who) PROVE TypeOK'
  <2>1. DaemonTypeOK'
    BY <1>3, AcceptType DEF TypeOK, Resume
  <2>2. /\ UNCHANGED clientVars /\ UNCHANGED wsVars
        /\ UNCHANGED pageVars /\ UNCHANGED faultVars /\ resumer' = who
    BY <1>3 DEF Resume
  <2> QED
    BY <2>1, <2>2, UnchangedTypes DEF TypeOK
<1>4. CASE ResumeFailed
  <2>1. DaemonTypeOK'
    BY <1>4 DEF ResumeFailed, TypeOK, DaemonTypeOK
  <2>2. WsTypeOK'
    BY <1>4 DEF ResumeFailed, TypeOK, WsTypeOK
  <2>3. resumer' \in Browsers \cup {Nobody} /\ UNCHANGED clientVars
        /\ UNCHANGED pageVars /\ UNCHANGED faultVars
    BY <1>4 DEF ResumeFailed
  <2> QED
    BY <2>1, <2>2, <2>3, UnchangedTypes DEF TypeOK
<1>5. CASE ReadExit \/ ReadEof
  <2>1. DaemonTypeOK'
    <3>1. /\ conn' \in {"none", "subscribed", "live"} /\ dq' \in Seq(0 .. MaxOut)
          /\ UNCHANGED <<out, ring, unsent, dstate, dlost, spawns>>
      BY <1>5, EmptySeq DEF ReadExit, ReadEof, daemonVars, TypeOK, DaemonTypeOK
    <3> QED
      BY <3>1 DEF TypeOK, DaemonTypeOK
  <2>2. ClientTypeOK'
    <3>1. alive' = FALSE /\ UNCHANGED <<client, replays, hist, next, injected>>
      BY <1>5 DEF ReadExit, ReadEof
    <3>2. alive' \in BOOLEAN
      BY <3>1, Zenon
    <3> QED
      BY <3>1, <3>2, Zenon DEF TypeOK, ClientTypeOK
  <2>3. /\ UNCHANGED resumer /\ UNCHANGED wsVars
        /\ UNCHANGED pageVars /\ UNCHANGED faultVars
    BY <1>5 DEF ReadExit, ReadEof
  <2> QED
    BY <2>1, <2>2, <2>3, UnchangedTypes DEF TypeOK
<1> QED
  BY <1>1, <1>2, <1>3, <1>4, <1>5, ConnectedType, ReadEventType, InjectType, RestartType,
     AttachType, ReceiveType, DropType DEF StreamAct, Next
-----------------------------------------------------------------------------
(* The history, the daemon's lines, and the clients *)

\* What an event that is published makes of the history.
LEMMA PublishShape ==
  ASSUME ClientTypeOK, NEW e \in AnyEvent, Publish(e)
  PROVE  /\ next' = next + 1
         /\ hist' \in Seq(Entry)
         /\ WithinBudget(Ones(hist'), HistMax)
         /\ \E d \in 0 .. Len(hist) : AddedTo(hist', hist, d, [seq |-> next, ev |-> e])
<1>1. hist \in Seq(Entry) /\ next \in Nat \ {0}
  BY DEF ClientTypeOK
<1>2. next' = next + 1 /\ hist' = HistAppend(hist, next, e)
  BY DEF Publish
<1>3. PICK new : new = HistAppend(hist, next, e)
  OBVIOUS
<1>4. /\ new \in Seq(Entry)
      /\ WithinBudget(Ones(new), HistMax)
      /\ \E d \in 0 .. Len(hist) : AddedTo(new, hist, d, [seq |-> next, ev |-> e])
  BY <1>1, <1>3, HistAppendShape
<1>5. hist' = new
  BY <1>2, <1>3
<1> QED
  BY <1>2, <1>4, <1>5

LEMMA HistoryPublished ==
  ASSUME ClientTypeOK, HistorySeqs, client # 0, client' = client,
         NEW e \in AnyEvent, Publish(e)
  PROVE  HistorySeqs'
<1>1. PICK new : new = hist'
  OBVIOUS
<1>2. PICK n \in Nat : n = Len(hist)
  BY HistoryFields
<1>3. PICK d \in 0 .. n :
        /\ Len(new) = n + 1 - d
        /\ \A i \in 1 .. (n - d) : new[i] = hist[i + d]
        /\ new[n + 1 - d] = [seq |-> next, ev |-> e]
  <2>1. PICK d \in 0 .. n : AddedTo(new, hist, d, [seq |-> next, ev |-> e])
    BY <1>1, <1>2, PublishShape
  <2> QED
    BY <1>2, <2>1 DEF AddedTo
<1>4. next' = next + 1 /\ WithinBudget(Ones(new), HistMax)
  BY <1>1, PublishShape
<1>5. /\ next \in Nat \ {0} /\ n <= next - 1
      /\ \A i \in 1 .. n : hist[i].seq = next - 1 - n + i
  BY <1>2 DEF HistorySeqs, HistoryWindow, ClientTypeOK
<1>6. Len(new) = n + 1 - d /\ Len(new) <= next' - 1 /\ new # <<>>
  BY <1>2, <1>3, <1>4, <1>5, EmptySeq
<1>7. \A i \in 1 .. Len(new) : new[i].seq = next' - 1 - Len(new) + i
  <2>1. TAKE i \in 1 .. Len(new)
  <2>2. CASE i = n + 1 - d
    BY <1>3, <1>4, <1>5, <2>2
  <2>3. CASE i # n + 1 - d
    <3>1. i \in 1 .. (n - d) /\ i + d \in 1 .. n
      BY <1>2, <1>3, <2>1, <2>3
    <3>2. new[i].seq = next - 1 - n + (i + d)
      BY <1>3, <1>5, <3>1
    <3>3. PICK x : x = next'
      OBVIOUS
    <3>4. x = next + 1 /\ Len(new) = n + 1 - d
      BY <1>3, <1>4, <3>3
    <3>5. next - 1 - n + (i + d) = x - 1 - Len(new) + i
      BY <1>2, <1>5, <3>1, <3>4
    <3> QED
      BY <3>2, <3>3, <3>5
  <2> QED
    BY <2>2, <2>3
<1> QED
  BY <1>1, <1>4, <1>6, <1>7 DEF HistorySeqs, HistoryWindow, Ones

LEMMA HistoryConnected ==
  ASSUME TypeOK, Connected
  PROVE  /\ HistorySeqs'
         /\ ring \in Seq(AnyEvent) /\ Len(ring) \in Nat
         /\ \A i \in 1 .. Len(hist') : /\ hist'[i].seq \in 1 .. Len(ring)
                                       /\ hist'[i].ev = ring[hist'[i].seq]
<1>1. ring \in Seq(AnyEvent) /\ Len(ring) \in Nat
  <2>1. ring \in Seq(1 .. MaxOut) /\ MaxOut \in Nat /\ MaxInject \in Nat
    BY ChatAssumption, DaemonAssumption
       DEF TypeOK, DaemonTypeOK, ChatAssumption, DaemonAssumption
  <2> QED
    BY <2>1, LinesAreEvents, LenProperties
<1>2. PICK new : new = Seeded(ring)
  OBVIOUS
<1>3. PICK r \in Nat : r = Len(ring)
  BY <1>1
<1>4. /\ new \in Seq(Entry) /\ WithinBudget(Ones(new), HistMax) /\ Len(new) <= r
      /\ ring # <<>> => new # <<>>
      /\ \A i \in 1 .. Len(new) :
           /\ r - Len(new) + i \in 1 .. r
           /\ new[i] = [seq |-> r - Len(new) + i, ev |-> ring[r - Len(new) + i]]
  BY <1>1, <1>2, <1>3, SeededShape
<1>5. hist' = new /\ next' = r + 1 /\ client' = Len(replays) + 1
  BY <1>2, <1>3 DEF Connected
<1>6. client' # 0
  BY <1>5, LenProperties DEF TypeOK, ClientTypeOK
<1>7. PICK n \in Nat : n = Len(new)
  BY <1>4, LenProperties
<1>8. \A i \in 1 .. n : /\ new[i].seq = r - n + i
                        /\ new[i].seq \in 1 .. r
                        /\ new[i].ev = ring[new[i].seq]
  <2>1. TAKE i \in 1 .. n
  <2>2. PICK s \in 1 .. r : s = r - n + i
    BY <1>4, <1>7
  <2>3. new[i] = [seq |-> s, ev |-> ring[s]]
    BY <1>4, <1>7, <2>2
  <2> QED
    BY <2>2, <2>3
<1>9. new = <<>> => r = 0
  BY <1>1, <1>3, <1>4, EmptySeq
<1>10. \A i \in 1 .. n : new[i].seq = next' - 1 - n + i
  BY <1>3, <1>5, <1>7, <1>8
<1>11. HistorySeqs'
  <2>1. n <= next' - 1 /\ (new = <<>> => next' = 1)
    BY <1>3, <1>4, <1>5, <1>7, <1>9
  <2> QED
    BY <1>4, <1>5, <1>6, <1>7, <1>10, <2>1 DEF HistorySeqs, HistoryWindow, Ones
<1> QED
  BY <1>1, <1>3, <1>5, <1>7, <1>8, <1>11

LEMMA HistoryStep ==
  ASSUME TypeOK, HistorySeqs, ClientsInOrder, ResumerWaits, StreamAct
  PROVE  HistorySeqs'
<1>0. ClientTypeOK /\ DaemonTypeOK
  BY DEF TypeOK
<1>1. ASSUME UNCHANGED <<client, hist, next>> PROVE HistorySeqs'
  BY <1>1 DEF HistorySeqs, HistoryWindow
<1>2. ASSUME hist' = <<>>, next' = 1, client' = 0 PROVE HistorySeqs'
  <2>1. Len(hist') = 0 /\ [i \in 1 .. 0 |-> 1] = <<>>
    BY <1>2
  <2> QED
    BY <1>2, <2>1 DEF HistorySeqs, HistoryWindow, WithinBudget
<1>3. ASSUME ReadEvent PROVE HistorySeqs'
  <2>1. Head(dq) \in AnyEvent
    BY <1>0, <1>3, LineTaken DEF ReadEvent
  <2>2. client # 0 /\ client' = client /\ Publish(Head(dq))
    BY <1>3 DEF ReadEvent, ClientsInOrder
  <2> QED
    BY <1>0, <2>1, <2>2, HistoryPublished
<1>4. ASSUME NEW e \in Injectable, Inject(e) PROVE HistorySeqs'
  <2>1. e \in AnyEvent
    BY DaemonAssumption DEF Injectable, AnyEvent, DaemonAssumption
  <2>2. client # 0 /\ client' = client /\ Publish(e)
    BY <1>4 DEF Inject
  <2> QED
    BY <1>0, <2>1, <2>2, HistoryPublished
<1>5. CASE Quiet
  BY <1>1, <1>5 DEF Quiet
<1>6. CASE Restart \/ RemoveSession
  BY <1>2, <1>6 DEF Restart, RemoveSession
<1>7. ASSUME NEW b \in Browsers, Attach(b) \/ Receive(b) \/ Closes(b) PROVE HistorySeqs'
  BY <1>1, <1>7 DEF Attach, Receive, Closes, clientVars
<1> QED
  BY <1>3, <1>4, <1>5, <1>6, <1>7, HistoryConnected, StepEffect

\* What a step of the stream does to the events that are still owed.
LEMMA StreamMoves ==
  ASSUME StreamAct
  PROVE  Moves
<1>1. ASSUME UNCHANGED <<out, unsent, dq>> PROVE Moves
  BY <1>1 DEF Moves
<1>2. ASSUME dq' = <<>>, unsent' = 0 \/ unsent' = unsent, out' = out PROVE Moves
  BY <1>2 DEF Moves, Emptied
<1>3. CASE PtyRead \/ PtyBroadcast \/ ChildExit
  BY <1>3 DEF Moves
<1>4. CASE DaemonGone
  BY <1>2, <1>4 DEF DaemonGone
<1>5. ASSUME NEW who \in Browsers \cup {Nobody}, Resume(who) PROVE Moves
  BY <1>2, <1>5 DEF Resume, Accept
<1>6. CASE Connected \/ ResumeFailed
  BY <1>1, <1>6 DEF Connected, ResumeFailed
<1>7. CASE ReadEvent
  BY <1>7 DEF ReadEvent, Moves, ItemTaken
<1>8. ASSUME NEW e \in Injectable, Inject(e) PROVE Moves
  BY <1>1, <1>8 DEF Inject, daemonVars
<1>9. CASE ReadExit \/ Restart \/ RemoveSession
  BY <1>2, <1>9 DEF ReadExit, Restart, RemoveSession
<1>10. CASE ReadEof
  BY <1>1, <1>10 DEF ReadEof, daemonVars
<1>11. ASSUME NEW b \in Browsers,
              Upgrade(b) \/ Attach(b) \/ Receive(b) \/ Drop(b) \/ Reload(b) \/ AttachFails(b)
       PROVE  Moves
  BY <1>1, <1>11 DEF Upgrade, Attach, Receive, Drop, Reload, AttachFails, daemonVars
<1>12. CASE UNCHANGED vars
  BY <1>1, <1>12 DEF vars, daemonVars
<1> QED
  BY <1>3, <1>4, <1>5, <1>6, <1>7, <1>8, <1>9, <1>10, <1>11, <1>12
     DEF StreamAct, Next, DaemonStep

LEMMA LinesStep ==
  ASSUME TypeOK, LinesInOrder, StreamAct
  PROVE  LinesInOrder'
BY LinesKept, StreamMoves DEF TypeOK

LEMMA ResumerStep ==
  ASSUME TypeOK, ResumerWaits, StreamAct
  PROVE  ResumerWaits'
<1>1. bst \in [Browsers -> {"closed", "upgraded", "open"}] /\ resumer \in Browsers \cup {Nobody}
  BY DEF TypeOK, WsTypeOK
<1>2. CASE DaemonStep
  BY <1>2 DEF DaemonStep, PtyRead, PtyBroadcast, ChildExit, DaemonGone,
              serverVars, wsVars, ResumerWaits
<1>3. ASSUME NEW who \in Browsers \cup {Nobody}, Resume(who) PROVE ResumerWaits'
  BY <1>3 DEF Resume, wsVars, ResumerWaits
<1>4. CASE Connected \/ ResumeFailed \/ ReadExit \/ Restart \/ RemoveSession
  BY <1>4 DEF Connected, ResumeFailed, ReadExit, Restart, RemoveSession, ResumerWaits
<1>5. CASE ReadEvent \/ ReadEof
  BY <1>5 DEF ReadEvent, ReadEof, daemonVars, ResumerWaits
<1>6. ASSUME NEW e \in Injectable, Inject(e) PROVE ResumerWaits'
  BY <1>6 DEF Inject, LockFree, daemonVars, ResumerWaits
<1>7. ASSUME NEW b \in Browsers, Upgrade(b) \/ Attach(b) PROVE ResumerWaits'
  BY <1>7 DEF Upgrade, Attach, LockFree, daemonVars, ResumerWaits
<1>8. ASSUME NEW b \in Browsers, Receive(b) PROVE ResumerWaits'
  BY <1>8 DEF Receive, daemonVars, ResumerWaits
<1>9. ASSUME NEW b \in Browsers, Drop(b) \/ Reload(b) \/ AttachFails(b) PROVE ResumerWaits'
  BY <1>1, <1>9 DEF Drop, Reload, AttachFails, Disconnect, daemonVars, ResumerWaits
<1>10. CASE UNCHANGED vars
  BY <1>10 DEF vars, daemonVars, serverVars, wsVars, ResumerWaits
<1> QED
  BY <1>2, <1>3, <1>4, <1>5, <1>6, <1>7, <1>8, <1>9, <1>10 DEF StreamAct, Next
-----------------------------------------------------------------------------
(* Envelopes, and what a page makes of one *)

LEMMA EnvelopeFields ==
  ASSUME NEW q \in Seq(Envelopes)
  PROVE  /\ Len(q) \in Nat
         /\ q # <<>> => Len(q) \in 1 .. Len(q) /\ 1 \in 1 .. Len(q)
         /\ \A i \in 1 .. Len(q) :
              /\ q[i] \in Envelopes /\ q[i].seq \in Nat /\ q[i].by \in Nat \ {0}
              /\ q[i].ev \in AnyEvent \cup {Hello}
<1>1. PICK n \in Nat : n = Len(q)
  BY LenProperties
<1>2. q # <<>> => n \in 1 .. n /\ 1 \in 1 .. n
  BY <1>1, EmptySeq
<1>3. \A i \in 1 .. n : q[i] \in Envelopes
  BY <1>1, ElementOfSeq
<1>4. \A x \in Envelopes : /\ x.seq \in Nat /\ x.by \in Nat \ {0}
                           /\ x.ev \in AnyEvent \cup {Hello}
  BY DEF Envelopes
<1> QED
  BY <1>1, <1>2, <1>3, <1>4

LEMMA BrowserTypes ==
  ASSUME TypeOK, NEW b \in Browsers
  PROVE  /\ prime[b] \in Seq(Envelopes) /\ rx[b] \in Seq(Envelopes)
         /\ events[b] \in Seq(Envelopes)
         /\ lost[b] \in SUBSET AnyEvent
         /\ lastSeq[b] \in Nat \cup {Null} /\ ep[b] \in Nat
         /\ bst[b] \in {"closed", "upgraded", "open"}
         /\ client \in Nat /\ next \in Nat \ {0}
         /\ replays \in Seq(Nat) /\ Len(replays) \in Nat
BY LenProperties DEF TypeOK, ClientTypeOK, WsTypeOK, PageTypeOK

\* The events of a page that took envelope f.
Taken(old, f) == IF f.ev = Hello THEN old ELSE Append(old, f)

\* new is old, with f after it unless f is a hello.
Follows(new, old, f) ==
  /\ new \in Seq(Envelopes)
  /\ \A i \in 1 .. Len(new) :
       \/ i \in 1 .. Len(old) /\ new[i] = old[i]
       \/ f.ev # Hello /\ i = Len(new) /\ i = Len(old) + 1 /\ new[i] = f
  /\ \A i \in 1 .. Len(old) : i \in 1 .. Len(new) /\ new[i] = old[i]
  /\ f.ev # Hello => new # <<>> /\ \E i \in 1 .. Len(new) : new[i] = f

LEMMA TakenShape ==
  ASSUME NEW old \in Seq(Envelopes), NEW f \in Envelopes
  PROVE  Follows(Taken(old, f), old, f)
<1> SUFFICES ASSUME NEW new, new = Taken(old, f) PROVE Follows(new, old, f)
  OBVIOUS
<1>1. PICK n \in Nat : n = Len(old)
  BY LenProperties
<1>2. CASE f.ev = Hello
  BY <1>2 DEF Taken, Follows
<1>3. CASE f.ev # Hello
  <2>1. new = Append(old, f)
    BY <1>3 DEF Taken
  <2>2. /\ new \in Seq(Envelopes) /\ Len(new) = n + 1 /\ new[n + 1] = f
        /\ \A i \in 1 .. n : new[i] = old[i]
    BY <1>1, <2>1, AppendProperties
  <2>3. n + 1 \in 1 .. (n + 1) /\ \A i \in 1 .. (n + 1) : i \in 1 .. n \/ i = n + 1
    BY <1>1
  <2>4. new # <<>>
    BY <1>1, <2>2, EmptySeq
  <2> QED
    BY <1>1, <1>3, <2>2, <2>3, <2>4 DEF Follows
<1> QED
  BY <1>2, <1>3

\* Which envelope b receives, and what becomes of its queues and its page.
Received(b, f) ==
  /\ bst[b] = "open"
  /\ lastSeq'[b] = f.seq
  /\ events'[b] = Taken(events[b], f)
  /\ \/ /\ prime[b] # <<>> /\ f = Head(prime[b])
        /\ prime'[b] = Tail(prime[b]) /\ rx'[b] = rx[b]
     \/ /\ prime[b] = <<>> /\ prime'[b] = <<>>
        /\ rx[b] # <<>> /\ f = Head(rx[b]) /\ rx'[b] = Tail(rx[b])

LEMMA ReceiveEffect ==
  ASSUME TypeOK, NEW b \in Browsers, Receive(b)
  PROVE  /\ \E f \in Envelopes : Received(b, f)
         /\ UNCHANGED <<daemonVars, clientVars, bst, ep, lost>>
         /\ \A a \in Browsers \ {b} :
              /\ prime'[a] = prime[a] /\ rx'[a] = rx[a]
              /\ lastSeq'[a] = lastSeq[a] /\ events'[a] = events[a]
<1>1. /\ prime \in [Browsers -> Seq(Envelopes)] /\ rx \in [Browsers -> Seq(Envelopes)]
      /\ lastSeq \in [Browsers -> Nat \cup {Null}] /\ events \in [Browsers -> Seq(Envelopes)]
  BY DEF TypeOK, WsTypeOK, PageTypeOK
<1>2. ASSUME NEW f, Take(b, f)
      PROVE  /\ lastSeq'[b] = f.seq /\ events'[b] = Taken(events[b], f)
             /\ \A a \in Browsers \ {b} : lastSeq'[a] = lastSeq[a] /\ events'[a] = events[a]
  BY <1>1, <1>2 DEF Take, Taken
<1>3. CASE /\ prime[b] # <<>> /\ Take(b, Head(prime[b]))
           /\ prime' = [prime EXCEPT ![b] = Tail(@)] /\ rx' = rx
  <2>1. PICK f \in Envelopes : f = Head(prime[b])
    BY <1>1, <1>3, QueueType
  <2>2. Take(b, f)
    BY <1>3, <2>1
  <2>3. /\ lastSeq'[b] = f.seq /\ events'[b] = Taken(events[b], f)
        /\ \A a \in Browsers \ {b} : lastSeq'[a] = lastSeq[a] /\ events'[a] = events[a]
    BY <1>2, <2>2
  <2>4. prime'[b] = Tail(prime[b]) /\ \A a \in Browsers \ {b} : prime'[a] = prime[a]
    BY <1>1, <1>3
  <2>5. Received(b, f)
    BY <1>3, <2>1, <2>3, <2>4 DEF Receive, Received
  <2> QED
    BY <1>3, <2>3, <2>4, <2>5 DEF Receive
<1>4. CASE /\ prime[b] = <<>> /\ rx[b] # <<>> /\ Take(b, Head(rx[b]))
           /\ rx' = [rx EXCEPT ![b] = Tail(@)] /\ prime' = prime
  <2>1. PICK f \in Envelopes : f = Head(rx[b])
    BY <1>1, <1>4, QueueType
  <2>2. Take(b, f)
    BY <1>4, <2>1
  <2>3. /\ lastSeq'[b] = f.seq /\ events'[b] = Taken(events[b], f)
        /\ \A a \in Browsers \ {b} : lastSeq'[a] = lastSeq[a] /\ events'[a] = events[a]
    BY <1>2, <2>2
  <2>4. rx'[b] = Tail(rx[b]) /\ \A a \in Browsers \ {b} : rx'[a] = rx[a]
    BY <1>1, <1>4
  <2>5. Received(b, f)
    BY <1>4, <2>1, <2>3, <2>4 DEF Receive, Received
  <2> QED
    BY <1>4, <2>3, <2>4, <2>5 DEF Receive
<1> QED
  BY <1>3, <1>4 DEF Receive

\* What becomes of b when its connection ends, and of the others.
LEMMA CloseEffect ==
  ASSUME TypeOK, NEW b \in Browsers, Closes(b)
  PROVE  /\ bst'[b] = "closed" /\ ep'[b] = 0 /\ prime'[b] = <<>> /\ rx'[b] = <<>>
         /\ \/ lastSeq'[b] = lastSeq[b] /\ events'[b] = events[b]
            \/ lastSeq'[b] = Null /\ events'[b] = <<>>
         /\ UNCHANGED <<client, replays, hist, next, injected, lost>>
         /\ \A a \in Browsers \ {b} :
              /\ bst'[a] = bst[a] /\ ep'[a] = ep[a] /\ prime'[a] = prime[a]
              /\ rx'[a] = rx[a] /\ lastSeq'[a] = lastSeq[a] /\ events'[a] = events[a]
<1>1. /\ bst'[b] = "closed" /\ ep'[b] = 0 /\ prime'[b] = <<>> /\ rx'[b] = <<>>
      /\ \A a \in Browsers \ {b} : /\ bst'[a] = bst[a] /\ ep'[a] = ep[a]
                                   /\ prime'[a] = prime[a] /\ rx'[a] = rx[a]
  BY DEF Closes, Disconnect, TypeOK, WsTypeOK
<1>2. /\ \/ lastSeq'[b] = lastSeq[b] /\ events'[b] = events[b]
         \/ lastSeq'[b] = Null /\ events'[b] = <<>>
      /\ \A a \in Browsers \ {b} : lastSeq'[a] = lastSeq[a] /\ events'[a] = events[a]
  BY DEF Closes, Opened, TypeOK, PageTypeOK
<1> QED
  BY <1>1, <1>2 DEF Closes

\* What attach() makes of b, and of the others.
LEMMA AttachEffect ==
  ASSUME TypeOK, NEW b \in Browsers, Attach(b)
  PROVE  /\ bst[b] = "upgraded" /\ client # 0
         /\ bst'[b] = "open" /\ ep'[b] = client /\ rx'[b] = <<>>
         /\ UNCHANGED <<daemonVars, clientVars, lost, lastSeq, events>>
         /\ \A a \in Browsers \ {b} :
              /\ bst'[a] = bst[a] /\ ep'[a] = ep[a] /\ prime'[a] = prime[a] /\ rx'[a] = rx[a]
<1>1. PICK due : prime' = [prime EXCEPT ![b] = due]
  BY DEF Attach
<1> QED
  BY <1>1 DEF Attach, pageVars, TypeOK, WsTypeOK

LEMMA ClientsPages ==
  ASSUME TypeOK, ClientsInOrder, ResumerWaits, \A b \in Browsers : Streams(b), StreamAct,
         NEW b \in Browsers
  PROVE  /\ ep'[b] <= Len(replays')
         /\ bst'[b] = "open" => ep'[b] # 0
         /\ \A i \in 1 .. Len(events'[b]) :
              /\ events'[b][i].by <= Len(replays')
              /\ bst'[b] = "open" => events'[b][i].by <= ep'[b]
<1> DEFINE Goal == /\ ep'[b] <= Len(replays')
                   /\ bst'[b] = "open" => ep'[b] # 0
                   /\ \A i \in 1 .. Len(events'[b]) :
                        /\ events'[b][i].by <= Len(replays')
                        /\ bst'[b] = "open" => events'[b][i].by <= ep'[b]
<1>1. /\ ep[b] <= Len(replays)
      /\ bst[b] = "open" => ep[b] # 0
      /\ \A i \in 1 .. Len(events[b]) :
           /\ events[b][i].by <= Len(replays)
           /\ bst[b] = "open" => events[b][i].by <= ep[b]
      /\ client \in {0, Len(replays)}
  BY DEF ClientsInOrder
<1>2. /\ prime[b] \in Seq(Envelopes) /\ rx[b] \in Seq(Envelopes)
      /\ events[b] \in Seq(Envelopes) /\ ep[b] \in Nat /\ Len(replays) \in Nat
  BY BrowserTypes
<1>3. \A i \in 1 .. Len(events[b]) : events[b][i].by \in Nat
  BY <1>2, EnvelopeFields
<1>4. ASSUME UNCHANGED <<ep, events, replays>>, bst'[b] = "open" => bst[b] = "open" PROVE Goal
  BY <1>1, <1>4
<1>5. CASE Quiet
  BY <1>4, <1>5 DEF Quiet
<1>6. CASE Connected
  <2>1. UNCHANGED <<ep, events>> /\ replays' = Append(replays, Len(ring))
    BY <1>6 DEF Connected, pageVars
  <2>2. bst'[b] = "open" => bst[b] = "open"
    BY <1>6 DEF Connected, ResumerWaits, TypeOK, WsTypeOK
  <2>3. Len(replays') = Len(replays) + 1
    BY <2>1 DEF TypeOK, ClientTypeOK
  <2>4. PICK r : r = Len(replays')
    OBVIOUS
  <2>5. ep[b] <= r /\ \A i \in 1 .. Len(events[b]) : events[b][i].by <= r
    BY <1>1, <1>2, <1>3, <2>3, <2>4
  <2> QED
    BY <1>1, <2>1, <2>2, <2>4, <2>5
<1>7. ASSUME ReadEvent \/ \E e \in Injectable : Inject(e) PROVE Goal
  BY <1>4, <1>7 DEF ReadEvent, Inject, pageVars
<1>8. CASE Restart
  <2>1. bst'[b] = "closed" /\ ep'[b] = 0 /\ UNCHANGED <<replays, events>>
    BY <1>8 DEF Restart, pageVars
  <2> QED
    BY <1>1, <1>2, <2>1
<1>9. CASE RemoveSession
  BY <1>4, <1>9 DEF RemoveSession, wsVars, pageVars
<1>10. ASSUME NEW a \in Browsers, Attach(a) PROVE Goal
  <2>1. UNCHANGED <<replays, events>>
    BY <1>10 DEF Attach, clientVars, pageVars
  <2>2. CASE a = b
    <3>1. ep'[b] = client /\ client # 0
      BY <1>10, <2>2, AttachEffect
    <3> QED
      BY <1>1, <1>2, <2>1, <3>1
  <2>3. CASE a # b
    BY <1>1, <1>10, <2>1, <2>3, AttachEffect
  <2> QED
    BY <2>2, <2>3
<1>11. ASSUME NEW a \in Browsers, Receive(a) PROVE Goal
  <2>1. UNCHANGED <<replays, ep, bst>>
    BY <1>11 DEF Receive, clientVars
  <2>2. CASE a = b
    <3>1. PICK f \in Envelopes : Received(b, f)
      BY <1>11, <2>2, ReceiveEffect
    <3>2. f.by = ep[b]
      <4>1. CASE prime[b] # <<>> /\ f = Head(prime[b])
        <5>1. f = prime[b][1] /\ 1 \in 1 .. Len(prime[b])
          BY <1>2, <4>1, QueueTaken
        <5> QED
          BY <4>1, <5>1 DEF Streams, PrimeInOrder
      <4>2. CASE rx[b] # <<>> /\ f = Head(rx[b])
        <5>1. f = rx[b][1] /\ 1 \in 1 .. Len(rx[b])
          BY <1>2, <4>2, QueueTaken
        <5> QED
          BY <5>1 DEF Streams, LiveInOrder
      <4> QED
        BY <3>1, <4>1, <4>2 DEF Received
    <3>3. PICK new : new = events'[b]
      OBVIOUS
    <3>4. PICK old \in Seq(Envelopes) : old = events[b]
      BY <1>2
    <3>5. new = Taken(old, f) /\ bst[b] = "open"
      BY <3>1, <3>3, <3>4 DEF Received
    <3>6. \A i \in 1 .. Len(new) : new[i] = f \/ (i \in 1 .. Len(old) /\ new[i] = old[i])
      <4>1. Follows(new, old, f)
        BY <3>1, <3>4, <3>5, TakenShape
      <4> QED
        BY <4>1 DEF Follows
    <3>7. \A i \in 1 .. Len(old) : old[i].by <= Len(replays) /\ old[i].by <= ep[b]
      BY <1>1, <3>4, <3>5
    <3>8. f.by <= Len(replays) /\ f.by <= ep[b]
      BY <1>1, <1>2, <3>2
    <3>9. \A i \in 1 .. Len(new) : new[i].by <= Len(replays) /\ new[i].by <= ep[b]
      BY <3>6, <3>7, <3>8
    <3> QED
      BY <1>1, <2>1, <3>3, <3>5, <3>9
  <2>3. CASE a # b
    BY <1>1, <1>11, <2>1, <2>3, ReceiveEffect
  <2> QED
    BY <2>2, <2>3
<1>12. ASSUME NEW a \in Browsers, Closes(a) PROVE Goal
  <2>1. UNCHANGED replays
    BY <1>12 DEF Closes
  <2>2. CASE a = b
    <3>1. bst'[b] = "closed" /\ ep'[b] = 0 /\ (events'[b] = events[b] \/ events'[b] = <<>>)
      BY <1>12, <2>2, CloseEffect
    <3> QED
      BY <1>1, <1>2, <2>1, <3>1
  <2>3. CASE a # b
    BY <1>1, <1>12, <2>1, <2>3, CloseEffect
  <2> QED
    BY <2>2, <2>3
<1> QED
  BY <1>5, <1>6, <1>7, <1>8, <1>9, <1>10, <1>11, <1>12, StepEffect

LEMMA ClientsStep ==
  ASSUME TypeOK, ClientsInOrder, ResumerWaits, \A b \in Browsers : Streams(b), StreamAct
  PROVE  ClientsInOrder'
<1>1. client \in {0, Len(replays)} /\ (conn = "live" => client # 0)
  BY DEF ClientsInOrder
<1>2. client' \in {0, Len(replays')} /\ (conn' = "live" => client' # 0)
  <2>1. ASSUME UNCHANGED <<client, replays>>, conn' = "live" => conn = "live"
        PROVE  client' \in {0, Len(replays')} /\ (conn' = "live" => client' # 0)
    BY <1>1, <2>1
  <2>2. CASE DaemonStep
    BY <2>1, <2>2 DEF DaemonStep, PtyRead, PtyBroadcast, ChildExit, DaemonGone,
                      serverVars, clientVars
  <2>3. ASSUME NEW who \in Browsers \cup {Nobody}, Resume(who)
        PROVE  client' \in {0, Len(replays')} /\ (conn' = "live" => client' # 0)
    BY <2>1, <2>3 DEF Resume, Accept, clientVars
  <2>4. CASE Connected
    <3>1. replays' = Append(replays, Len(ring)) /\ client' = Len(replays) + 1
      BY <2>4 DEF Connected
    <3>2. Len(replays') = Len(replays) + 1 /\ Len(replays) \in Nat
      BY <3>1, LenProperties DEF TypeOK, ClientTypeOK
    <3> QED
      BY <3>1, <3>2
  <2>5. CASE ResumeFailed \/ ReadEvent \/ ReadExit \/ ReadEof
    BY <2>1, <2>5 DEF ResumeFailed, ReadEvent, ReadExit, ReadEof, clientVars, daemonVars
  <2>6. ASSUME NEW e \in Injectable, Inject(e)
        PROVE  client' \in {0, Len(replays')} /\ (conn' = "live" => client' # 0)
    BY <2>1, <2>6 DEF Inject, daemonVars
  <2>7. CASE Restart \/ RemoveSession
    BY <2>7 DEF Restart, RemoveSession
  <2>8. ASSUME NEW b \in Browsers,
               Upgrade(b) \/ Attach(b) \/ Receive(b) \/ Drop(b) \/ Reload(b) \/ AttachFails(b)
        PROVE  client' \in {0, Len(replays')} /\ (conn' = "live" => client' # 0)
    BY <2>1, <2>8 DEF Upgrade, Attach, Receive, Drop, Reload, AttachFails,
                      daemonVars, clientVars
  <2>9. CASE UNCHANGED vars
    BY <2>1, <2>9 DEF vars, daemonVars, serverVars, clientVars
  <2> QED
    BY <2>2, <2>3, <2>4, <2>5, <2>6, <2>7, <2>8, <2>9 DEF StreamAct, Next
<1> QED
  BY <1>2, ClientsPages DEF ClientsInOrder
-----------------------------------------------------------------------------
(* The order of a connection and of its page *)

\* Nothing happens to b, or there is a new client that b knows nothing of.
LEMMA StreamsStill ==
  ASSUME TypeOK, NEW b \in Browsers, Streams(b),
         ep'[b] = ep[b], prime'[b] = prime[b], rx'[b] = rx[b],
         lastSeq'[b] = lastSeq[b], events'[b] = events[b],
         bst'[b] = "open" <=> bst[b] = "open",
         \/ client' = client /\ next' = next
         \/ /\ bst[b] = "open" => ep[b] # client'
            /\ \A i \in 1 .. Len(events[b]) : events[b][i].by # client'
  PROVE  Streams(b)'
<1>1. PrimeInOrder(b)'
  BY DEF Streams, PrimeInOrder
<1>2. LiveInOrder(b)'
  BY DEF Streams, LiveInOrder
<1>3. PageInOrder(b)'
  <2>1. PICK V : V = events[b]
    OBVIOUS
  <2>2. \A i \in 1 .. Len(V) :
          V[i].by = client' => V[i].by = client /\ client' = client /\ next' = next
    BY <2>1
  <2>3. \A i \in 1 .. Len(V) :
          V[i].by = client => V[i].seq < next /\ V[i].seq <= lastSeq[b]
    BY <2>1 DEF Streams, PageInOrder
  <2>4. \A i \in 1 .. Len(V) :
          V[i].by = client' => V[i].seq < next' /\ V[i].seq <= lastSeq[b]
    BY <2>2, <2>3
  <2>5. /\ \A i, j \in 1 .. Len(V) : i < j => Before(V[i], V[j])
        /\ \A i \in 1 .. Len(V) :
             /\ V[i].ev # Hello
             /\ bst[b] = "open" /\ V[i].by = ep[b] =>
                  /\ prime[b] # <<>> => V[i].seq <= prime[b][Len(prime[b])].seq
                  /\ \A j \in 1 .. (Len(prime[b]) - 1) : V[i].seq < prime[b][j].seq
                  /\ \A j \in 1 .. Len(rx[b]) : V[i].seq < rx[b][j].seq
    BY <2>1 DEF Streams, PageInOrder
  <2> QED
    <3>1. PICK P, R, e, l, m : P = prime[b] /\ R = rx[b] /\ e = ep[b] /\ l = lastSeq[b] /\ m = next'
      OBVIOUS
    <3>2. PICK c : c = client'
      OBVIOUS
    <3>3. /\ events'[b] = V /\ prime'[b] = P /\ rx'[b] = R /\ ep'[b] = e /\ lastSeq'[b] = l
          /\ bst'[b] = "open" <=> bst[b] = "open"
      BY <2>1, <3>1
    <3>4. \A i \in 1 .. Len(V) : V[i].by = c => V[i].seq < m /\ V[i].seq <= l
      BY <2>4, <3>1, <3>2
    <3>5. \A i \in 1 .. Len(V) :
            /\ V[i].ev # Hello
            /\ bst'[b] = "open" /\ V[i].by = e =>
                 /\ P # <<>> => V[i].seq <= P[Len(P)].seq
                 /\ \A j \in 1 .. (Len(P) - 1) : V[i].seq < P[j].seq
                 /\ \A j \in 1 .. Len(R) : V[i].seq < R[j].seq
      BY <2>5, <3>1, <3>3
    <3> QED
      BY <2>5, <3>1, <3>2, <3>3, <3>4, <3>5 DEF PageInOrder, Before
<1> QED
  BY <1>1, <1>2, <1>3 DEF Streams

\* The connection of b is gone; the page keeps its cursor and its events, or
\* forgets both.
LEMMA StreamsClosed ==
  ASSUME TypeOK, NEW b \in Browsers, Streams(b),
         bst'[b] = "closed", prime'[b] = <<>>, rx'[b] = <<>>,
         (lastSeq'[b] = lastSeq[b] /\ events'[b] = events[b]) \/ events'[b] = <<>>,
         (client' = client /\ next' = next) \/ client' = 0
  PROVE  Streams(b)'
<1>1. PrimeInOrder(b)'
  BY DEF PrimeInOrder
<1>2. LiveInOrder(b)'
  BY DEF LiveInOrder
<1>3. PageInOrder(b)'
  <2>1. CASE events'[b] = <<>>
    BY <2>1 DEF PageInOrder
  <2>2. CASE lastSeq'[b] = lastSeq[b] /\ events'[b] = events[b]
    <3>1. \A i \in 1 .. Len(events[b]) : events[b][i].by # 0
      BY BrowserTypes, EnvelopeFields
    <3> QED
      BY <2>2, <3>1 DEF Streams, PageInOrder, Before
  <2> QED
    BY <2>1, <2>2
<1> QED
  BY <1>1, <1>2, <1>3 DEF Streams

\* attach() primes b in order.
LEMMA StreamsAttach ==
  ASSUME TypeOK, HistorySeqs, NEW b \in Browsers, Streams(b), Attach(b)
  PROVE  Streams(b)'
<1>1. PICK n \in Nat : n = Len(hist)
  BY HistoryFields DEF TypeOK
<1>2. PICK top \in Nat : top = LatestSeq /\ next = top + 1
  <2>1. LatestSeq \in Nat /\ next = LatestSeq + 1
    BY HistoryFields DEF TypeOK, LatestSeq
  <2> QED
    BY <2>1
<1>3. \A i \in 1 .. n : /\ hist[i].seq = top - n + i /\ hist[i].seq \in Nat
                        /\ hist[i].seq <= top /\ hist[i].ev # Hello
  <2>1. \A i \in 1 .. n : /\ hist[i].seq = top - n + i /\ hist[i].seq \in Nat
                          /\ hist[i].seq <= top /\ hist[i].ev \in AnyEvent
    BY <1>1, <1>2, HistoryFields DEF TypeOK
  <2>2. \A e \in AnyEvent : e # Hello
    BY DEF AnyEvent, Hello
  <2> QED
    BY <2>1, <2>2
<1>4. PICK P : P = prime'[b]
  OBVIOUS
<1>5. PICK k \in 1 .. (n + 1) :
        /\ P \in Seq(Envelopes)
        /\ Len(P) = n - k + 2
        /\ \A i \in 1 .. (n - k + 1) : P[i] = Envelope(hist[k + i - 1])
        /\ P[n - k + 2] = HelloEnvelope(LatestSeq)
        /\ \A i \in k .. n : lastSeq[b] < hist[i].seq
  BY <1>1, <1>4, PrimedShape
<1>6. PICK m \in Nat : m = n - k + 1
  <2>1. n - k + 1 \in Nat
    BY <1>1, <1>5
  <2> QED
    BY <2>1
<1>7. /\ Len(P) = m + 1 /\ P[m + 1].ev = Hello /\ P[m + 1].by = client /\ P[m + 1].seq = top
      /\ P # <<>>
  <2>1. Len(P) = m + 1 /\ P[m + 1] = HelloEnvelope(top)
    BY <1>2, <1>5, <1>6
  <2> QED
    BY <2>1, EmptySeq DEF HelloEnvelope
<1>8. \A i \in 1 .. m : /\ k + i - 1 \in k .. n /\ k + i - 1 \in 1 .. n
                        /\ P[i].by = client /\ P[i].ev # Hello
                        /\ P[i].seq = hist[k + i - 1].seq
                        /\ P[i].seq = top - n + (k + i - 1)
                        /\ P[i].seq <= top /\ lastSeq[b] < P[i].seq
  <2>1. TAKE i \in 1 .. m
  <2>2. PICK j : j = k + i - 1
    OBVIOUS
  <2>3. j \in k .. n /\ j \in 1 .. n
    BY <1>5, <1>6, <2>1, <2>2
  <2>4. P[i] = Envelope(hist[j])
    BY <1>5, <1>6, <2>1, <2>2
  <2>5. P[i].seq = hist[j].seq /\ P[i].ev = hist[j].ev /\ P[i].by = client
    BY <2>4 DEF Envelope
  <2> QED
    BY <1>3, <1>5, <2>2, <2>3, <2>5
<1>9. /\ bst'[b] = "open" /\ ep'[b] = client /\ rx'[b] = <<>>
      /\ UNCHANGED <<client, next, lastSeq, events>>
  BY AttachEffect DEF clientVars
<1>10. PrimeInOrder(b)'
  <2>1. \A i \in 1 .. (m + 1) : P[i].by = client
    <3>1. \A i \in 1 .. (m + 1) : i \in 1 .. m \/ i = m + 1
      BY <1>6
    <3> QED
      BY <1>7, <1>8, <3>1
  <2>2. \A i, j \in 1 .. m : i < j => P[i].seq < P[j].seq
    <3>1. \A i \in 1 .. m : P[i].seq = top - n + (k + i - 1)
      BY <1>8
    <3>2. \A i, j \in 1 .. m : i < j => top - n + (k + i - 1) < top - n + (k + j - 1)
      BY <1>1, <1>2, <1>5, <1>6
    <3> QED
      BY <3>1, <3>2
  <2>3. top < next /\ m + 1 - 1 = m
    BY <1>2, <1>6
  <2> QED
    BY <1>4, <1>7, <1>8, <1>9, <2>1, <2>2, <2>3 DEF PrimeInOrder
<1>11. LiveInOrder(b)'
  BY <1>9 DEF LiveInOrder
<1>12. PageInOrder(b)'
  <2>1. PICK V : V = events[b]
    OBVIOUS
  <2>2. \A i \in 1 .. Len(V) : V[i].seq \in Nat
    BY <2>1, BrowserTypes, EnvelopeFields
  <2>3. lastSeq[b] \in Nat \cup {Null}
    BY BrowserTypes
  <2>4. /\ \A i, j \in 1 .. Len(V) : i < j => Before(V[i], V[j])
        /\ \A i \in 1 .. Len(V) :
             /\ V[i].ev # Hello
             /\ V[i].by = client => V[i].seq < next /\ V[i].seq <= lastSeq[b]
    BY <2>1 DEF Streams, PageInOrder
  <2>5. ASSUME NEW i \in 1 .. Len(V), V[i].by = client
        PROVE  V[i].seq <= top /\ \A j \in 1 .. m : V[i].seq < P[j].seq
    <3>1. V[i].seq <= top /\ V[i].seq <= lastSeq[b]
      BY <1>2, <2>2, <2>4, <2>5
    <3>2. ASSUME NEW j \in 1 .. m PROVE V[i].seq < P[j].seq
      <4>1. lastSeq[b] < P[j].seq /\ P[j].seq \in Nat
        BY <1>3, <1>8
      <4> QED
        BY <2>2, <2>3, <3>1, <4>1 DEF Null
    <3> QED
      BY <3>1, <3>2
  <2>6. m + 1 - 1 = m
    BY <1>6
  <2> QED
    BY <1>4, <1>7, <1>9, <2>1, <2>4, <2>5, <2>6 DEF PageInOrder, Before
<1> QED
  BY <1>10, <1>11, <1>12 DEF Streams

\* What a receiver that listens to the client makes of an event.
LEMMA PublishedTo ==
  ASSUME TypeOK, NEW e \in AnyEvent, client # 0, Publish(e), NEW b \in Browsers
  PROVE  LET f == Envelope([seq |-> next, ev |-> e])
         IN  /\ f \in Envelopes /\ f.seq = next /\ f.ev = e /\ f.by = client /\ f.ev # Hello
             /\ next' = next + 1
             /\ bst[b] = "open" /\ ep[b] = client =>
                  /\ rx'[b] = Push(rx[b], f, WsCap)
                  /\ lost'[b] = lost[b] \cup {g.ev : g \in Skipped(rx[b], WsCap)}
                  /\ \E d \in {0, 1} : AddedTo(rx'[b], rx[b], d, f)
             /\ ~ (bst[b] = "open" /\ ep[b] = client) =>
                  rx'[b] = rx[b] /\ lost'[b] = lost[b]
<1>1. PICK f : f = Envelope([seq |-> next, ev |-> e])
  OBVIOUS
<1>2. next \in Nat \ {0} /\ client \in Nat \ {0} /\ rx[b] \in Seq(Envelopes)
      /\ WsCap \in Nat \ {0} /\ e # Hello
  BY BrowserTypes, ChatAssumption DEF ChatAssumption, AnyEvent, Hello
<1>3. f \in Envelopes /\ f.seq = next /\ f.ev = e /\ f.by = client /\ f.ev # Hello
  BY <1>1, <1>2 DEF Envelope, Envelopes
<1>4. /\ next' = next + 1
      /\ bst[b] = "open" /\ ep[b] = client =>
           /\ rx'[b] = Push(rx[b], f, WsCap)
           /\ lost'[b] = lost[b] \cup {g.ev : g \in Skipped(rx[b], WsCap)}
      /\ ~ (bst[b] = "open" /\ ep[b] = client) => rx'[b] = rx[b] /\ lost'[b] = lost[b]
  BY <1>1 DEF Publish
<1>5. \E d \in {0, 1} : AddedTo(Push(rx[b], f, WsCap), rx[b], d, f)
  BY <1>2, <1>3, PushShape
<1> QED
  BY <1>1, <1>3, <1>4, <1>5

\* The entries of a queue have increasing seqs.
Rising(q) == \A i, j \in 1 .. Len(q) : i < j => q[i].seq < q[j].seq

Below(q, s) == \A i \in 1 .. Len(q) : q[i].seq < s

\* All of Q is f or comes from R.
Among(Q, R, f) == \A i \in 1 .. Len(Q) : Q[i] = f \/ \E j \in 1 .. Len(R) : Q[i] = R[j]

\* Q is R after f was pushed.
Pushed(Q, R, f) == \E d \in {0, 1} : AddedTo(Q, R, d, f)

\* A queue in order stays so when what is added comes after all it held.
LEMMA AddedInOrder ==
  ASSUME NEW R \in Seq(Envelopes), NEW Q, NEW f \in Envelopes,
         Pushed(Q, R, f), Rising(R), Below(R, f.seq)
  PROVE  Among(Q, R, f) /\ Rising(Q)
<1>0. /\ \A i, j \in 1 .. Len(R) : i < j => R[i].seq < R[j].seq
      /\ \A i \in 1 .. Len(R) : R[i].seq < f.seq
  BY DEF Rising, Below
<1>1. PICK n \in Nat : n = Len(R)
  BY LenProperties
<1>2. PICK d \in {0, 1} :
        /\ Len(Q) = n + 1 - d /\ n >= d
        /\ \A i \in 1 .. (n - d) : Q[i] = R[i + d]
        /\ Q[n + 1 - d] = f
  BY <1>1 DEF Pushed, AddedTo
<1>3. \A i \in 1 .. Len(Q) :
        \/ i = Len(Q) /\ Q[i] = f
        \/ i < Len(Q) /\ i + d \in 1 .. n /\ Q[i] = R[i + d]
  BY <1>1, <1>2
<1>4. ASSUME NEW i \in 1 .. Len(Q), NEW j \in 1 .. Len(Q), i < j
      PROVE  Q[i].seq < Q[j].seq
  <2>1. i + d \in 1 .. n /\ Q[i] = R[i + d]
    BY <1>1, <1>2, <1>3, <1>4
  <2>2. CASE Q[j] = f
    BY <1>0, <1>1, <2>1, <2>2
  <2>3. CASE j + d \in 1 .. n /\ Q[j] = R[j + d]
    <3>1. i + d < j + d
      BY <1>2, <1>4
    <3> QED
      BY <1>0, <1>1, <2>1, <2>3, <3>1
  <2> QED
    BY <1>3, <2>2, <2>3
<1> QED
  BY <1>1, <1>3, <1>4 DEF Among, Rising

LEMMA StreamsPublished ==
  ASSUME TypeOK, NEW e \in AnyEvent, client # 0, Publish(e), NEW b \in Browsers, Streams(b),
         UNCHANGED <<client, bst, ep, prime, lastSeq, events>>
  PROVE  Streams(b)'
<1>1. PICK P \in Seq(Envelopes) : P = prime[b]
  BY BrowserTypes
<1>2. PICK R \in Seq(Envelopes) : R = rx[b]
  BY BrowserTypes
<1>3. PICK V \in Seq(Envelopes) : V = events[b]
  BY BrowserTypes
<1>4. PICK Q : Q = rx'[b]
  OBVIOUS
<1>5. PICK f \in Envelopes : f = Envelope([seq |-> next, ev |-> e])
  BY PublishedTo
<1>6. /\ f.seq = next /\ f.by = client /\ f.ev # Hello /\ next' = next + 1
      /\ bst[b] = "open" /\ ep[b] = client => \E d \in {0, 1} : AddedTo(Q, R, d, f)
      /\ ~ (bst[b] = "open" /\ ep[b] = client) => Q = R
  BY <1>2, <1>4, <1>5, PublishedTo
<1>7. next \in Nat /\ lastSeq[b] \in Nat \cup {Null}
  BY BrowserTypes
<1>8. PICK x : x = next'
  OBVIOUS
<1>9. \A y \in Nat : y < next => y < x
  BY <1>6, <1>7, <1>8
<1>10. /\ \A i \in 1 .. Len(P) : P[i].seq \in Nat
       /\ \A i \in 1 .. Len(R) : R[i].seq \in Nat
       /\ \A i \in 1 .. Len(V) : V[i].seq \in Nat
       /\ P # <<>> => Len(P) \in 1 .. Len(P)
  BY <1>1, <1>2, <1>3, EnvelopeFields
<1>11. PrimeInOrder(b)'
  <2>1. P # <<>> /\ ep[b] = client => P[Len(P)].seq < x
    BY <1>1, <1>9, <1>10 DEF Streams, PrimeInOrder
  <2> QED
    BY <1>1, <1>8, <2>1 DEF Streams, PrimeInOrder
<1>12. /\ \A i \in 1 .. Len(R) :
            /\ bst[b] = "open" /\ R[i].by = ep[b] /\ R[i].ev # Hello
            /\ P # <<>> => P[Len(P)].seq < R[i].seq
            /\ ep[b] = client => R[i].seq < next
       /\ \A i, j \in 1 .. Len(R) : i < j => R[i].seq < R[j].seq
  BY <1>1, <1>2 DEF Streams, LiveInOrder
<1>13. /\ \A i \in 1 .. Len(V) : V[i].by = client => V[i].seq < next /\ V[i].seq <= lastSeq[b]
       /\ \A i \in 1 .. Len(V) : bst[b] = "open" /\ V[i].by = ep[b] =>
                                   \A j \in 1 .. Len(R) : V[i].seq < R[j].seq
  BY <1>2, <1>3 DEF Streams, PageInOrder
<1>14. /\ \A i \in 1 .. Len(Q) : \/ Q[i] = f /\ bst[b] = "open" /\ ep[b] = client
                                 \/ \E j \in 1 .. Len(R) : Q[i] = R[j]
       /\ \A i, j \in 1 .. Len(Q) : i < j => Q[i].seq < Q[j].seq
  <2>1. CASE bst[b] = "open" /\ ep[b] = client
    <3>1. Pushed(Q, R, f)
      BY <1>6, <2>1 DEF Pushed
    <3>2. \A i \in 1 .. Len(R) : R[i].seq < f.seq
      BY <1>6, <1>12, <2>1
    <3>3. Rising(R) /\ Below(R, f.seq)
      BY <1>12, <3>2 DEF Rising, Below
    <3>4. Among(Q, R, f) /\ Rising(Q)
      BY <1>2, <1>5, <3>1, <3>3, AddedInOrder
    <3> QED
      BY <2>1, <3>4 DEF Among, Rising
  <2>2. CASE ~ (bst[b] = "open" /\ ep[b] = client)
    BY <1>6, <1>12, <2>2
  <2> QED
    BY <2>1, <2>2
<1>15. LiveInOrder(b)'
  <2>1. \A i \in 1 .. Len(Q) :
          /\ bst[b] = "open" /\ Q[i].by = ep[b] /\ Q[i].ev # Hello
          /\ P # <<>> => P[Len(P)].seq < Q[i].seq
          /\ ep[b] = client => Q[i].seq < x
    <3>1. TAKE i \in 1 .. Len(Q)
    <3>2. CASE Q[i] = f /\ bst[b] = "open" /\ ep[b] = client
      <4>1. P # <<>> => P[Len(P)].seq < next
        BY <1>1, <3>2 DEF Streams, PrimeInOrder
      <4>2. next < x
        BY <1>6, <1>7, <1>8
      <4> QED
        BY <1>6, <3>2, <4>1, <4>2
    <3>3. ASSUME NEW j \in 1 .. Len(R), Q[i] = R[j]
          PROVE  /\ bst[b] = "open" /\ Q[i].by = ep[b] /\ Q[i].ev # Hello
                 /\ P # <<>> => P[Len(P)].seq < Q[i].seq
                 /\ ep[b] = client => Q[i].seq < x
      BY <1>9, <1>10, <1>12, <3>3
    <3> QED
      BY <1>14, <3>2, <3>3
  <2> QED
    BY <1>1, <1>4, <1>8, <1>14, <2>1 DEF LiveInOrder
<1>16. PageInOrder(b)'
  <2>1. \A i \in 1 .. Len(V) : V[i].by = client => V[i].seq < x /\ V[i].seq <= lastSeq[b]
    BY <1>9, <1>10, <1>13
  <2>2. \A i \in 1 .. Len(V) : bst[b] = "open" /\ V[i].by = ep[b] =>
                                 \A j \in 1 .. Len(Q) : V[i].seq < Q[j].seq
    BY <1>6, <1>13, <1>14
  <2>3. /\ \A i, j \in 1 .. Len(V) : i < j => Before(V[i], V[j])
        /\ \A i \in 1 .. Len(V) :
             /\ V[i].ev # Hello
             /\ bst[b] = "open" /\ V[i].by = ep[b] =>
                  /\ P # <<>> => V[i].seq <= P[Len(P)].seq
                  /\ \A j \in 1 .. (Len(P) - 1) : V[i].seq < P[j].seq
    BY <1>1, <1>3 DEF Streams, PageInOrder
  <2>4. \A i \in 1 .. Len(V) :
          /\ V[i].ev # Hello
          /\ bst[b] = "open" /\ V[i].by = ep[b] =>
               /\ P # <<>> => V[i].seq <= P[Len(P)].seq
               /\ \A j \in 1 .. (Len(P) - 1) : V[i].seq < P[j].seq
               /\ \A j \in 1 .. Len(Q) : V[i].seq < Q[j].seq
          /\ V[i].by = client => V[i].seq < x /\ V[i].seq <= lastSeq[b]
    BY <2>1, <2>2, <2>3
  <2>5. \A i, j \in 1 .. Len(V) : i < j => Before(V[i], V[j])
    BY <2>3
  <2> QED
    BY <1>1, <1>3, <1>4, <1>8, <2>4, <2>5 DEF PageInOrder, Before
<1> QED
  BY <1>11, <1>15, <1>16 DEF Streams
\* The event an open page takes from its connection comes after all it has.
LEMMA PageGrows ==
  ASSUME NEW V \in Seq(Envelopes), NEW f \in Envelopes, NEW W, Follows(W, V, f),
         \A i, j \in 1 .. Len(V) : i < j => Before(V[i], V[j]),
         f.ev # Hello => \A i \in 1 .. Len(V) : Before(V[i], f)
  PROVE  \A i, j \in 1 .. Len(W) : i < j => Before(W[i], W[j])
<1> SUFFICES ASSUME NEW i \in 1 .. Len(W), NEW j \in 1 .. Len(W), i < j
             PROVE  Before(W[i], W[j])
  OBVIOUS
<1>1. PICK n \in Nat : n = Len(V)
  BY LenProperties
<1>2. \A k \in 1 .. Len(W) :
        \/ k \in 1 .. n /\ W[k] = V[k]
        \/ f.ev # Hello /\ k = Len(W) /\ k = n + 1 /\ W[k] = f
  BY <1>1 DEF Follows
<1>3. i \in 1 .. n /\ W[i] = V[i]
  BY <1>1, <1>2
<1>4. CASE j \in 1 .. n /\ W[j] = V[j]
  BY <1>1, <1>3, <1>4
<1>5. CASE f.ev # Hello /\ W[j] = f
  BY <1>1, <1>3, <1>5
<1> QED
  BY <1>2, <1>4, <1>5

\* What an open page has of the session's client came over its connection.
LEMMA OwnEvents ==
  ASSUME TypeOK, ClientsInOrder, NEW b \in Browsers, bst[b] = "open"
  PROVE  \A i \in 1 .. Len(events[b]) :
           /\ events[b][i].by < ep[b] \/ events[b][i].by = ep[b]
           /\ events[b][i].by = client => ep[b] = client
<1>1. /\ ep[b] \in Nat /\ Len(replays) \in Nat /\ client \in Nat
      /\ \A i \in 1 .. Len(events[b]) : events[b][i].by \in Nat \ {0}
  BY BrowserTypes, EnvelopeFields
<1>2. /\ ep[b] <= Len(replays) /\ client \in {0, Len(replays)}
      /\ \A i \in 1 .. Len(events[b]) : events[b][i].by <= ep[b]
  BY DEF ClientsInOrder
<1> QED
  BY <1>1, <1>2

\* b receives the next envelope of its catch-up.
LEMMA StreamsPrimed ==
  ASSUME TypeOK, ClientsInOrder, NEW b \in Browsers, Streams(b), NEW f \in Envelopes,
         bst[b] = "open", prime[b] # <<>>, f = Head(prime[b]), prime'[b] = Tail(prime[b]),
         lastSeq'[b] = f.seq, events'[b] = Taken(events[b], f), rx'[b] = rx[b],
         UNCHANGED <<bst, ep, client, next>>
  PROVE  Streams(b)'
<1>1. PICK P \in Seq(Envelopes) : P = prime[b]
  BY BrowserTypes
<1>2. PICK R \in Seq(Envelopes) : R = rx[b]
  BY BrowserTypes
<1>3. PICK V \in Seq(Envelopes) : V = events[b]
  BY BrowserTypes
<1>4. PICK Q : Q = prime'[b]
  OBVIOUS
<1>5. PICK W : W = events'[b]
  OBVIOUS
<1>6. PICK n \in Nat : n = Len(P) /\ n >= 1
  BY <1>1, EnvelopeFields
<1>7. /\ f = P[1] /\ Len(Q) = n - 1 /\ 1 \in 1 .. n
      /\ \A i \in 1 .. Len(Q) : i + 1 \in 1 .. n /\ i \in 1 .. (n - 1) /\ Q[i] = P[i + 1]
  BY <1>1, <1>4, <1>6, QueueTaken
<1>8. Follows(W, V, f)
  BY <1>3, <1>5, TakenShape
<1>9. /\ \A i \in 1 .. n : P[i].seq \in Nat
      /\ \A i \in 1 .. Len(R) : R[i].seq \in Nat
      /\ \A i \in 1 .. Len(V) : V[i].seq \in Nat
      /\ f.seq \in Nat /\ next \in Nat
  BY <1>1, <1>2, <1>3, <1>6, <1>7, EnvelopeFields, BrowserTypes
<1>10. /\ P[n].ev = Hello
       /\ ep[b] = client => P[n].seq < next
       /\ \A i \in 1 .. n : P[i].by = ep[b]
       /\ \A i \in 1 .. (n - 1) : P[i].ev # Hello /\ P[i].seq <= P[n].seq
       /\ \A i, j \in 1 .. (n - 1) : i < j => P[i].seq < P[j].seq
  BY <1>1, <1>6 DEF Streams, PrimeInOrder
<1>11. \A i \in 1 .. Len(R) :
         /\ R[i].by = ep[b] /\ R[i].ev # Hello
         /\ \A j \in 1 .. Len(R) : i < j => R[i].seq < R[j].seq
         /\ P[n].seq < R[i].seq
         /\ ep[b] = client => R[i].seq < next
  BY <1>1, <1>2, <1>6 DEF Streams, LiveInOrder
<1>12. /\ \A i, j \in 1 .. Len(V) : i < j => Before(V[i], V[j])
       /\ \A i \in 1 .. Len(V) :
            /\ V[i].ev # Hello
            /\ V[i].by = ep[b] => /\ V[i].seq <= P[n].seq
                                  /\ \A j \in 1 .. (n - 1) : V[i].seq < P[j].seq
                                  /\ \A j \in 1 .. Len(R) : V[i].seq < R[j].seq
            /\ V[i].by = client => V[i].seq < next /\ V[i].seq <= lastSeq[b]
  BY <1>1, <1>2, <1>3, <1>6 DEF Streams, PageInOrder
<1>13. \A i \in 1 .. Len(V) : /\ V[i].by < ep[b] \/ V[i].by = ep[b]
                              /\ V[i].by = client => ep[b] = client
  BY <1>3, OwnEvents
<1>14. /\ f.by = ep[b] /\ f.seq <= P[n].seq
       /\ f.ev # Hello => n > 1 /\ 1 \in 1 .. (n - 1)
       /\ n > 1 => f.ev # Hello
  <2>1. CASE n = 1
    BY <1>7, <1>9, <1>10, <2>1
  <2>2. CASE n > 1
    <3>1. 1 \in 1 .. (n - 1)
      BY <2>2
    <3> QED
      BY <1>7, <1>10, <2>2, <3>1
  <2> QED
    BY <1>6, <2>1, <2>2
<1>15. \A i \in 1 .. Len(W) : (W[i] = f /\ f.ev # Hello) \/ \E j \in 1 .. Len(V) : W[i] = V[j]
  BY <1>8 DEF Follows
<1>16. \A i, j \in 1 .. Len(W) : i < j => Before(W[i], W[j])
  <2>1. f.ev # Hello => \A i \in 1 .. Len(V) : Before(V[i], f)
    BY <1>7, <1>12, <1>13, <1>14 DEF Before
  <2> QED
    BY <1>3, <1>8, <1>12, <2>1, PageGrows
<1>17. Q # <<>> => n > 1 /\ Q[Len(Q)] = P[n] /\ Len(Q) \in 1 .. Len(Q)
  <2>1. ASSUME Q # <<>> PROVE Len(Q) # 0
    <3>1. Q \in Seq(Envelopes)
      BY <1>1, <1>4, <1>6, HeadTailProperties
    <3> QED
      BY <2>1, <3>1, EmptySeq
  <2>2. CASE n > 1
    <3>1. PICK m \in 1 .. Len(Q) : m = n - 1 /\ m = Len(Q) /\ m + 1 = n
      BY <1>7, <2>2
    <3>2. Q[m] = P[m + 1]
      BY <1>7, <3>1
    <3> QED
      BY <2>2, <3>1, <3>2
  <2>3. CASE n = 1
    BY <1>7, <2>1, <2>3
  <2> QED
    BY <1>6, <2>2, <2>3
<1>18. \A i \in 1 .. (Len(Q) - 1) :
         /\ i + 1 \in 1 .. (n - 1) /\ i + 1 > 1 /\ Q[i] = P[i + 1] /\ i \in 1 .. Len(Q)
  BY <1>6, <1>7
<1>19. PrimeInOrder(b)'
  <2>1. \A i \in 1 .. Len(Q) : Q[i].by = ep[b]
    BY <1>7, <1>10
  <2>2. \A i \in 1 .. (Len(Q) - 1) : Q[i].ev # Hello /\ Q[i].seq <= P[n].seq
    BY <1>10, <1>18
  <2>3. ASSUME NEW i \in 1 .. (Len(Q) - 1), NEW j \in 1 .. (Len(Q) - 1), i < j
        PROVE  Q[i].seq < Q[j].seq
    <3>1. i + 1 < j + 1
      BY <2>3
    <3> QED
      BY <1>10, <1>18, <2>3, <3>1
  <2> QED
    BY <1>4, <1>10, <1>17, <2>1, <2>2, <2>3 DEF PrimeInOrder
<1>20. LiveInOrder(b)'
  <2>1. \A i \in 1 .. Len(R) : Q # <<>> => Q[Len(Q)].seq < R[i].seq
    BY <1>11, <1>17
  <2> QED
    BY <1>2, <1>4, <1>11, <2>1 DEF LiveInOrder
<1>21. PageInOrder(b)'
  <2>1. \A i \in 1 .. (Len(Q) - 1) : f.ev # Hello => f.seq < Q[i].seq
    BY <1>7, <1>10, <1>14, <1>18
  <2>2. \A i \in 1 .. Len(R) : f.seq < R[i].seq
    BY <1>6, <1>9, <1>11, <1>14
  <2>3. ASSUME NEW i \in 1 .. Len(W)
        PROVE  /\ W[i].ev # Hello
               /\ W[i].by = ep[b] => /\ Q # <<>> => W[i].seq <= Q[Len(Q)].seq
                                     /\ \A j \in 1 .. (Len(Q) - 1) : W[i].seq < Q[j].seq
                                     /\ \A j \in 1 .. Len(R) : W[i].seq < R[j].seq
               /\ W[i].by = client => W[i].seq < next /\ W[i].seq <= f.seq
    <3>1. CASE W[i] = f /\ f.ev # Hello
      <4>1. ep[b] = client => f.seq < next
        BY <1>6, <1>9, <1>10, <1>14
      <4>2. Q # <<>> => f.seq <= Q[Len(Q)].seq
        BY <1>14, <1>17
      <4>3. \A j \in 1 .. (Len(Q) - 1) : f.seq < Q[j].seq
        BY <2>1, <3>1
      <4>4. f.seq <= f.seq
        BY <1>9
      <4>5. f.by = ep[b]
        BY <1>14
      <4> QED
        BY <2>2, <3>1, <4>1, <4>2, <4>3, <4>4, <4>5
    <3>2. ASSUME NEW j \in 1 .. Len(V), W[i] = V[j]
          PROVE  /\ W[i].ev # Hello
                 /\ W[i].by = ep[b] => /\ Q # <<>> => W[i].seq <= Q[Len(Q)].seq
                                       /\ \A k \in 1 .. (Len(Q) - 1) : W[i].seq < Q[k].seq
                                       /\ \A k \in 1 .. Len(R) : W[i].seq < R[k].seq
                 /\ W[i].by = client => W[i].seq < next /\ W[i].seq <= f.seq
      <4>1. W[i].by = ep[b] => /\ Q # <<>> => W[i].seq <= Q[Len(Q)].seq
                               /\ \A k \in 1 .. (Len(Q) - 1) : W[i].seq < Q[k].seq
                               /\ \A k \in 1 .. Len(R) : W[i].seq < R[k].seq
        BY <1>12, <1>17, <1>18, <3>2
      <4>2. W[i].by = client => W[i].seq < next /\ W[i].seq <= f.seq
        <5>1. SUFFICES ASSUME W[i].by = client PROVE W[i].seq < next /\ W[i].seq <= f.seq
          OBVIOUS
        <5>2. W[i].by = ep[b] /\ W[i].seq < next
          BY <1>12, <1>13, <3>2, <5>1
        <5>3. CASE n = 1
          BY <1>7, <1>12, <3>2, <5>2, <5>3
        <5>4. CASE n > 1
          <6>1. 1 \in 1 .. (n - 1)
            BY <5>4
          <6>2. V[j].seq < P[1].seq
            BY <1>12, <3>2, <5>2, <6>1
          <6>3. V[j].seq \in Nat /\ P[1].seq \in Nat
            BY <1>7, <1>9
          <6> QED
            BY <1>7, <3>2, <5>2, <6>2, <6>3
        <5> QED
          BY <1>6, <5>3, <5>4
      <4> QED
        BY <1>12, <3>2, <4>1, <4>2
    <3> QED
      BY <1>15, <3>1, <3>2
  <2> QED
    BY <1>2, <1>4, <1>5, <1>16, <2>3 DEF PageInOrder, Before
<1> QED
  BY <1>19, <1>20, <1>21 DEF Streams

\* b receives the next live event.
LEMMA StreamsLive ==
  ASSUME TypeOK, ClientsInOrder, NEW b \in Browsers, Streams(b), NEW f \in Envelopes,
         bst[b] = "open", prime[b] = <<>>, prime'[b] = <<>>,
         rx[b] # <<>>, f = Head(rx[b]), rx'[b] = Tail(rx[b]),
         lastSeq'[b] = f.seq, events'[b] = Taken(events[b], f),
         UNCHANGED <<bst, ep, client, next>>
  PROVE  Streams(b)'
<1>1. PICK R \in Seq(Envelopes) : R = rx[b]
  BY BrowserTypes
<1>2. PICK V \in Seq(Envelopes) : V = events[b]
  BY BrowserTypes
<1>3. PICK Q : Q = rx'[b]
  OBVIOUS
<1>4. PICK W : W = events'[b]
  OBVIOUS
<1>5. PICK n \in Nat : n = Len(R) /\ n >= 1
  BY <1>1, EnvelopeFields
<1>6. /\ f = R[1] /\ Len(Q) = n - 1 /\ 1 \in 1 .. n
      /\ \A i \in 1 .. Len(Q) : i + 1 \in 1 .. n /\ 1 < i + 1 /\ Q[i] = R[i + 1]
  BY <1>1, <1>3, <1>5, QueueTaken
<1>7. Follows(W, V, f)
  BY <1>2, <1>4, TakenShape
<1>8. /\ \A i \in 1 .. n : R[i].seq \in Nat
      /\ \A i \in 1 .. Len(V) : V[i].seq \in Nat
      /\ f.seq \in Nat /\ next \in Nat
  BY <1>1, <1>2, <1>5, <1>6, EnvelopeFields, BrowserTypes
<1>9. \A i \in 1 .. n :
        /\ R[i].by = ep[b] /\ R[i].ev # Hello
        /\ \A j \in 1 .. n : i < j => R[i].seq < R[j].seq
        /\ ep[b] = client => R[i].seq < next
  BY <1>1, <1>5 DEF Streams, LiveInOrder
<1>10. /\ \A i, j \in 1 .. Len(V) : i < j => Before(V[i], V[j])
       /\ \A i \in 1 .. Len(V) :
            /\ V[i].ev # Hello
            /\ V[i].by = ep[b] => \A j \in 1 .. n : V[i].seq < R[j].seq
            /\ V[i].by = client => V[i].seq < next /\ V[i].seq <= lastSeq[b]
  BY <1>1, <1>2, <1>5 DEF Streams, PageInOrder
<1>11. \A i \in 1 .. Len(V) : /\ V[i].by < ep[b] \/ V[i].by = ep[b]
                              /\ V[i].by = client => ep[b] = client
  BY <1>2, OwnEvents
<1>12. f.by = ep[b] /\ f.ev # Hello /\ (ep[b] = client => f.seq < next)
  BY <1>6, <1>9
<1>13. \A i \in 1 .. Len(W) : W[i] = f \/ \E j \in 1 .. Len(V) : W[i] = V[j]
  BY <1>7 DEF Follows
<1>14. \A i, j \in 1 .. Len(W) : i < j => Before(W[i], W[j])
  <2>1. \A i \in 1 .. Len(V) : Before(V[i], f)
    BY <1>6, <1>10, <1>11, <1>12 DEF Before
  <2> QED
    BY <1>2, <1>7, <1>10, <2>1, PageGrows
<1>15. PrimeInOrder(b)'
  BY DEF PrimeInOrder
<1>16. \A i \in 1 .. Len(Q) : f.seq < Q[i].seq
  BY <1>6, <1>9
<1>17. LiveInOrder(b)'
  <2>1. ASSUME NEW i \in 1 .. Len(Q)
        PROVE  /\ Q[i].by = ep[b] /\ Q[i].ev # Hello
               /\ ep[b] = client => Q[i].seq < next
    BY <1>6, <1>9, <2>1
  <2>2. ASSUME NEW i \in 1 .. Len(Q), NEW j \in 1 .. Len(Q), i < j
        PROVE  Q[i].seq < Q[j].seq
    <3>1. i + 1 < j + 1
      BY <1>5, <1>6, <2>2
    <3> QED
      BY <1>6, <1>9, <2>2, <3>1
  <2> QED
    BY <1>3, <2>1, <2>2 DEF LiveInOrder
<1>18. PageInOrder(b)'
  <2>1. ASSUME NEW i \in 1 .. Len(W)
        PROVE  /\ W[i].ev # Hello
               /\ W[i].by = ep[b] => \A j \in 1 .. Len(Q) : W[i].seq < Q[j].seq
               /\ W[i].by = client => W[i].seq < next /\ W[i].seq <= f.seq
    <3>1. CASE W[i] = f
      BY <1>8, <1>12, <1>16, <3>1
    <3>2. ASSUME NEW j \in 1 .. Len(V), W[i] = V[j]
          PROVE  /\ W[i].ev # Hello
                 /\ W[i].by = ep[b] => \A k \in 1 .. Len(Q) : W[i].seq < Q[k].seq
                 /\ W[i].by = client => W[i].seq < next /\ W[i].seq <= f.seq
      <4>1. W[i].by = ep[b] => W[i].seq < f.seq
        BY <1>6, <1>10, <3>2
      <4>2. W[i].by = ep[b] => \A k \in 1 .. Len(Q) : W[i].seq < Q[k].seq
        BY <1>6, <1>10, <3>2
      <4>3. W[i].by = client => W[i].by = ep[b]
        BY <1>11, <3>2
      <4> QED
        BY <1>8, <1>10, <3>2, <4>1, <4>2, <4>3
    <3> QED
      BY <1>13, <3>1, <3>2
  <2> QED
    <3>1. PICK s, c, e, m : s = f.seq /\ c = client /\ e = ep[b] /\ m = next
      OBVIOUS
    <3>2. /\ prime'[b] = <<>> /\ rx'[b] = Q /\ events'[b] = W /\ lastSeq'[b] = s
          /\ client' = c /\ ep'[b] = e /\ next' = m
      BY <1>3, <1>4, <3>1
    <3>3. \A i \in 1 .. Len(W) :
            /\ W[i].ev # Hello
            /\ W[i].by = e => \A j \in 1 .. Len(Q) : W[i].seq < Q[j].seq
            /\ W[i].by = c => W[i].seq < m /\ W[i].seq <= s
      BY <2>1, <3>1
    <3>4. ~ \E j : j \in 1 .. (Len(<<>>) - 1)
      OBVIOUS
    <3> QED
      <4>1. \A i \in 1 .. Len(W) :
              /\ W[i].ev # Hello
              /\ bst'[b] = "open" /\ W[i].by = e =>
                   /\ <<>> # <<>> => W[i].seq <= <<>>[Len(<<>>)].seq
                   /\ \A j \in 1 .. (Len(<<>>) - 1) : W[i].seq < <<>>[j].seq
                   /\ \A j \in 1 .. Len(Q) : W[i].seq < Q[j].seq
              /\ W[i].by = c => W[i].seq < m /\ W[i].seq <= s
        BY <3>3, <3>4
      <4> QED
        BY <1>14, <3>2, <4>1 DEF PageInOrder
<1> QED
  BY <1>15, <1>17, <1>18 DEF Streams

LEMMA StreamsStep ==
  ASSUME TypeOK, HistorySeqs, ClientsInOrder, ResumerWaits, \A a \in Browsers : Streams(a),
         StreamAct, NEW b \in Browsers
  PROVE  Streams(b)'
<1>1. Streams(b)
  OBVIOUS
<1>2. /\ client \in {0, Len(replays)} /\ ep[b] <= Len(replays)
      /\ bst[b] = "open" => ep[b] # 0
      /\ \A i \in 1 .. Len(events[b]) : events[b][i].by <= Len(replays)
  BY DEF ClientsInOrder
<1>3. /\ ep[b] \in Nat /\ Len(replays) \in Nat
      /\ \A i \in 1 .. Len(events[b]) : events[b][i].by \in Nat \ {0}
  BY BrowserTypes, EnvelopeFields
<1>4. CASE Quiet
  BY <1>1, <1>4, StreamsStill DEF Quiet
<1>5. CASE Connected
  <2>1. PICK c : c = client'
    OBVIOUS
  <2>2. c = Len(replays) + 1
    BY <1>5, <2>1 DEF Connected
  <2>3. ep[b] # c /\ \A i \in 1 .. Len(events[b]) : events[b][i].by # c
    BY <1>2, <1>3, <2>2
  <2>4. bst'[b] = "open" <=> bst[b] = "open"
    BY <1>5 DEF Connected, ResumerWaits, TypeOK, WsTypeOK
  <2>5. /\ ep'[b] = ep[b] /\ prime'[b] = prime[b] /\ rx'[b] = rx[b]
        /\ lastSeq'[b] = lastSeq[b] /\ events'[b] = events[b]
    BY <1>5 DEF Connected, pageVars
  <2> QED
    BY <1>1, <2>1, <2>3, <2>4, <2>5, StreamsStill
<1>6. CASE ReadEvent
  <2>1. Head(dq) \in AnyEvent /\ Publish(Head(dq)) /\ client # 0
    BY <1>6, LineTaken DEF ReadEvent, TypeOK, ClientsInOrder
  <2>2. UNCHANGED <<client, bst, ep, prime, lastSeq, events>>
    BY <1>6 DEF ReadEvent, pageVars
  <2> QED
    BY <1>1, <2>1, <2>2, StreamsPublished
<1>7. ASSUME NEW e \in Injectable, Inject(e) PROVE Streams(b)'
  <2>1. e \in AnyEvent
    BY DaemonAssumption DEF Injectable, AnyEvent, DaemonAssumption
  <2>2. Publish(e) /\ client # 0
    BY <1>7 DEF Inject
  <2>3. UNCHANGED <<client, bst, ep, prime, lastSeq, events>>
    BY <1>7 DEF Inject, pageVars
  <2> QED
    BY <1>1, <2>1, <2>2, <2>3, StreamsPublished
<1>8. CASE Restart
  <2>1. /\ bst'[b] = "closed" /\ prime'[b] = <<>> /\ rx'[b] = <<>>
        /\ lastSeq'[b] = lastSeq[b] /\ events'[b] = events[b] /\ client' = 0
    BY <1>8 DEF Restart, pageVars
  <2> QED
    BY <1>1, <2>1, StreamsClosed
<1>9. CASE RemoveSession
  <2>1. /\ client' = 0 /\ bst'[b] = bst[b] /\ ep'[b] = ep[b] /\ prime'[b] = prime[b]
        /\ rx'[b] = rx[b] /\ lastSeq'[b] = lastSeq[b] /\ events'[b] = events[b]
    BY <1>9 DEF RemoveSession, wsVars, pageVars
  <2>2. /\ bst[b] = "open" => ep[b] # client'
        /\ \A i \in 1 .. Len(events[b]) : events[b][i].by # client'
    BY <1>2, <1>3, <2>1
  <2> QED
    BY <1>1, <2>1, <2>2, StreamsStill
<1>10. ASSUME NEW a \in Browsers, Attach(a) PROVE Streams(b)'
  <2>1. CASE a = b
    BY <1>1, <1>10, <2>1, StreamsAttach
  <2>2. CASE a # b
    <3>1. /\ bst'[b] = bst[b] /\ ep'[b] = ep[b] /\ prime'[b] = prime[b] /\ rx'[b] = rx[b]
          /\ lastSeq'[b] = lastSeq[b] /\ events'[b] = events[b]
          /\ client' = client /\ next' = next
      BY <1>10, <2>2, AttachEffect DEF clientVars
    <3> QED
      BY <1>1, <3>1, StreamsStill
  <2> QED
    BY <2>1, <2>2
<1>11. ASSUME NEW a \in Browsers, Receive(a) PROVE Streams(b)'
  <2>1. UNCHANGED <<bst, ep, client, next>>
    BY <1>11 DEF Receive, clientVars
  <2>2. CASE a = b
    <3>1. PICK f \in Envelopes : Received(b, f)
      BY <1>11, <2>2, ReceiveEffect
    <3>2. bst[b] = "open" /\ lastSeq'[b] = f.seq /\ events'[b] = Taken(events[b], f)
      BY <3>1 DEF Received
    <3>3. CASE /\ prime[b] # <<>> /\ f = Head(prime[b])
               /\ prime'[b] = Tail(prime[b]) /\ rx'[b] = rx[b]
      BY <1>1, <2>1, <3>1, <3>2, <3>3, StreamsPrimed
    <3>4. CASE /\ prime[b] = <<>> /\ prime'[b] = <<>>
               /\ rx[b] # <<>> /\ f = Head(rx[b]) /\ rx'[b] = Tail(rx[b])
      BY <1>1, <2>1, <3>1, <3>2, <3>4, StreamsLive
    <3> QED
      BY <3>1, <3>3, <3>4 DEF Received
  <2>3. CASE a # b
    <3>1. /\ bst'[b] = bst[b] /\ ep'[b] = ep[b] /\ prime'[b] = prime[b] /\ rx'[b] = rx[b]
          /\ lastSeq'[b] = lastSeq[b] /\ events'[b] = events[b]
      BY <1>11, <2>1, <2>3, ReceiveEffect
    <3> QED
      BY <1>1, <2>1, <3>1, StreamsStill
  <2> QED
    BY <2>2, <2>3
<1>12. ASSUME NEW a \in Browsers, Closes(a) PROVE Streams(b)'
  <2>1. UNCHANGED <<client, next>>
    BY <1>12 DEF Closes
  <2>2. CASE a = b
    <3>1. /\ bst'[b] = "closed" /\ prime'[b] = <<>> /\ rx'[b] = <<>>
          /\ (lastSeq'[b] = lastSeq[b] /\ events'[b] = events[b]) \/ events'[b] = <<>>
      BY <1>12, <2>2, CloseEffect
    <3> QED
      BY <1>1, <2>1, <3>1, StreamsClosed
  <2>3. CASE a # b
    <3>1. /\ bst'[b] = bst[b] /\ ep'[b] = ep[b] /\ prime'[b] = prime[b] /\ rx'[b] = rx[b]
          /\ lastSeq'[b] = lastSeq[b] /\ events'[b] = events[b]
      BY <1>12, <2>3, CloseEffect
    <3> QED
      BY <1>1, <2>1, <3>1, StreamsStill
  <2> QED
    BY <2>2, <2>3
<1> QED
  BY <1>4, <1>5, <1>6, <1>7, <1>8, <1>9, <1>10, <1>11, <1>12, StepEffect
-----------------------------------------------------------------------------
(* What a page that only knows the session's client has, and what comes *)

\* Page b holds events of the session's client only.
OneClient(b) == \A i \in 1 .. Len(events[b]) : events[b][i].by = client

\* The event of history entry h is on page b or was skipped by its receiver;
\* or it is on its way in queue q.
Known(b, h) == h.ev \in Held(b) \cup lost[b]
Comes(q, h) == \E j \in 1 .. Len(q) : q[j].seq = h.seq /\ q[j].ev = h.ev

\* The parts of Covers.
Unopened(b) ==
  events[b] = <<>> =>
    /\ lastSeq[b] \in {Null, 0}
    /\ prime[b] # <<>> => prime[b][1].ev # Hello \/ prime[b][1].seq = 0
CursorStands(b) ==
  OneClient(b) =>
    /\ lastSeq[b] < next
    /\ \A i \in 1 .. Len(hist) : hist[i].seq <= lastSeq[b] => Known(b, hist[i])
RestComes(b) ==
  OneClient(b) /\ bst[b] = "open" /\ ep[b] = client =>
    \A i \in 1 .. Len(hist) :
      Known(b, hist[i]) \/ Comes(prime[b], hist[i]) \/ Comes(rx[b], hist[i])

LEMMA CoversParts ==
  ASSUME NEW b \in Browsers
  PROVE  Covers(b) <=> Unopened(b) /\ CursorStands(b) /\ RestComes(b)
BY DEF Covers, Unopened, CursorStands, RestComes, OneClient, Known, Comes

LEMMA CoversStill ==
  ASSUME NEW b \in Browsers, Covers(b),
         UNCHANGED <<client, hist, next>>,
         ep'[b] = ep[b], prime'[b] = prime[b], rx'[b] = rx[b], lost'[b] = lost[b],
         lastSeq'[b] = lastSeq[b], events'[b] = events[b],
         bst'[b] = "open" <=> bst[b] = "open"
  PROVE  Covers(b)'
BY DEF Covers, Held

\* A new client, or none: what a page holds is of an earlier one.
LEMMA CoversNone ==
  ASSUME TypeOK, TypeOK', NEW b \in Browsers, Covers(b),
         \A i \in 1 .. Len(events[b]) : events[b][i].by # client',
         bst'[b] = "open" => ep'[b] # client',
         prime'[b] = prime[b] \/ prime'[b] = <<>>,
         lastSeq'[b] = lastSeq[b], events'[b] = events[b]
  PROVE  Covers(b)'
<1>1. Unopened(b)
  BY CoversParts
<1>2. Unopened(b)'
  BY <1>1 DEF Unopened
<1>3. OneClient(b)' => events[b] = <<>>
  <2>1. SUFFICES ASSUME OneClient(b)', events[b] # <<>> PROVE FALSE
    OBVIOUS
  <2>2. 1 \in 1 .. Len(events[b])
    BY <2>1, BrowserTypes, EnvelopeFields
  <2> QED
    BY <2>1, <2>2 DEF OneClient
<1>4. /\ next' \in Nat \ {0}
      /\ \A i \in 1 .. Len(hist') : hist'[i].seq \in Nat \ {0}
  <2>1. PICK h \in Seq(Entry) : h = hist'
    BY DEF TypeOK, ClientTypeOK
  <2>2. \A i \in 1 .. Len(h) : h[i] \in Entry
    BY <2>1, ElementOfSeq
  <2> QED
    BY <2>1, <2>2 DEF TypeOK, ClientTypeOK, Entry
<1>5. CursorStands(b)'
  BY <1>1, <1>3, <1>4 DEF CursorStands, Unopened, Null
<1>6. RestComes(b)'
  BY DEF RestComes
<1>7. (Unopened(b) /\ CursorStands(b) /\ RestComes(b) => Covers(b))'
  BY CoversParts, PTL
<1> QED
  BY <1>2, <1>5, <1>6, <1>7

\* The connection of b ends; its page keeps its cursor and events, or forgets
\* both.
LEMMA CoversClosed ==
  ASSUME TypeOK, HistorySeqs, NEW b \in Browsers, Covers(b),
         UNCHANGED <<client, hist, next, lost>>,
         bst'[b] = "closed", prime'[b] = <<>>,
         \/ lastSeq'[b] = lastSeq[b] /\ events'[b] = events[b]
         \/ lastSeq'[b] = Null /\ events'[b] = <<>>
  PROVE  Covers(b)'
<1>1. Unopened(b) /\ CursorStands(b)
  BY CoversParts
<1>2. Unopened(b)'
  BY <1>1 DEF Unopened
<1>3. CursorStands(b)'
  <2>1. CASE lastSeq'[b] = lastSeq[b] /\ events'[b] = events[b]
    BY <1>1, <2>1 DEF CursorStands, OneClient, Known, Held
  <2>2. CASE lastSeq'[b] = Null
    <3>1. next \in Nat \ {0} /\ \A i \in 1 .. Len(hist) : hist[i].seq \in Nat \ {0}
      BY HistoryFields DEF TypeOK
    <3> QED
      BY <2>2, <3>1 DEF CursorStands, Null
  <2> QED
    BY <2>1, <2>2
<1>4. RestComes(b)'
  BY DEF RestComes
<1>5. (Unopened(b) /\ CursorStands(b) /\ RestComes(b) => Covers(b))'
  BY CoversParts, PTL
<1> QED
  BY <1>2, <1>3, <1>4, <1>5

\* attach() sends what the cursor does not stand for.
LEMMA CoversAttach ==
  ASSUME TypeOK, HistorySeqs, NEW b \in Browsers, Covers(b), Attach(b)
  PROVE  Covers(b)'
<1>1. Unopened(b) /\ CursorStands(b)
  BY CoversParts
<1>2. /\ UNCHANGED <<client, hist, next, lost, lastSeq, events>>
  BY AttachEffect DEF clientVars
<1>3. PICK n \in Nat : n = Len(hist)
  BY HistoryFields DEF TypeOK
<1>4. PICK P : P = prime'[b]
  OBVIOUS
<1>5. PICK k \in 1 .. (n + 1) :
        /\ Len(P) = n - k + 2
        /\ \A i \in 1 .. (n - k + 1) : P[i] = Envelope(hist[k + i - 1])
        /\ P[n - k + 2] = HelloEnvelope(LatestSeq)
        /\ \A i \in 1 .. (k - 1) : hist[i].seq <= lastSeq[b]
        /\ lastSeq[b] \in {Null, 0} => k = 1
  BY <1>3, <1>4, PrimedShape
<1>6. \A i \in 1 .. n : hist[i].ev # Hello
  <2>1. \A i \in 1 .. n : hist[i].ev \in AnyEvent
    BY <1>3, HistoryFields DEF TypeOK
  <2> QED
    BY <2>1 DEF AnyEvent, Hello
<1>7. Unopened(b)'
  <2>1. SUFFICES ASSUME events[b] = <<>>
                 PROVE  lastSeq[b] \in {Null, 0} /\ (P[1].ev # Hello \/ P[1].seq = 0)
    BY <1>2, <1>4 DEF Unopened
  <2>2. lastSeq[b] \in {Null, 0} /\ k = 1
    BY <1>1, <1>5, <2>1 DEF Unopened
  <2>3. CASE n = 0
    <3>1. P[1] = HelloEnvelope(LatestSeq)
      BY <1>5, <2>2, <2>3
    <3>2. LatestSeq = 0
      <4>1. hist = <<>>
        BY <1>3, <2>3, EmptySeq, HistoryFields DEF TypeOK
      <4> QED
        BY <4>1, HistoryFields DEF TypeOK
    <3> QED
      BY <2>2, <3>1, <3>2 DEF HelloEnvelope
  <2>4. CASE n # 0
    <3>1. 1 \in 1 .. (n - k + 1) /\ k + 1 - 1 = 1 /\ 1 \in 1 .. n
      BY <1>3, <2>2, <2>4
    <3>2. P[1] = Envelope(hist[1])
      BY <1>5, <3>1
    <3> QED
      BY <1>6, <2>2, <3>1, <3>2 DEF Envelope
  <2> QED
    BY <2>3, <2>4
<1>8. CursorStands(b)'
  BY <1>1, <1>2 DEF CursorStands, OneClient, Known, Held
<1>9. RestComes(b)'
  <2>1. SUFFICES ASSUME OneClient(b), NEW i \in 1 .. n
                 PROVE  Known(b, hist[i]) \/ Comes(P, hist[i])
    BY <1>2, <1>3, <1>4 DEF RestComes, OneClient, Known, Held
  <2>2. CASE i < k
    <3>1. i \in 1 .. (k - 1)
      BY <1>5, <2>2
    <3> QED
      BY <1>1, <1>3, <1>5, <2>1, <3>1 DEF CursorStands
  <2>3. CASE ~ (i < k)
    <3>1. PICK j : j = i - k + 1
      OBVIOUS
    <3>2. j \in 1 .. (n - k + 1) /\ k + j - 1 = i /\ j \in 1 .. (n - k + 2)
      BY <1>3, <1>5, <2>1, <2>3, <3>1
    <3>3. P[j] = Envelope(hist[i])
      BY <1>5, <3>2
    <3>4. P[j].seq = hist[i].seq /\ P[j].ev = hist[i].ev
      BY <3>3 DEF Envelope
    <3>5. j \in 1 .. Len(P)
      BY <1>5, <3>2
    <3> QED
      BY <3>4, <3>5 DEF Comes
  <2> QED
    BY <2>2, <2>3
<1>10. (Unopened(b) /\ CursorStands(b) /\ RestComes(b) => Covers(b))'
  BY CoversParts, PTL
<1> QED
  BY <1>7, <1>8, <1>9, <1>10
\* Queue q holds x.
Has(q, x) == \E i \in 1 .. Len(q) : q[i] = x

\* A receiver holds on to what it had, but for what a send makes it lose.
LEMMA PushKeeps ==
  ASSUME NEW S, NEW q \in Seq(S), NEW e \in S, NEW cap \in Nat \ {0}
  PROVE  /\ Has(Push(q, e, cap), e)
         /\ \A j \in 1 .. Len(q) : q[j] \in Skipped(q, cap) \/ Has(Push(q, e, cap), q[j])
<1>1. PICK n \in Nat : n = Len(q)
  BY LenProperties
<1>2. PICK new : new = Push(q, e, cap)
  OBVIOUS
<1>3. CASE n < cap
  <2>1. /\ Len(new) = n + 1 /\ new[n + 1] = e
        /\ \A i \in 1 .. n : new[i] = q[i]
    BY <1>1, <1>2, <1>3, AppendProperties DEF Push
  <2>2. n + 1 \in 1 .. (n + 1) /\ \A j \in 1 .. n : j \in 1 .. (n + 1)
    BY <1>1
  <2> QED
    BY <1>1, <1>2, <2>1, <2>2 DEF Has
<1>4. CASE ~ (n < cap)
  <2>1. q # <<>> /\ n >= 1
    BY <1>1, <1>4, EmptySeq
  <2>2. PICK t : t = Tail(q)
    OBVIOUS
  <2>3. /\ t \in Seq(S) /\ Len(t) = n - 1 /\ Head(q) = q[1]
        /\ \A i \in 1 .. (n - 1) : t[i] = q[i + 1]
    BY <1>1, <2>1, <2>2, HeadTailProperties
  <2>4. new = Append(t, e) /\ Skipped(q, cap) = {q[1]}
    BY <1>1, <1>2, <1>4, <2>2, <2>3 DEF Push, Skipped
  <2>5. /\ Len(new) = n /\ new[n] = e
        /\ \A i \in 1 .. (n - 1) : new[i] = q[i + 1]
    BY <2>1, <2>3, <2>4, AppendProperties
  <2>6. ASSUME NEW j \in 1 .. n, j # 1
        PROVE  \E i \in 1 .. n : new[i] = q[j]
    <3>1. PICK i : i = j - 1
      OBVIOUS
    <3>2. i \in 1 .. (n - 1) /\ i \in 1 .. n /\ i + 1 = j
      BY <1>1, <2>6, <3>1
    <3> QED
      BY <2>5, <3>2
  <2>7. n \in 1 .. n
    BY <1>1, <2>1
  <2> QED
    BY <1>1, <1>2, <2>4, <2>5, <2>6, <2>7 DEF Has
<1> QED
  BY <1>3, <1>4

\* An event that is published goes to the page, or on its way to it.
LEMMA CoversPublished ==
  ASSUME TypeOK, HistorySeqs, NEW e \in AnyEvent, client # 0, Publish(e),
         NEW b \in Browsers, Covers(b),
         UNCHANGED <<client, bst, ep, prime, lastSeq, events>>
  PROVE  Covers(b)'
<1>1. Unopened(b) /\ CursorStands(b) /\ RestComes(b)
  BY CoversParts
<1>2. PICK f \in Envelopes : f = Envelope([seq |-> next, ev |-> e])
  BY PublishedTo
<1>3. /\ f.seq = next /\ f.ev = e /\ next' = next + 1
      /\ bst[b] = "open" /\ ep[b] = client =>
           /\ rx'[b] = Push(rx[b], f, WsCap)
           /\ lost'[b] = lost[b] \cup {g.ev : g \in Skipped(rx[b], WsCap)}
      /\ ~ (bst[b] = "open" /\ ep[b] = client) => rx'[b] = rx[b] /\ lost'[b] = lost[b]
  BY <1>2, PublishedTo
<1>4. next \in Nat \ {0} /\ lastSeq[b] \in Nat \cup {Null} /\ rx[b] \in Seq(Envelopes)
      /\ WsCap \in Nat \ {0}
  BY BrowserTypes, ChatAssumption DEF ChatAssumption
<1>5. PICK new : new = hist'
  OBVIOUS
<1>6. \A i \in 1 .. Len(new) : \/ new[i].seq = next /\ new[i].ev = e
                               \/ \E j \in 1 .. Len(hist) : new[i] = hist[j]
  <2>1. PICK n \in Nat : n = Len(hist)
    BY HistoryFields DEF TypeOK
  <2>2. PICK d \in 0 .. n : AddedTo(new, hist, d, [seq |-> next, ev |-> e])
    BY <1>5, <2>1, PublishShape DEF TypeOK
  <2>3. /\ Len(new) = n + 1 - d
        /\ \A i \in 1 .. (n - d) : new[i] = hist[i + d]
        /\ new[n + 1 - d] = [seq |-> next, ev |-> e]
    BY <2>1, <2>2 DEF AddedTo
  <2>4. \A i \in 1 .. (n + 1 - d) : i = n + 1 - d \/ (i \in 1 .. (n - d) /\ i + d \in 1 .. n)
    BY <2>1, <2>2
  <2>5. ASSUME NEW i \in 1 .. (n + 1 - d)
        PROVE  \/ new[i].seq = next /\ new[i].ev = e
               \/ \E j \in 1 .. n : new[i] = hist[j]
    <3>1. CASE i = n + 1 - d
      BY <2>3, <3>1
    <3>2. CASE i \in 1 .. (n - d) /\ i + d \in 1 .. n
      BY <2>3, <3>2
    <3> QED
      BY <2>4, <3>1, <3>2
  <2> QED
    BY <2>1, <2>3, <2>5
<1>7. lost[b] \subseteq lost'[b]
  BY <1>3
<1>8. \A h : Known(b, h) => Known(b, h)'
  BY <1>7 DEF Known, Held
<1>9. OneClient(b)' => OneClient(b)
  BY DEF OneClient
<1>10. Unopened(b)'
  BY <1>1 DEF Unopened
<1>11. CursorStands(b)'
  <2>1. SUFFICES ASSUME OneClient(b)
                 PROVE  /\ lastSeq[b] < next'
                        /\ \A i \in 1 .. Len(new) : new[i].seq <= lastSeq[b] => Known(b, new[i])'
    BY <1>5, <1>9 DEF CursorStands, Known, Held
  <2>2. /\ lastSeq[b] < next
        /\ \A i \in 1 .. Len(hist) : hist[i].seq <= lastSeq[b] => Known(b, hist[i])
    BY <1>1, <2>1 DEF CursorStands
  <2>3. lastSeq[b] < next'
    BY <1>3, <1>4, <2>2 DEF Null
  <2>4. ASSUME NEW i \in 1 .. Len(new), new[i].seq <= lastSeq[b] PROVE Known(b, new[i])'
    <3>1. new[i].seq # next
      BY <1>4, <2>2, <2>4 DEF Null
    <3>2. PICK j \in 1 .. Len(hist) : new[i] = hist[j]
      BY <1>6, <2>4, <3>1
    <3>3. Known(b, new[i])
      BY <2>2, <2>4, <3>2
    <3> QED
      BY <1>8, <3>3
  <2> QED
    BY <2>3, <2>4
<1>12. RestComes(b)'
  <2>1. PICK Q : Q = rx'[b]
    OBVIOUS
  <2>2. SUFFICES ASSUME OneClient(b), bst[b] = "open", ep[b] = client, NEW i \in 1 .. Len(new)
                 PROVE  Known(b, new[i])' \/ Comes(prime[b], new[i]) \/ Comes(Q, new[i])
    BY <1>5, <1>9, <2>1 DEF RestComes, Comes, Known, Held
  <2>3. /\ Q = Push(rx[b], f, WsCap)
        /\ lost'[b] = lost[b] \cup {g.ev : g \in Skipped(rx[b], WsCap)}
    BY <1>3, <2>1, <2>2
  <2>4. /\ \E k \in 1 .. Len(Q) : Q[k] = f
        /\ \A j \in 1 .. Len(rx[b]) :
             rx[b][j] \in Skipped(rx[b], WsCap) \/ \E k \in 1 .. Len(Q) : Q[k] = rx[b][j]
    <3>1. /\ Has(Q, f)
          /\ \A j \in 1 .. Len(rx[b]) : rx[b][j] \in Skipped(rx[b], WsCap) \/ Has(Q, rx[b][j])
      BY <1>2, <1>4, <2>3, PushKeeps
    <3> QED
      BY <3>1 DEF Has
  <2>5. CASE new[i].seq = next /\ new[i].ev = e
    BY <1>3, <2>4, <2>5 DEF Comes
  <2>6. ASSUME NEW j \in 1 .. Len(hist), new[i] = hist[j]
        PROVE  Known(b, new[i])' \/ Comes(prime[b], new[i]) \/ Comes(Q, new[i])
    <3>1. PICK h : h = hist[j]
      OBVIOUS
    <3>2. Known(b, h) \/ Comes(prime[b], h) \/ Comes(rx[b], h)
      BY <1>1, <2>2, <3>1 DEF RestComes
    <3>3. ASSUME Comes(rx[b], h) PROVE Known(b, h)' \/ Comes(Q, h)
      <4>1. PICK k \in 1 .. Len(rx[b]) : rx[b][k].seq = h.seq /\ rx[b][k].ev = h.ev
        BY <3>3 DEF Comes
      <4>2. CASE rx[b][k] \in Skipped(rx[b], WsCap)
        <5>1. h.ev \in lost'[b]
          BY <2>3, <4>1, <4>2
        <5> QED
          BY <5>1 DEF Known
      <4>3. CASE \E m \in 1 .. Len(Q) : Q[m] = rx[b][k]
        BY <4>1, <4>3 DEF Comes
      <4> QED
        BY <2>4, <4>2, <4>3
    <3>4. Known(b, h)' \/ Comes(prime[b], h) \/ Comes(Q, h)
      BY <1>8, <3>2, <3>3
    <3> QED
      BY <2>6, <3>1, <3>4
  <2> QED
    BY <1>6, <2>5, <2>6
<1>13. (Unopened(b) /\ CursorStands(b) /\ RestComes(b) => Covers(b))'
  BY CoversParts, PTL
<1> QED
  BY <1>10, <1>11, <1>12, <1>13
\* The envelope b receives is its client's, and the first of those that come.
LEMMA NextEnvelope ==
  ASSUME TypeOK, NEW b \in Browsers, Streams(b), NEW f \in Envelopes, Received(b, f)
  PROVE  /\ f.by = ep[b]
         /\ ep[b] = client => f.seq < next
         /\ f.ev = Hello => prime[b] # <<>> /\ f = prime[b][1] /\ prime'[b] = <<>>
         /\ \A h : h.ev # Hello /\ (Comes(prime[b], h) \/ Comes(rx[b], h)) =>
              \/ h.ev = f.ev
              \/ f.seq < h.seq /\ (Comes(prime'[b], h) \/ Comes(rx'[b], h))
<1> DEFINE Rest(h) == \/ h.ev = f.ev
                      \/ f.seq < h.seq /\ (Comes(prime'[b], h) \/ Comes(rx'[b], h))
<1>1. PICK P \in Seq(Envelopes) : P = prime[b]
  BY BrowserTypes
<1>2. PICK R \in Seq(Envelopes) : R = rx[b]
  BY BrowserTypes
<1>3. /\ \A i \in 1 .. Len(P) : P[i].seq \in Nat
      /\ \A i \in 1 .. Len(R) : R[i].seq \in Nat
      /\ f.seq \in Nat /\ next \in Nat
  BY <1>1, <1>2, EnvelopeFields, BrowserTypes DEF Envelopes
<1>4. CASE /\ P # <<>> /\ f = Head(P)
           /\ prime'[b] = Tail(P) /\ rx'[b] = R
  <2>1. PICK Q : Q = prime'[b]
    OBVIOUS
  <2>2. PICK n \in Nat : n = Len(P) /\ n >= 1
    BY <1>1, <1>4, EnvelopeFields
  <2>3. /\ f = P[1] /\ Len(Q) = n - 1 /\ 1 \in 1 .. n /\ Q \in Seq(Envelopes)
        /\ \A i \in 1 .. Len(Q) : Q[i] = P[i + 1]
    BY <1>1, <1>4, <2>1, <2>2, QueueTaken
  <2>4. /\ P[n].ev = Hello
        /\ ep[b] = client => P[n].seq < next
        /\ \A i \in 1 .. n : P[i].by = ep[b]
        /\ \A i \in 1 .. (n - 1) : P[i].ev # Hello /\ P[i].seq <= P[n].seq
        /\ \A i, j \in 1 .. (n - 1) : i < j => P[i].seq < P[j].seq
    BY <1>1, <1>4, <2>2 DEF Streams, PrimeInOrder
  <2>5. f.seq <= P[n].seq /\ (n > 1 => 1 \in 1 .. (n - 1) /\ f.ev # Hello)
    <3>1. CASE n = 1
      BY <1>3, <2>2, <2>3, <3>1
    <3>2. CASE n > 1
      <4>1. 1 \in 1 .. (n - 1)
        BY <3>2
      <4> QED
        BY <2>3, <2>4, <4>1
    <3> QED
      BY <2>2, <3>1, <3>2
  <2>6. ep[b] = client => f.seq < next
    BY <1>3, <2>2, <2>3, <2>4, <2>5
  <2>7. f.ev = Hello => Q = <<>>
    BY <2>2, <2>3, <2>5, EmptySeq
  <2>8. ASSUME NEW h, h.ev # Hello, Comes(P, h) PROVE Rest(h)
    <3>1. PICK j \in 1 .. n : P[j].seq = h.seq /\ P[j].ev = h.ev
      BY <2>2, <2>8 DEF Comes
    <3>2. CASE j = 1
      BY <2>3, <3>1, <3>2
    <3>3. CASE j # 1
      <4>1. j # n
        BY <2>4, <2>8, <3>1
      <4>2. 1 \in 1 .. (n - 1) /\ j \in 1 .. (n - 1) /\ 1 < j
        BY <2>2, <3>1, <3>3, <4>1
      <4>3. f.seq < h.seq
        BY <2>3, <2>4, <3>1, <4>2
      <4>4. PICK i \in 1 .. (n - 1) : i + 1 = j
        <5>1. j - 1 \in 1 .. (n - 1) /\ j - 1 + 1 = j
          BY <2>2, <4>2
        <5> QED
          BY <5>1
      <4>5. Comes(Q, h)
        BY <2>3, <3>1, <4>4 DEF Comes
      <4> QED
        BY <2>1, <4>3, <4>5
    <3> QED
      BY <3>2, <3>3
  <2>9. ASSUME NEW h, Comes(R, h) PROVE Rest(h)
    <3>1. PICK j \in 1 .. Len(R) : R[j].seq = h.seq
      BY <2>9 DEF Comes
    <3>2. P[n].seq < R[j].seq
      BY <1>1, <1>2, <1>4, <2>2 DEF Streams, LiveInOrder
    <3>3. f.seq < h.seq
      BY <1>3, <2>2, <2>5, <3>1, <3>2
    <3> QED
      BY <1>4, <2>9, <3>3
  <2>10. f.by = ep[b]
    BY <2>3, <2>4
  <2> HIDE DEF Rest
  <2>11. \A h : h.ev # Hello /\ (Comes(prime[b], h) \/ Comes(rx[b], h)) => Rest(h)
    BY <1>1, <1>2, <2>8, <2>9
  <2> QED
    BY <1>1, <1>4, <2>1, <2>3, <2>6, <2>7, <2>10, <2>11 DEF Rest
<1>5. CASE /\ P = <<>> /\ prime'[b] = <<>> /\ R # <<>> /\ f = Head(R) /\ rx'[b] = Tail(R)
  <2>1. PICK Q : Q = rx'[b]
    OBVIOUS
  <2>2. PICK n \in Nat : n = Len(R) /\ n >= 1
    BY <1>2, <1>5, EnvelopeFields
  <2>3. /\ f = R[1] /\ Len(Q) = n - 1 /\ 1 \in 1 .. n
        /\ \A i \in 1 .. Len(Q) : Q[i] = R[i + 1]
    BY <1>2, <1>5, <2>1, <2>2, QueueTaken
  <2>4. \A i \in 1 .. n :
          /\ R[i].by = ep[b] /\ R[i].ev # Hello
          /\ \A j \in 1 .. n : i < j => R[i].seq < R[j].seq
          /\ ep[b] = client => R[i].seq < next
    BY <1>2, <2>2 DEF Streams, LiveInOrder
  <2>5. ASSUME NEW h, Comes(R, h) PROVE Rest(h)
    <3>1. PICK j \in 1 .. n : R[j].seq = h.seq /\ R[j].ev = h.ev
      BY <2>2, <2>5 DEF Comes
    <3>2. CASE j = 1
      BY <2>3, <3>1, <3>2
    <3>3. CASE j # 1
      <4>1. f.seq < h.seq
        <5>1. 1 < j
          BY <3>1, <3>3
        <5>2. R[1].seq < R[j].seq
          BY <2>3, <2>4, <3>1, <5>1
        <5> QED
          BY <2>3, <3>1, <5>2
      <4>2. PICK i \in 1 .. (n - 1) : i + 1 = j
        <5>1. j - 1 \in 1 .. (n - 1) /\ j - 1 + 1 = j
          BY <2>2, <3>1, <3>3
        <5> QED
          BY <5>1
      <4>3. Comes(Q, h)
        BY <2>3, <3>1, <4>2 DEF Comes
      <4> QED
        BY <2>1, <4>1, <4>3
    <3> QED
      BY <3>2, <3>3
  <2>6. \A h : ~ Comes(P, h)
    BY <1>5 DEF Comes
  <2>7. f.by = ep[b] /\ f.ev # Hello /\ (ep[b] = client => f.seq < next)
    BY <2>3, <2>4
  <2> HIDE DEF Rest
  <2>8. \A h : h.ev # Hello /\ (Comes(prime[b], h) \/ Comes(rx[b], h)) => Rest(h)
    BY <1>1, <1>2, <2>5, <2>6
  <2> QED
    BY <2>7, <2>8 DEF Rest
<1> QED
  BY <1>1, <1>2, <1>4, <1>5 DEF Received

LEMMA CoversReceived ==
  ASSUME TypeOK, HistorySeqs, ClientsInOrder, NEW b \in Browsers, Streams(b), Covers(b),
         NEW f \in Envelopes, Received(b, f), UNCHANGED <<client, hist, next, bst, ep, lost>>
  PROVE  Covers(b)'
<1>1. Unopened(b) /\ CursorStands(b) /\ RestComes(b)
  BY CoversParts
<1>2. PICK V \in Seq(Envelopes) : V = events[b]
  BY BrowserTypes
<1>3. PICK W : W = events'[b]
  OBVIOUS
<1>4. Follows(W, V, f) /\ (f.ev = Hello => W = V)
  <2>1. W = Taken(V, f)
    BY <1>2, <1>3 DEF Received
  <2> QED
    BY <1>2, <2>1, TakenShape DEF Taken
<1>5. /\ f.by = ep[b] /\ bst[b] = "open" /\ lastSeq'[b] = f.seq
      /\ ep[b] = client => f.seq < next
      /\ f.ev = Hello => prime[b] # <<>> /\ f = prime[b][1] /\ prime'[b] = <<>>
      /\ \A h : h.ev # Hello /\ (Comes(prime[b], h) \/ Comes(rx[b], h)) =>
           \/ h.ev = f.ev
           \/ f.seq < h.seq /\ (Comes(prime'[b], h) \/ Comes(rx'[b], h))
  BY NextEnvelope DEF Received
<1>6. /\ \A i \in 1 .. Len(V) : \E j \in 1 .. Len(W) : W[j] = V[i]
      /\ f.ev # Hello => W # <<>> /\ \E j \in 1 .. Len(W) : W[j] = f
  <2>1. /\ \A i \in 1 .. Len(V) : i \in 1 .. Len(W) /\ W[i] = V[i]
        /\ f.ev # Hello => W # <<>> /\ \E j \in 1 .. Len(W) : W[j] = f
    BY <1>4 DEF Follows
  <2> QED
    BY <2>1
<1>7. \A h : Known(b, h) => Known(b, h)'
  <2>1. \A e : (\E i \in 1 .. Len(V) : V[i].ev = e) => \E j \in 1 .. Len(W) : W[j].ev = e
    BY <1>6
  <2>2. \A e : e \in Held(b) => e \in Held(b)'
    BY <1>2, <1>3, <2>1 DEF Held
  <2> QED
    BY <2>2 DEF Known
<1>8. \A h : h.ev = f.ev /\ h.ev # Hello => Known(b, h)'
  BY <1>3, <1>6 DEF Known, Held
<1>9. OneClient(b)' => OneClient(b) /\ (f.ev # Hello => f.by = client)
  <2>1. SUFFICES ASSUME \A j \in 1 .. Len(W) : W[j].by = client
                 PROVE  /\ \A i \in 1 .. Len(V) : V[i].by = client
                        /\ f.ev # Hello => f.by = client
    BY <1>2, <1>3 DEF OneClient
  <2> QED
    BY <1>6, <2>1
<1>10. Unopened(b)'
  <2>1. SUFFICES ASSUME W = <<>> PROVE f.seq = 0 /\ prime'[b] = <<>>
    BY <1>3, <1>5 DEF Unopened
  <2>2. f.ev = Hello /\ V = <<>>
    BY <1>4, <1>6, <2>1
  <2> QED
    BY <1>1, <1>2, <1>5, <2>2 DEF Unopened
<1>11. \A i \in 1 .. Len(hist) : hist[i].seq \in Nat \ {0} /\ hist[i].ev # Hello
  <2>1. \A i \in 1 .. Len(hist) : hist[i].seq \in Nat \ {0} /\ hist[i].ev \in AnyEvent
    BY HistoryFields DEF TypeOK
  <2>2. \A e \in AnyEvent : e # Hello
    BY DEF AnyEvent, Hello
  <2> QED
    BY <2>1, <2>2
<1>12. f.seq \in Nat /\ next \in Nat \ {0}
  BY BrowserTypes DEF Envelopes
<1>13. ASSUME OneClient(b)', ep[b] = client, NEW h, \E i \in 1 .. Len(hist) : h = hist[i]
       PROVE  \/ Known(b, h)'
              \/ f.seq < h.seq /\ (Comes(prime'[b], h) \/ Comes(rx'[b], h))
  <2>1. Known(b, h) \/ Comes(prime[b], h) \/ Comes(rx[b], h)
    BY <1>1, <1>5, <1>9, <1>13 DEF RestComes
  <2>2. h.ev # Hello
    BY <1>11, <1>13
  <2> QED
    BY <1>5, <1>7, <1>8, <2>1, <2>2
<1>14. ASSUME OneClient(b)', ep[b] # client PROVE f.ev = Hello /\ f.seq = 0
  <2>1. f.ev = Hello
    BY <1>5, <1>9, <1>14
  <2>2. V = <<>>
    <3>1. SUFFICES ASSUME V # <<>> PROVE FALSE
      OBVIOUS
    <3>2. 1 \in 1 .. Len(V)
      BY <1>2, <3>1, EnvelopeFields
    <3>3. V[1].by = client
      BY <1>2, <1>9, <1>14, <3>2 DEF OneClient
    <3> QED
      BY <1>2, <1>5, <1>14, <3>2, <3>3, OwnEvents
  <2> QED
    BY <1>1, <1>2, <1>5, <2>1, <2>2 DEF Unopened
<1>15. CursorStands(b)'
  <2>1. SUFFICES ASSUME OneClient(b)'
                 PROVE  /\ f.seq < next
                        /\ \A h : (\E i \in 1 .. Len(hist) : h = hist[i]) /\ h.seq <= f.seq
                                    => Known(b, h)'
    BY <1>5 DEF CursorStands, Known, Held
  <2>2. CASE ep[b] # client
    BY <1>11, <1>12, <1>14, <2>1, <2>2
  <2>3. CASE ep[b] = client
    <3>1. \A h : (\E i \in 1 .. Len(hist) : h = hist[i]) => h.seq \in Nat
      BY <1>11
    <3> QED
      BY <1>5, <1>12, <1>13, <2>1, <2>3, <3>1
  <2> QED
    BY <2>2, <2>3
<1>16. RestComes(b)'
  BY <1>13 DEF RestComes, Known, Held, Comes
<1>17. (Unopened(b) /\ CursorStands(b) /\ RestComes(b) => Covers(b))'
  BY CoversParts, PTL
<1> QED
  BY <1>10, <1>15, <1>16, <1>17

LEMMA CoversStep ==
  ASSUME TypeOK, TypeOK', HistorySeqs, ClientsInOrder, ResumerWaits,
         \A a \in Browsers : Streams(a), \A a \in Browsers : Covers(a),
         StreamAct, NEW b \in Browsers
  PROVE  Covers(b)'
<1>1. Covers(b) /\ Streams(b)
  OBVIOUS
<1>2. /\ client \in {0, Len(replays)} /\ ep[b] <= Len(replays)
      /\ bst[b] = "open" => ep[b] # 0
      /\ \A i \in 1 .. Len(events[b]) : events[b][i].by <= Len(replays)
  BY DEF ClientsInOrder
<1>3. /\ ep[b] \in Nat /\ Len(replays) \in Nat
      /\ \A i \in 1 .. Len(events[b]) : events[b][i].by \in Nat \ {0}
  BY BrowserTypes, EnvelopeFields
<1>4. CASE Quiet
  BY <1>1, <1>4, CoversStill DEF Quiet
<1>5. CASE Connected
  <2>1. PICK c : c = client'
    OBVIOUS
  <2>2. c = Len(replays) + 1
    BY <1>5, <2>1 DEF Connected
  <2>3. ep[b] # c /\ \A i \in 1 .. Len(events[b]) : events[b][i].by # c
    BY <1>2, <1>3, <2>2
  <2>4. /\ ep'[b] = ep[b] /\ prime'[b] = prime[b]
        /\ lastSeq'[b] = lastSeq[b] /\ events'[b] = events[b]
    BY <1>5 DEF Connected, pageVars
  <2> QED
    BY <1>1, <2>1, <2>3, <2>4, CoversNone
<1>6. CASE ReadEvent
  <2>1. Head(dq) \in AnyEvent /\ Publish(Head(dq)) /\ client # 0
    BY <1>6, LineTaken DEF ReadEvent, TypeOK, ClientsInOrder
  <2>2. UNCHANGED <<client, bst, ep, prime, lastSeq, events>>
    BY <1>6 DEF ReadEvent, pageVars
  <2> QED
    BY <1>1, <2>1, <2>2, CoversPublished
<1>7. ASSUME NEW e \in Injectable, Inject(e) PROVE Covers(b)'
  <2>1. e \in AnyEvent
    BY DaemonAssumption DEF Injectable, AnyEvent, DaemonAssumption
  <2>2. Publish(e) /\ client # 0
    BY <1>7 DEF Inject
  <2>3. UNCHANGED <<client, bst, ep, prime, lastSeq, events>>
    BY <1>7 DEF Inject, pageVars
  <2> QED
    BY <1>1, <2>1, <2>2, <2>3, CoversPublished
<1>8. CASE Restart
  <2>1. /\ bst'[b] = "closed" /\ prime'[b] = <<>>
        /\ lastSeq'[b] = lastSeq[b] /\ events'[b] = events[b] /\ client' = 0
    BY <1>8 DEF Restart, pageVars
  <2> QED
    BY <1>1, <1>3, <2>1, CoversNone
<1>9. CASE RemoveSession
  <2>1. /\ client' = 0 /\ bst'[b] = bst[b] /\ ep'[b] = ep[b] /\ prime'[b] = prime[b]
        /\ lastSeq'[b] = lastSeq[b] /\ events'[b] = events[b]
    BY <1>9 DEF RemoveSession, wsVars, pageVars
  <2>2. /\ bst'[b] = "open" => ep'[b] # client'
        /\ \A i \in 1 .. Len(events[b]) : events[b][i].by # client'
    BY <1>2, <1>3, <2>1
  <2> QED
    BY <1>1, <2>1, <2>2, CoversNone
<1>10. ASSUME NEW a \in Browsers, Attach(a) PROVE Covers(b)'
  <2>1. CASE a = b
    BY <1>1, <1>10, <2>1, CoversAttach
  <2>2. CASE a # b
    <3>1. /\ bst'[b] = bst[b] /\ ep'[b] = ep[b] /\ prime'[b] = prime[b] /\ rx'[b] = rx[b]
          /\ lastSeq'[b] = lastSeq[b] /\ events'[b] = events[b] /\ lost'[b] = lost[b]
          /\ UNCHANGED <<client, hist, next>>
      BY <1>10, <2>2, AttachEffect DEF clientVars
    <3> QED
      BY <1>1, <3>1, CoversStill
  <2> QED
    BY <2>1, <2>2
<1>11. ASSUME NEW a \in Browsers, Receive(a) PROVE Covers(b)'
  <2>1. UNCHANGED <<client, hist, next, bst, ep, lost>>
    BY <1>11 DEF Receive, clientVars
  <2>2. CASE a = b
    <3>1. PICK f \in Envelopes : Received(b, f)
      BY <1>11, <2>2, ReceiveEffect
    <3> QED
      BY <1>1, <2>1, <3>1, CoversReceived
  <2>3. CASE a # b
    <3>1. /\ bst'[b] = bst[b] /\ ep'[b] = ep[b] /\ prime'[b] = prime[b] /\ rx'[b] = rx[b]
          /\ lastSeq'[b] = lastSeq[b] /\ events'[b] = events[b] /\ lost'[b] = lost[b]
      BY <1>11, <2>1, <2>3, ReceiveEffect
    <3> QED
      BY <1>1, <2>1, <3>1, CoversStill
  <2> QED
    BY <2>2, <2>3
<1>12. ASSUME NEW a \in Browsers, Closes(a) PROVE Covers(b)'
  <2>1. UNCHANGED <<client, hist, next, lost>>
    BY <1>12 DEF Closes
  <2>2. CASE a = b
    <3>1. /\ bst'[b] = "closed" /\ prime'[b] = <<>>
          /\ \/ lastSeq'[b] = lastSeq[b] /\ events'[b] = events[b]
             \/ lastSeq'[b] = Null /\ events'[b] = <<>>
      BY <1>12, <2>2, CloseEffect
    <3> QED
      BY <1>1, <2>1, <3>1, CoversClosed
  <2>3. CASE a # b
    <3>1. /\ bst'[b] = bst[b] /\ ep'[b] = ep[b] /\ prime'[b] = prime[b] /\ rx'[b] = rx[b]
          /\ lastSeq'[b] = lastSeq[b] /\ events'[b] = events[b] /\ lost'[b] = lost[b]
      BY <1>12, <2>1, <2>3, CloseEffect
    <3> QED
      BY <1>1, <2>1, <3>1, CoversStill
  <2> QED
    BY <2>2, <2>3
<1> QED
  BY <1>4, <1>5, <1>6, <1>7, <1>8, <1>9, <1>10, <1>11, <1>12, StepEffect

-----------------------------------------------------------------------------
(* The copies of events *)

\* What b received, is sent or holds after a step, it had before, or the
\* history had it.
LEMMA PageCopies ==
  ASSUME NEW b \in Browsers, NEW x,
         events'[b] = events[b] \/ events'[b] = <<>>,
         prime'[b] = prime[b] \/ prime'[b] = <<>>,
         rx'[b] = rx[b] \/ rx'[b] = <<>>,
         OnPage(b, x)'
  PROVE  OnPage(b, x)
<1>1. Len(<<>>) = 0
  OBVIOUS
<1> QED
  BY <1>1 DEF OnPage

\* Receiving an envelope makes no copy.
LEMMA ReceivedCopies ==
  ASSUME TypeOK, NEW b \in Browsers, NEW f \in Envelopes, Received(b, f),
         NEW x, OnPage(b, x)'
  PROVE  OnPage(b, x)
<1>1. PICK P, Q, R, S, V, W : /\ P = prime[b] /\ Q = prime'[b] /\ R = rx[b] /\ S = rx'[b]
                              /\ V = events[b] /\ W = events'[b]
  OBVIOUS
<1>2. P \in Seq(Envelopes) /\ R \in Seq(Envelopes) /\ V \in Seq(Envelopes)
  BY <1>1, BrowserTypes
<1>3. Follows(W, V, f)
  BY <1>1, <1>2, TakenShape DEF Received
<1>4. Has(W, x) => Has(V, x) \/ x = f
  BY <1>3 DEF Has, Follows
<1>5. \/ P # <<>> /\ f = Head(P) /\ Q = Tail(P) /\ S = R
      \/ Q = <<>> /\ R # <<>> /\ f = Head(R) /\ S = Tail(R)
  BY <1>1 DEF Received
<1>6. Has(<<>>, x) => FALSE
  BY DEF Has
<1>7. ASSUME NEW q \in Seq(Envelopes), q # <<>>
      PROVE  Has(q, Head(q)) /\ (Has(Tail(q), x) => Has(q, x))
  <2>1. PICK t : t = Tail(q)
    OBVIOUS
  <2>2. 1 \in 1 .. Len(q) /\ Head(q) = q[1] /\ \A i \in 1 .. Len(t) : i + 1 \in 1 .. Len(q) /\ t[i] = q[i + 1]
    BY <1>7, <2>1, QueueTaken
  <2> QED
    BY <2>1, <2>2 DEF Has
<1>8. /\ Has(Q, x) => Has(P, x)
      /\ Has(S, x) => Has(R, x)
      /\ Has(P, f) \/ Has(R, f)
  BY <1>2, <1>5, <1>6, <1>7
<1>9. Has(Q, x) \/ Has(S, x) \/ Has(W, x)
  BY <1>1 DEF OnPage, Has
<1>10. Has(P, x) \/ Has(R, x) \/ Has(V, x)
  BY <1>4, <1>8, <1>9
<1> QED
  BY <1>1, <1>10 DEF OnPage, Has

\* attach() sends copies of what the history has.
LEMMA AttachCopies ==
  ASSUME TypeOK, HistorySeqs, NEW b \in Browsers, Attach(b),
         NEW x, x.ev # Hello, OnPage(b, x)'
  PROVE  OnPage(b, x) \/ InHistory(x)
<1>1. PICK k \in 1 .. (Len(hist) + 1) :
        /\ Len(prime'[b]) = Len(hist) - k + 2
        /\ \A i \in 1 .. (Len(hist) - k + 1) : prime'[b][i] = Envelope(hist[k + i - 1])
        /\ prime'[b][Len(hist) - k + 2] = HelloEnvelope(LatestSeq)
  BY PrimedShape
<1>2. rx'[b] = <<>> /\ events' = events
  BY AttachEffect
<1>3. PICK n : n = Len(hist)
  OBVIOUS
<1>4. n \in Nat
  BY <1>3, LenProperties DEF TypeOK, ClientTypeOK
<1>5. ASSUME NEW i \in 1 .. Len(prime'[b]), x = prime'[b][i] PROVE InHistory(x)
  <2>1. i \in 1 .. (n - k + 2)
    BY <1>1, <1>3, <1>5
  <2>2. i # n - k + 2
    BY <1>1, <1>3, <1>5 DEF HelloEnvelope
  <2>3. i \in 1 .. (n - k + 1)
    BY <1>1, <1>3, <1>4, <2>1, <2>2
  <2>4. k + i - 1 \in 1 .. n /\ x = Envelope(hist[k + i - 1])
    BY <1>1, <1>3, <1>4, <1>5, <2>3
  <2> QED
    BY <1>3, <2>4 DEF InHistory
<1> QED
  BY <1>2, <1>5 DEF OnPage

\* No step but a publication and a new client's seeding makes a copy.
LEMMA NoNewCopies ==
  ASSUME TypeOK, HistorySeqs,
         \/ Quiet \/ Restart \/ RemoveSession
         \/ \E b \in Browsers : Attach(b) \/ Receive(b) \/ Closes(b),
         NEW x, IsCopy(x)'
  PROVE  IsCopy(x)
<1>1. x.ev # Hello /\ (InHistory(x)' \/ \E b \in Browsers : OnPage(b, x)')
  BY DEF IsCopy
<1>2. CASE Quiet
  BY <1>1, <1>2 DEF Quiet, IsCopy, InHistory, OnPage, Envelope
<1>3. CASE Restart \/ RemoveSession
  <2>1. hist' = <<>>
    BY <1>3 DEF Restart, RemoveSession
  <2>2. ~ InHistory(x)'
    BY <2>1 DEF InHistory
  <2>3. PICK b \in Browsers : OnPage(b, x)'
    BY <1>1, <2>2
  <2>4. /\ events'[b] = events[b] \/ events'[b] = <<>>
        /\ prime'[b] = prime[b] \/ prime'[b] = <<>>
        /\ rx'[b] = rx[b] \/ rx'[b] = <<>>
    BY <1>3, <2>3 DEF Restart, RemoveSession, wsVars, pageVars
  <2> QED
    BY <1>1, <2>3, <2>4, PageCopies DEF IsCopy
<1>4. ASSUME NEW a \in Browsers, Attach(a) \/ Receive(a) \/ Closes(a) PROVE IsCopy(x)
  <2>1. UNCHANGED <<hist, client>>
    BY <1>4 DEF Attach, Receive, Closes, clientVars
  <2>2. InHistory(x)' => InHistory(x)
    BY <2>1 DEF InHistory, Envelope
  <2>3. ASSUME NEW b \in Browsers, OnPage(b, x)', b # a PROVE OnPage(b, x)
    <3>1. events'[b] = events[b] /\ prime'[b] = prime[b] /\ rx'[b] = rx[b]
      BY <1>4, <2>3, AttachEffect, ReceiveEffect, CloseEffect
    <3> QED
      BY <2>3, <3>1, PageCopies
  <2>4. ASSUME OnPage(a, x)' PROVE OnPage(a, x) \/ InHistory(x)
    <3>1. CASE Attach(a)
      BY <1>1, <2>4, <3>1, AttachCopies
    <3>2. CASE Receive(a)
      <4>1. PICK f \in Envelopes : Received(a, f)
        BY <3>2, ReceiveEffect
      <4> QED
        BY <2>4, <4>1, ReceivedCopies
    <3>3. CASE Closes(a)
      <4>1. /\ events'[a] = events[a] \/ events'[a] = <<>>
            /\ prime'[a] = <<>> /\ rx'[a] = <<>>
        BY <3>3, CloseEffect
      <4> QED
        BY <2>4, <4>1, PageCopies
    <3> QED
      BY <1>4, <3>1, <3>2, <3>3
  <2> QED
    BY <1>1, <2>2, <2>3, <2>4 DEF IsCopy
<1> QED
  BY <1>2, <1>3, <1>4

\* A publication makes copies of one event.
LEMMA PublishedCopies ==
  ASSUME TypeOK, NEW e \in AnyEvent, client # 0, Publish(e), UNCHANGED <<client, prime, events>>,
         NEW x, IsCopy(x)'
  PROVE  IsCopy(x) \/ x = [seq |-> next, ev |-> e, by |-> client]
<1>1. PICK f : f = [seq |-> next, ev |-> e, by |-> client]
  OBVIOUS
<1>2. x.ev # Hello /\ (InHistory(x)' \/ \E b \in Browsers : OnPage(b, x)')
  BY DEF IsCopy
<1>3. ASSUME InHistory(x)' PROVE InHistory(x) \/ x = f
  <2>1. PICK d \in 0 .. Len(hist) : AddedTo(hist', hist, d, [seq |-> next, ev |-> e])
    BY PublishShape DEF TypeOK
  <2>2. PICK h, n : h = hist' /\ n = Len(hist)
    OBVIOUS
  <2>3. n \in Nat /\ d \in 0 .. n
    BY <2>1, <2>2, LenProperties DEF TypeOK, ClientTypeOK
  <2>4. /\ Len(h) = n + 1 - d
        /\ \A i \in 1 .. (n - d) : h[i] = hist[i + d]
        /\ h[n + 1 - d] = [seq |-> next, ev |-> e]
    BY <2>1, <2>2 DEF AddedTo
  <2>5. PICK i \in 1 .. Len(h) : x = [seq |-> h[i].seq, ev |-> h[i].ev, by |-> client]
    BY <1>3, <2>2 DEF InHistory, Envelope
  <2>6. CASE i = n + 1 - d
    BY <1>1, <2>4, <2>5, <2>6
  <2>7. CASE i # n + 1 - d
    <3>1. i \in 1 .. (n - d) /\ i + d \in 1 .. n
      BY <2>3, <2>4, <2>5, <2>7
    <3>2. x = Envelope(hist[i + d])
      BY <2>4, <2>5, <3>1 DEF Envelope
    <3> QED
      BY <2>2, <3>1, <3>2 DEF InHistory
  <2> QED
    BY <2>6, <2>7
<1>4. ASSUME NEW b \in Browsers, OnPage(b, x)' PROVE OnPage(b, x) \/ x = f
  <2>1. PICK R, Q : R = rx[b] /\ Q = rx'[b]
    OBVIOUS
  <2>2. R \in Seq(Envelopes)
    BY <2>1, BrowserTypes
  <2>3. Q = R \/ Pushed(Q, R, f)
    BY <1>1, <2>1, PublishedTo DEF Pushed, Envelope
  <2>4. ASSUME Pushed(Q, R, f) PROVE Has(Q, x) => Has(R, x) \/ x = f
    <3>1. PICK d \in {0, 1} : AddedTo(Q, R, d, f)
      BY <2>4 DEF Pushed
    <3>2. PICK n : n = Len(R)
      OBVIOUS
    <3>3. n \in Nat
      BY <2>2, <3>2, LenProperties
    <3>4. /\ Len(Q) = n + 1 - d
          /\ \A i \in 1 .. (n - d) : Q[i] = R[i + d]
          /\ Q[n + 1 - d] = f
      BY <3>1, <3>2 DEF AddedTo
    <3>5. ASSUME NEW i \in 1 .. Len(Q), Q[i] = x PROVE Has(R, x) \/ x = f
      <4>1. CASE i = n + 1 - d
        BY <3>4, <3>5, <4>1
      <4>2. CASE i # n + 1 - d
        <5>1. i \in 1 .. (n - d) /\ i + d \in 1 .. n
          BY <3>1, <3>3, <3>4, <3>5, <4>2
        <5> QED
          BY <3>2, <3>4, <3>5, <5>1 DEF Has
      <4> QED
        BY <4>1, <4>2
    <3> QED
      BY <3>5 DEF Has
  <2>5. Has(Q, x) => Has(R, x) \/ x = f
    BY <2>3, <2>4
  <2> QED
    BY <1>4, <2>1, <2>5 DEF OnPage, Has
<1> QED
  BY <1>1, <1>2, <1>3, <1>4 DEF IsCopy

\* A new client's history copies the daemon's lines, numbered as they were.
LEMMA ConnectedCopies ==
  ASSUME TypeOK, Connected, NEW x, IsCopy(x)'
  PROVE  \/ IsCopy(x) /\ \E b \in Browsers : OnPage(b, x)
         \/ /\ x.by = client' /\ x.seq \in 1 .. Len(ring)
            /\ x.ev = ring[x.seq] /\ x.ev \in 1 .. MaxOut
<1>1. x.ev # Hello /\ (InHistory(x)' \/ \E b \in Browsers : OnPage(b, x)')
  BY DEF IsCopy
<1>2. ASSUME NEW b \in Browsers, OnPage(b, x)' PROVE OnPage(b, x)
  <2>1. events'[b] = events[b] /\ prime'[b] = prime[b] /\ rx'[b] = rx[b]
    BY DEF Connected, pageVars
  <2> QED
    BY <1>2, <2>1, PageCopies
<1>3. ASSUME InHistory(x)'
      PROVE  /\ x.by = client' /\ x.seq \in 1 .. Len(ring)
             /\ x.ev = ring[x.seq] /\ x.ev \in 1 .. MaxOut
  <2>1. \A i \in 1 .. Len(hist') : /\ hist'[i].seq \in 1 .. Len(ring)
                                   /\ hist'[i].ev = ring[hist'[i].seq]
    BY HistoryConnected
  <2>2. PICK h, c : h = hist' /\ c = client'
    OBVIOUS
  <2>3. PICK i \in 1 .. Len(h) : x = [seq |-> h[i].seq, ev |-> h[i].ev, by |-> c]
    BY <1>3, <2>2 DEF InHistory, Envelope
  <2>4. ring \in Seq(1 .. MaxOut)
    BY DEF TypeOK, DaemonTypeOK
  <2>5. \A j \in 1 .. Len(ring) : ring[j] \in 1 .. MaxOut
    BY <2>4, ElementOfSeq
  <2> QED
    BY <2>1, <2>2, <2>3, <2>5
<1> QED
  BY <1>1, <1>2, <1>3 DEF IsCopy

\* What a step makes of the copies.
LEMMA CopiesStep ==
  ASSUME TypeOK, HistorySeqs, ClientsInOrder, ResumerWaits, StreamAct, NEW x, IsCopy(x)'
  PROVE  \/ /\ IsCopy(x)
            /\ UNCHANGED <<client, replays, next, injected>>
         \/ /\ IsCopy(x)
            /\ client' = 0 /\ conn' = "none"
            /\ UNCHANGED <<replays, injected>>
         \/ /\ Connected
            /\ \/ IsCopy(x)
               \/ x.by = client' /\ x.seq \in 1 .. Len(ring) /\ x.ev \in 1 .. MaxOut
         \/ \E e \in AnyEvent :
              /\ client # 0 /\ next' = next + 1 /\ UNCHANGED <<client, replays>>
              /\ \/ IsCopy(x)
                 \/ x = [seq |-> next, ev |-> e, by |-> client]
              /\ \/ ReadEvent /\ e = Head(dq) /\ UNCHANGED injected
                 \/ /\ Inject(e) /\ e \in Injectable /\ e \notin injected
                    /\ injected' = injected \cup {e}
<1>1. CASE Quiet \/ \E b \in Browsers : Attach(b) \/ Receive(b) \/ Closes(b)
  <2>1. IsCopy(x)
    BY <1>1, NoNewCopies
  <2>2. UNCHANGED <<client, replays, next, injected>>
    BY <1>1 DEF Quiet, Attach, Receive, Closes, clientVars
  <2> QED
    BY <2>1, <2>2
<1>2. CASE Restart \/ RemoveSession
  <2>1. IsCopy(x)
    BY <1>2, NoNewCopies
  <2>2. client' = 0 /\ conn' = "none" /\ UNCHANGED <<replays, injected>>
    BY <1>2 DEF Restart, RemoveSession
  <2> QED
    BY <2>1, <2>2
<1>3. CASE Connected
  BY <1>3, ConnectedCopies
<1>4. CASE ReadEvent
  <2>1. Head(dq) \in AnyEvent /\ Publish(Head(dq)) /\ client # 0
    BY <1>4, LineTaken DEF ReadEvent, TypeOK, ClientsInOrder
  <2>2. UNCHANGED <<client, replays, injected, prime, events>>
    BY <1>4 DEF ReadEvent, pageVars
  <2>3. next' = next + 1
    BY <2>1 DEF Publish
  <2>4. IsCopy(x) \/ x = [seq |-> next, ev |-> Head(dq), by |-> client]
    BY <2>1, <2>2, PublishedCopies
  <2> QED
    BY <1>4, <2>1, <2>2, <2>3, <2>4
<1>5. ASSUME NEW e \in Injectable, Inject(e)
      PROVE  \E d \in AnyEvent :
              /\ client # 0 /\ next' = next + 1 /\ UNCHANGED <<client, replays>>
              /\ IsCopy(x) \/ x = [seq |-> next, ev |-> d, by |-> client]
              /\ \/ ReadEvent /\ d = Head(dq) /\ UNCHANGED injected
                 \/ /\ Inject(d) /\ d \in Injectable /\ d \notin injected
                    /\ injected' = injected \cup {d}
  <2>1. e \in AnyEvent
    BY DaemonAssumption DEF Injectable, AnyEvent, DaemonAssumption
  <2>2. /\ Publish(e) /\ client # 0 /\ e \notin injected
        /\ injected' = injected \cup {e}
    BY <1>5 DEF Inject
  <2>3. UNCHANGED <<client, replays, prime, events>>
    BY <1>5 DEF Inject, pageVars
  <2>4. next' = next + 1
    BY <2>2 DEF Publish
  <2>5. IsCopy(x) \/ x = [seq |-> next, ev |-> e, by |-> client]
    BY <2>1, <2>2, <2>3, PublishedCopies
  <2> QED
    BY <1>5, <2>1, <2>2, <2>3, <2>4, <2>5
<1> QED
  BY <1>1, <1>2, <1>3, <1>4, <1>5, StepEffect

LEMMA KnownStep ==
  ASSUME TypeOK, HistorySeqs, ClientsInOrder, ResumerWaits, CopiesKnown, StreamAct
  PROVE  CopiesKnown'
<1>1. SUFFICES ASSUME NEW x \in Envelopes, IsCopy(x)'
               PROVE  /\ x.by <= Len(replays')
                      /\ x.by = client' => x.seq < next'
                      /\ x.ev > MaxOut => x.ev \in injected'
  BY DEF CopiesKnown
<1>2. IsCopy(x) => /\ x.by <= Len(replays)
                   /\ x.by = client => x.seq < next
                   /\ x.ev > MaxOut => x.ev \in injected
  BY <1>1 DEF CopiesKnown
<1>3. /\ client \in {0, Len(replays)} /\ Len(replays) \in Nat /\ next \in Nat
      /\ x.by \in Nat \ {0} /\ x.seq \in Nat /\ MaxOut \in Nat
  BY LenProperties, DaemonAssumption
     DEF ClientsInOrder, TypeOK, ClientTypeOK, Envelopes, DaemonAssumption
<1>4. CASE IsCopy(x) /\ UNCHANGED <<client, replays, next, injected>>
  BY <1>2, <1>4
<1>5. CASE IsCopy(x) /\ client' = 0 /\ UNCHANGED <<replays, injected>>
  BY <1>2, <1>3, <1>5
<1>6. CASE /\ Connected
           /\ \/ IsCopy(x)
              \/ x.by = client' /\ x.seq \in 1 .. Len(ring) /\ x.ev \in 1 .. MaxOut
  <2>1. PICK c, n, r : c = client' /\ n = next' /\ r = replays'
    OBVIOUS
  <2>2. PICK m : m = Len(ring)
    OBVIOUS
  <2>3. m \in Nat
    BY <2>2, LenProperties DEF TypeOK, DaemonTypeOK
  <2>4. r = Append(replays, m) /\ c = Len(replays) + 1 /\ n = m + 1 /\ injected' = injected
    BY <1>6, <2>1, <2>2 DEF Connected
  <2>5. Len(r) = Len(replays) + 1
    BY <2>3, <2>4, AppendProperties DEF TypeOK, ClientTypeOK
  <2>6. /\ x.by <= Len(r)
        /\ x.by = c => x.seq < n
        /\ x.ev > MaxOut => x.ev \in injected
    BY <1>2, <1>3, <1>6, <2>1, <2>2, <2>3, <2>4, <2>5
  <2> QED
    BY <2>1, <2>4, <2>6
<1>7. ASSUME NEW e \in AnyEvent,
             client # 0, next' = next + 1, UNCHANGED <<client, replays>>,
             IsCopy(x) \/ x = [seq |-> next, ev |-> e, by |-> client],
             \/ ReadEvent /\ e = Head(dq) /\ UNCHANGED injected
             \/ e \in Injectable /\ injected' = injected \cup {e}
      PROVE  /\ x.by <= Len(replays')
             /\ x.by = client' => x.seq < next'
             /\ x.ev > MaxOut => x.ev \in injected'
  <2>1. x.by <= Len(replays') /\ (x.by = client' => x.seq < next')
    BY <1>2, <1>3, <1>7
  <2>2. injected \subseteq injected'
    BY <1>7
  <2>3. e > MaxOut => e \in injected'
    <3>1. ReadEvent /\ e = Head(dq) => e \in 1 .. MaxOut
      BY LineTaken DEF ReadEvent, TypeOK
    <3> QED
      BY <1>3, <1>7, <3>1
  <2>4. x.ev > MaxOut => x.ev \in injected'
    BY <1>2, <1>7, <2>2, <2>3
  <2> QED
    BY <2>1, <2>4
<1> QED
  BY <1>1, <1>4, <1>5, <1>6, <1>7, CopiesStep

\* What a live connection still gets after a step.
LEMMA LiveStep ==
  ASSUME StreamAct, conn' = "live"
  PROVE  \/ Connected
         \/ ReadEvent
         \/ conn = "live" /\ (PtyRead \/ PtyBroadcast \/ ChildExit \/ UNCHANGED <<out, unsent, dq>>)
<1>1. CASE UNCHANGED vars
  BY <1>1 DEF vars, daemonVars
<1>2. CASE DaemonStep
  <2>1. CASE DaemonGone
    BY <2>1 DEF DaemonGone
  <2>2. CASE PtyRead \/ PtyBroadcast \/ ChildExit
    BY <2>2 DEF PtyRead, PtyBroadcast, ChildExit
  <2> QED
    BY <1>2, <2>1, <2>2 DEF DaemonStep
<1>3. CASE \E who \in Browsers \cup {Nobody} : Resume(who)
  BY <1>3 DEF Resume, Accept
<1>4. CASE ResumeFailed \/ ReadExit \/ Restart \/ RemoveSession
  BY <1>4 DEF ResumeFailed, ReadExit, Restart, RemoveSession
<1>5. CASE ReadEof \/ \E e \in Injectable : Inject(e)
  BY <1>5 DEF ReadEof, Inject, daemonVars
<1>6. CASE \E b \in Browsers : Upgrade(b) \/ Attach(b) \/ Receive(b) \/ Drop(b)
                               \/ Reload(b) \/ AttachFails(b)
  BY <1>6 DEF Upgrade, Attach, Receive, Drop, Reload, AttachFails, daemonVars
<1> QED
  BY <1>1, <1>2, <1>3, <1>4, <1>5, <1>6 DEF StreamAct, Next

LEMMA PrecedeStep ==
  ASSUME TypeOK, HistorySeqs, ClientsInOrder, ResumerWaits, LinesInOrder,
         CopiesKnown, CopiesPrecede, StreamAct
  PROVE  CopiesPrecede'
<1>1. SUFFICES ASSUME conn' = "live", NEW x \in Envelopes, IsCopy(x)', x.by = client',
                      x.ev <= MaxOut, x.seq > replays'[client']
               PROVE  Awaited(x.ev)'
  BY DEF CopiesPrecede, Awaited
<1>2. /\ client \in {0, Len(replays)} /\ Len(replays) \in Nat /\ replays \in Seq(Nat)
      /\ x.by \in Nat \ {0} /\ x.seq \in Nat /\ MaxOut \in Nat
      /\ DaemonTypeOK
  BY LenProperties, DaemonAssumption
     DEF ClientsInOrder, TypeOK, ClientTypeOK, Envelopes, DaemonAssumption
<1>3. x.ev \in Nat
  BY <1>2, ChatAssumption DEF Envelopes, AnyEvent, Hello, ChatAssumption
<1>4. ~ Connected
  <2>1. SUFFICES ASSUME Connected PROVE FALSE
    OBVIOUS
  <2>2. PICK c, r, m : c = client' /\ r = replays' /\ m = Len(ring)
    OBVIOUS
  <2>3. m \in Nat
    BY <2>2, LenProperties DEF TypeOK, DaemonTypeOK
  <2>4. r = Append(replays, m) /\ c = Len(replays) + 1
    BY <2>1, <2>2 DEF Connected
  <2>5. r[c] = m
    BY <1>2, <2>3, <2>4, AppendProperties
  <2>6. IsCopy(x) \/ x.seq \in 1 .. m
    BY <1>1, <2>1, <2>2, ConnectedCopies
  <2>7. ~ IsCopy(x)
    BY <1>1, <1>2, <2>2, <2>4 DEF CopiesKnown
  <2> QED
    BY <1>1, <1>2, <2>2, <2>3, <2>5, <2>6, <2>7
<1>5. \/ ReadEvent
      \/ conn = "live" /\ (PtyRead \/ PtyBroadcast \/ ChildExit \/ UNCHANGED <<out, unsent, dq>>)
  BY <1>1, <1>4, LiveStep
<1>6. conn = "live"
  BY <1>5 DEF ReadEvent
<1>7. client' = client /\ replays' = replays
  BY <1>1, <1>4, CopiesStep
<1>8. CASE IsCopy(x)
  <2>1. Awaited(x.ev)
    BY <1>1, <1>6, <1>7, <1>8 DEF CopiesPrecede, Awaited
  <2> QED
    BY <1>2, <1>3, <2>1, AwaitedKept, StreamMoves
<1>9. CASE ~ IsCopy(x)
  <2>1. PICK e \in AnyEvent :
          /\ x = [seq |-> next, ev |-> e, by |-> client]
          /\ \/ ReadEvent /\ e = Head(dq)
             \/ e \in Injectable
    BY <1>1, <1>4, <1>9, CopiesStep
  <2>2. x.ev = e /\ e \notin Injectable
    BY <1>1, <1>2, <2>1 DEF Injectable
  <2>3. ItemTaken
    BY <2>1, <2>2 DEF ReadEvent, ItemTaken
  <2> QED
    BY <1>2, <2>1, <2>2, <2>3, LineAwaited
<1> QED
  BY <1>8, <1>9

LEMMA OnceStep ==
  ASSUME TypeOK, HistorySeqs, ClientsInOrder, ResumerWaits, LinesInOrder,
         CopiesKnown, CopiesPrecede, NumberedOnce, StreamAct
  PROVE  NumberedOnce'
<1>1. SUFFICES ASSUME NEW x \in Envelopes, NEW y \in Envelopes, IsCopy(x)', IsCopy(y)',
                      x.by = y.by, x.ev = y.ev, x.seq < y.seq
               PROVE  x.seq <= replays'[x.by]
  BY DEF NumberedOnce
<1>2. /\ client \in {0, Len(replays)} /\ Len(replays) \in Nat /\ replays \in Seq(Nat)
      /\ x.by \in Nat \ {0} /\ x.seq \in Nat /\ y.seq \in Nat /\ MaxOut \in Nat
      /\ next \in Nat /\ DaemonTypeOK
  BY LenProperties, DaemonAssumption
     DEF ClientsInOrder, TypeOK, ClientTypeOK, Envelopes, DaemonAssumption
<1>3. IsCopy(x) /\ IsCopy(y) => x.seq <= replays[x.by]
  BY <1>1 DEF NumberedOnce
<1>4. /\ IsCopy(x) => x.by <= Len(replays) /\ (x.by = client => x.seq < next)
                      /\ (x.ev > MaxOut => x.ev \in injected)
      /\ IsCopy(y) => y.by <= Len(replays) /\ (y.by = client => y.seq < next)
                      /\ (y.ev > MaxOut => y.ev \in injected)
  BY DEF CopiesKnown
<1>5. CASE Connected
  <2>1. PICK c, r, m : c = client' /\ r = replays' /\ m = Len(ring)
    OBVIOUS
  <2>2. m \in Nat
    BY <2>1, LenProperties DEF TypeOK, DaemonTypeOK
  <2>3. r = Append(replays, m) /\ c = Len(replays) + 1
    BY <1>5, <2>1 DEF Connected
  <2>4. r[c] = m /\ \A i \in 1 .. Len(replays) : r[i] = replays[i]
    BY <1>2, <2>2, <2>3, AppendProperties
  <2>5. /\ IsCopy(x) \/ (x.by = c /\ x.seq \in 1 .. m)
        /\ IsCopy(y) \/ (y.by = c /\ y.seq \in 1 .. m)
    BY <1>1, <1>5, <2>1, ConnectedCopies
  <2>6. CASE x.by = c
    <3>1. ~ IsCopy(x)
      BY <1>2, <1>4, <2>3, <2>6
    <3> QED
      BY <2>1, <2>4, <2>5, <2>6, <3>1
  <2>7. CASE x.by # c
    <3>1. IsCopy(x) /\ IsCopy(y)
      BY <1>1, <2>5, <2>7
    <3>2. x.by \in 1 .. Len(replays)
      BY <1>2, <1>4, <3>1
    <3> QED
      BY <1>3, <2>1, <2>4, <3>1, <3>2
  <2> QED
    BY <2>6, <2>7
<1>6. CASE ~ Connected
  <2>1. replays' = replays
    BY <1>1, <1>6, CopiesStep
  <2>2. CASE IsCopy(x) /\ IsCopy(y)
    BY <1>3, <2>1, <2>2
  <2>3. CASE ~ IsCopy(x)
    <3>1. PICK e \in AnyEvent :
            /\ client' = client /\ next' = next + 1
            /\ x = [seq |-> next, ev |-> e, by |-> client]
      BY <1>1, <1>6, <2>3, CopiesStep
    <3>2. \/ IsCopy(y)
          \/ \E d \in AnyEvent : y = [seq |-> next, ev |-> d, by |-> client]
      BY <1>1, <1>6, <1>2, <3>1, CopiesStep
    <3>3. y.seq <= next
      BY <1>1, <1>2, <1>4, <3>1, <3>2
    <3> QED
      BY <1>1, <1>2, <3>1, <3>3
  <2>4. CASE IsCopy(x) /\ ~ IsCopy(y)
    <3>1. PICK e \in AnyEvent :
            /\ client # 0
            /\ y = [seq |-> next, ev |-> e, by |-> client]
            /\ \/ ReadEvent /\ e = Head(dq)
               \/ e \in Injectable /\ e \notin injected
      BY <1>1, <1>6, <2>4, CopiesStep
    <3>2. x.by = client /\ x.ev = e /\ e \in Nat
      BY <1>1, <1>2, <3>1, ChatAssumption DEF AnyEvent, ChatAssumption
    <3>3. replays[client] \in Nat
      <4>1. client \in 1 .. Len(replays)
        BY <1>2, <3>1
      <4> QED
        BY <1>2, <4>1, ElementOfSeq
    <3>4. CASE ReadEvent /\ e = Head(dq)
      <4>1. e \in 1 .. MaxOut /\ conn = "live"
        BY <1>2, <3>4, LineTaken DEF ReadEvent
      <4>2. 1 \in 1 .. Len(dq) /\ dq[1] = e /\ e # Exit
        BY <1>2, <3>4, QueueTaken DEF ReadEvent, DaemonTypeOK
      <4>3. ~ (x.seq > replays[client])
        BY <2>4, <3>2, <4>1, <4>2, <1>2 DEF CopiesPrecede
      <4> QED
        BY <1>2, <2>1, <3>2, <3>3, <4>3
    <3>5. CASE e \in Injectable /\ e \notin injected
      BY <1>2, <1>4, <2>4, <3>2, <3>5, ChatAssumption DEF Injectable, ChatAssumption
    <3> QED
      BY <3>1, <3>4, <3>5
  <2> QED
    BY <2>2, <2>3, <2>4
<1> QED
  BY <1>5, <1>6

-----------------------------------------------------------------------------
(* The theorems *)

\* At the start nothing is on its way and no page holds anything.
LEMMA StreamStarts == Init => StreamIInv
<1>1. SUFFICES ASSUME Init PROVE StreamIInv
  OBVIOUS
<1>2. TypeOK /\ HistorySeqs /\ LinesInOrder /\ ResumerWaits
  BY <1>1, StreamInitially
<1>3. /\ client = 0 /\ replays = <<>> /\ hist = <<>> /\ conn = "none" /\ next = 1
      /\ \A b \in Browsers : /\ bst[b] = "closed" /\ ep[b] = 0 /\ prime[b] = <<>>
                             /\ rx[b] = <<>> /\ events[b] = <<>> /\ lastSeq[b] = Null
  BY <1>1 DEF Init, DaemonInit
<1>4. Len(<<>>) = 0
  OBVIOUS
<1>5. ClientsInOrder
  BY <1>3, <1>4 DEF ClientsInOrder
<1>6. ASSUME NEW b \in Browsers PROVE Streams(b) /\ Covers(b)
  <2>1. Streams(b)
    BY <1>3, <1>4, <1>6 DEF Streams, PrimeInOrder, LiveInOrder, PageInOrder
  <2>2. Covers(b)
    BY <1>3, <1>4, <1>6 DEF Covers, Null
  <2> QED
    BY <2>1, <2>2
<1>7. \A x : ~ IsCopy(x)
  <2>1. \A x : ~ InHistory(x)
    BY <1>3, <1>4 DEF InHistory
  <2>2. \A x : \A b \in Browsers : ~ OnPage(b, x)
    BY <1>3, <1>4 DEF OnPage
  <2> QED
    BY <2>1, <2>2 DEF IsCopy
<1>8. CopiesKnown /\ CopiesPrecede /\ NumberedOnce
  BY <1>7 DEF CopiesKnown, CopiesPrecede, NumberedOnce
<1> QED
  BY <1>2, <1>5, <1>6, <1>8 DEF StreamIInv

\* The chat stream's inductive invariant holds whatever the daemon, the
\* server, the tools and the pages do.
THEOREM StreamCorrect == AskSpec => []StreamIInv
<1>1. AskInit => StreamIInv
  BY StreamStarts DEF AskInit
<1>2. StreamIInv /\ [AskNext]_allVars => StreamIInv'
  <2>1. SUFFICES ASSUME StreamIInv, [AskNext]_allVars PROVE StreamIInv'
    OBVIOUS
  <2>2. StreamAct
    BY <2>1, AskStepIsStreamAct
  <2>3. /\ TypeOK /\ HistorySeqs /\ LinesInOrder /\ ClientsInOrder /\ ResumerWaits
        /\ \A b \in Browsers : Streams(b)
        /\ \A b \in Browsers : Covers(b)
        /\ CopiesKnown /\ CopiesPrecede /\ NumberedOnce
    BY <2>1 DEF StreamIInv
  <2>4. \A b \in Browsers : LiveInOrder(b)
    BY <2>3 DEF Streams
  <2>5. TypeOK'
    BY <2>2, <2>3, <2>4, TypeStep
  <2>6. HistorySeqs' /\ LinesInOrder' /\ ClientsInOrder' /\ ResumerWaits'
    BY <2>2, <2>3, HistoryStep, LinesStep, ClientsStep, ResumerStep
  <2>7. \A b \in Browsers : Streams(b)'
    BY <2>2, <2>3, StreamsStep
  <2>8. \A b \in Browsers : Covers(b)'
    BY <2>2, <2>3, <2>5, CoversStep
  <2>9. CopiesKnown' /\ CopiesPrecede' /\ NumberedOnce'
    BY <2>2, <2>3, KnownStep, PrecedeStep, OnceStep
  <2> QED
    BY <2>5, <2>6, <2>7, <2>8, <2>9 DEF StreamIInv
<1> QED
  BY <1>1, <1>2, PTL DEF AskSpec

\* A page never goes back: its events are in the order in which they happened,
\* from client to client and within each by seq.
THEOREM OrderCorrect == AskSpec => []EventsInOrder
<1>1. StreamIInv => EventsInOrder
  BY DEF StreamIInv, Streams, PageInOrder, Before, EventsInOrder
<1> QED
  BY <1>1, StreamCorrect, PTL

\* A client gives a page the same event twice only where its handshake was
\* seeded with it and it came live as well.
THEOREM RepeatsCorrect == AskSpec => []RepeatsOnlyReplay
<1>1. StreamIInv => RepeatsOnlyReplay
  <2>1. SUFFICES ASSUME StreamIInv, NEW b \in Browsers,
                        NEW i \in 1 .. Len(events[b]), NEW j \in 1 .. Len(events[b]), i < j,
                        events[b][i].by = events[b][j].by, events[b][i].ev = events[b][j].ev
                 PROVE  events[b][i].seq <= replays[events[b][i].by]
    BY DEF RepeatsOnlyReplay
  <2>2. PICK x, y : x = events[b][i] /\ y = events[b][j]
    OBVIOUS
  <2>3. /\ x \in Envelopes /\ y \in Envelopes /\ x.by \in Nat
    BY <2>1, <2>2, BrowserTypes, EnvelopeFields DEF StreamIInv
  <2>4. Before(x, y) /\ x.ev # Hello /\ y.ev # Hello
    BY <2>1, <2>2 DEF StreamIInv, Streams, PageInOrder
  <2>5. IsCopy(x) /\ IsCopy(y)
    BY <2>2, <2>4 DEF IsCopy, OnPage
  <2>6. x.seq < y.seq
    BY <2>1, <2>2, <2>3, <2>4 DEF Before
  <2>7. NumberedOnce
    BY <2>1 DEF StreamIInv
  <2> QED
    BY <2>1, <2>2, <2>3, <2>5, <2>6, <2>7 DEF NumberedOnce
<1> QED
  BY <1>1, StreamCorrect, PTL

\* A page that got all it holds from the session's client, and waits for
\* nothing, holds all of the history but what its receivers skipped.
THEOREM FreshCorrect == AskSpec => []FreshIsComplete
<1>1. StreamIInv => FreshIsComplete
  <2>1. SUFFICES ASSUME StreamIInv, NEW b \in Browsers, Settled(b), OneClient(b),
                        NEW i \in 1 .. Len(hist)
                 PROVE  hist[i].ev \in Held(b) \cup lost[b]
    BY DEF FreshIsComplete, OneClient, HistoryEvents
  <2>2. RestComes(b)
    BY <2>1, CoversParts DEF StreamIInv
  <2>3. ~ Comes(<<>>, hist[i])
    BY DEF Comes
  <2> QED
    BY <2>1, <2>2, <2>3 DEF RestComes, Settled, Known
<1> QED
  BY <1>1, StreamCorrect, PTL

-----------------------------------------------------------------------------
(* The question tool *)

\* The dialogs are told apart by their events.
LEMMA DialogsDiffer ==
  \A p, q \in Asked : Dialog(p) = Dialog(q) => p = q
BY DaemonAssumption, ChatAssumption DEF Dialog, Asked, DaemonAssumption, ChatAssumption

\* Only the tool injects.
LEMMA StreamInjectsNothing ==
  ASSUME \/ UNCHANGED vars \/ StreamStep \/ Restart \/ RemoveSession
         \/ \E b \in Browsers : Drop(b) \/ Reload(b) \/ AttachFails(b)
  PROVE  injected' = injected
<1>1. CASE UNCHANGED vars \/ DaemonStep \/ Connected \/ ResumeFailed
  BY <1>1 DEF vars, serverVars, clientVars, DaemonStep, Connected, ResumeFailed
<1>2. CASE ReadEvent \/ ReadExit \/ ReadEof \/ Restart \/ RemoveSession
  BY <1>2 DEF ReadEvent, ReadExit, ReadEof, Restart, RemoveSession
<1>3. CASE \E who \in Browsers \cup {Nobody} : Resume(who)
  BY <1>3 DEF Resume, clientVars
<1>4. CASE \E b \in Browsers : Upgrade(b) \/ Attach(b) \/ Receive(b) \/ Drop(b)
                               \/ Reload(b) \/ AttachFails(b)
  BY <1>4 DEF Upgrade, Attach, Receive, Drop, Reload, AttachFails, clientVars
<1> QED
  BY <1>1, <1>2, <1>3, <1>4 DEF StreamStep

\* What a page holds was asked, if it is a dialog.
LEMMA HeldWasAsked ==
  ASSUME StreamIInv, NEW b \in Browsers, NEW q \in Asked, Dialog(q) \in Held(b)
  PROVE  Dialog(q) \in injected
<1>1. PICK i \in 1 .. Len(events[b]) : events[b][i].ev = Dialog(q)
  BY DEF Held
<1>2. events[b][i] \in Envelopes /\ events[b][i].ev # Hello
  BY BrowserTypes, EnvelopeFields DEF StreamIInv, Streams, PageInOrder
<1>3. IsCopy(events[b][i])
  BY <1>2 DEF IsCopy, OnPage
<1>4. Dialog(q) > MaxOut
  BY DaemonAssumption, ChatAssumption DEF Dialog, Asked, DaemonAssumption, ChatAssumption
<1> QED
  BY <1>1, <1>2, <1>3, <1>4 DEF StreamIInv, CopiesKnown

\* The tool's part of AskInv.
ToolTypeOK ==
  /\ present \in BOOLEAN
  /\ tool \in [Asked -> {"idle", "registered", "waiting", "answered", "failed", "dropped"}]
  /\ pending \subseteq Asked
  /\ ticked \in [Browsers -> SUBSET Asked]
  /\ sent \in [Browsers -> SUBSET Asked]
  /\ forwarded \subseteq Asked
ToolOK(q) ==
  /\ tool[q] \in {"registered", "waiting"} => q \in pending
  /\ tool[q] \in {"idle", "registered"} => Dialog(q) \notin injected
  /\ \A b \in Browsers : q \in sent[b] => Dialog(q) \in injected
  /\ q \in forwarded => Dialog(q) \in injected /\ tool[q] \notin {"idle", "registered", "waiting"}

LEMMA ToolParts ==
  ASSUME StreamIInv, ToolTypeOK, \A q \in Asked : ToolOK(q)
  PROVE  AskInv
<1>1. TypeOK /\ HistoryWindow
  BY DEF StreamIInv, HistorySeqs
<1>2. AskTypeOK
  BY <1>1 DEF AskTypeOK, ToolTypeOK
<1>3. /\ \A b \in Browsers : sent[b] \subseteq Asked
      /\ forwarded \subseteq Asked
  BY DEF ToolTypeOK
<1>4. /\ \A q \in Asked : tool[q] \in {"registered", "waiting"} => q \in pending
      /\ \A q \in Asked : tool[q] \in {"idle", "registered"} => Dialog(q) \notin injected
  BY DEF ToolOK
<1>5. \A b \in Browsers : \A q \in sent[b] \cup forwarded : Dialog(q) \in injected
  BY <1>3 DEF ToolOK
<1>6. NoAnswerLost
  BY <1>3 DEF ToolOK, NoAnswerLost
<1> QED
  BY <1>1, <1>2, <1>4, <1>5, <1>6 DEF AskInv

LEMMA ToolTypeStep ==
  ASSUME ToolTypeOK, [AskNext]_allVars
  PROVE  ToolTypeOK'
<1> USE DEF ToolTypeOK
<1>1. CASE UNCHANGED allVars
  BY <1>1 DEF allVars, askVars
<1>2. CASE StreamStep
  BY <1>2 DEF StreamStep, askVars
<1>3. ASSUME NEW q \in Asked, Register(q) \/ Surface(q) \/ HangUp(q) PROVE ToolTypeOK'
  BY <1>3 DEF Register, Surface, HangUp
<1>4. ASSUME NEW b \in Browsers, NEW q \in Asked, Submit(b, q) PROVE ToolTypeOK'
  BY <1>4 DEF Submit
<1>5. ASSUME NEW b \in Browsers, NEW q \in Asked, Answer(b, q) PROVE ToolTypeOK'
  BY <1>5 DEF Answer
<1>6. ASSUME NEW b \in Browsers, AttachFails(b) \/ Cut(b) PROVE ToolTypeOK'
  BY <1>6 DEF AttachFails, Cut, askVars
<1>7. CASE RemoveSession
  BY <1>7 DEF RemoveSession
<1>8. CASE ServerRestart
  BY <1>8 DEF ServerRestart
<1> QED
  BY <1>1, <1>2, <1>3, <1>4, <1>5, <1>6, <1>7, <1>8 DEF AskNext

LEMMA ToolStep ==
  ASSUME StreamIInv, ToolTypeOK, [AskNext]_allVars, NEW q \in Asked, ToolOK(q)
  PROVE  ToolOK(q)'
<1>1. CASE UNCHANGED allVars \/ StreamStep \/ RemoveSession
  <2>1. injected' = injected
    BY <1>1, StreamInjectsNothing DEF allVars
  <2>2. UNCHANGED <<tool, pending, sent, forwarded>>
    BY <1>1 DEF allVars, askVars, StreamStep, RemoveSession
  <2> QED
    BY <2>1, <2>2 DEF ToolOK
<1>2. ASSUME NEW p \in Asked, Register(p) PROVE ToolOK(q)'
  <2>1. injected' = injected
    BY <1>2, StreamInjectsNothing DEF Register
  <2>2. /\ tool[p] = "idle" /\ tool' = [tool EXCEPT ![p] = "registered"]
        /\ pending' = pending \cup {p} /\ UNCHANGED <<sent, forwarded>>
    BY <1>2 DEF Register
  <2> QED
    BY <2>1, <2>2 DEF ToolOK, ToolTypeOK
<1>3. ASSUME NEW p \in Asked, Surface(p) PROVE ToolOK(q)'
  <2>1. CASE Inject(Dialog(p)) /\ tool' = [tool EXCEPT ![p] = "waiting"]
    <3>1. injected' = injected \cup {Dialog(p)}
      BY <2>1 DEF Inject
    <3>2. tool[p] = "registered" /\ UNCHANGED <<pending, sent, forwarded>>
      BY <1>3 DEF Surface, MaySurface
    <3> QED
      BY <2>1, <3>1, <3>2, DialogsDiffer DEF ToolOK, ToolTypeOK
  <2>2. CASE UNCHANGED vars /\ tool' = [tool EXCEPT ![p] = "failed"]
    <3>1. injected' = injected
      BY <2>2, StreamInjectsNothing
    <3>2. tool[p] = "registered" /\ UNCHANGED <<pending, sent, forwarded>>
      BY <1>3 DEF Surface, MaySurface
    <3> QED
      BY <2>2, <3>1, <3>2 DEF ToolOK, ToolTypeOK
  <2> QED
    BY <1>3, <2>1, <2>2 DEF Surface
<1>4. ASSUME NEW p \in Asked, HangUp(p) PROVE ToolOK(q)'
  <2>1. injected' = injected
    BY <1>4, StreamInjectsNothing DEF HangUp
  <2>2. /\ tool[p] \in {"registered", "waiting"} /\ tool' = [tool EXCEPT ![p] = "dropped"]
        /\ UNCHANGED <<pending, sent, forwarded>>
    BY <1>4 DEF HangUp
  <2> QED
    BY <2>1, <2>2 DEF ToolOK, ToolTypeOK
<1>5. ASSUME NEW b \in Browsers, NEW p \in Asked, Submit(b, p) PROVE ToolOK(q)'
  <2>1. injected' = injected
    BY <1>5, StreamInjectsNothing DEF Submit
  <2>2. /\ Dialog(p) \in Held(b) /\ sent' = [sent EXCEPT ![b] = @ \cup {p}]
        /\ UNCHANGED <<tool, pending, forwarded>>
    BY <1>5 DEF Submit
  <2>3. Dialog(p) \in injected
    BY <1>5, <2>2, HeldWasAsked
  <2> QED
    BY <2>1, <2>2, <2>3 DEF ToolOK, ToolTypeOK
<1>6. ASSUME NEW b \in Browsers, NEW p \in Asked, Answer(b, p) PROVE ToolOK(q)'
  <2>1. injected' = injected
    BY <1>6, StreamInjectsNothing DEF Answer
  <2>2. /\ p \in sent[b] /\ sent' = [sent EXCEPT ![b] = @ \ {p}]
        /\ pending' = pending \ {p}
        /\ tool' = IF p \in pending /\ tool[p] \in {"registered", "waiting"}
                   THEN [tool EXCEPT ![p] = "answered"]
                   ELSE tool
        /\ forwarded' = IF p \in pending THEN forwarded ELSE forwarded \cup {p}
    BY <1>6 DEF Answer
  <2>3. CASE p # q
    BY <2>1, <2>2, <2>3 DEF ToolOK, ToolTypeOK
  <2>4. CASE p = q
    <3>1. Dialog(q) \in injected /\ tool[q] \notin {"idle", "registered"}
      BY <2>2, <2>4 DEF ToolOK
    <3> QED
      BY <2>1, <2>2, <2>4, <3>1 DEF ToolOK, ToolTypeOK
  <2> QED
    BY <2>3, <2>4
<1>7. ASSUME NEW b \in Browsers, AttachFails(b) \/ Cut(b) PROVE ToolOK(q)'
  <2>1. injected' = injected
    BY <1>7, StreamInjectsNothing DEF Cut
  <2>2. UNCHANGED <<tool, pending, forwarded>> /\ (sent' = sent \/ sent' = [sent EXCEPT ![b] = {}])
    BY <1>7 DEF AttachFails, Cut, askVars
  <2> QED
    BY <2>1, <2>2 DEF ToolOK, ToolTypeOK
<1>8. CASE ServerRestart
  <2>1. injected' = injected
    BY <1>8, StreamInjectsNothing DEF ServerRestart
  <2>2. /\ tool' = [p \in Asked |->
                      IF tool[p] \in {"registered", "waiting"} THEN "dropped" ELSE tool[p]]
        /\ sent' = [b \in Browsers |-> {}] /\ forwarded' = forwarded
    BY <1>8 DEF ServerRestart
  <2> QED
    BY <2>1, <2>2 DEF ToolOK
<1> QED
  BY <1>1, <1>2, <1>3, <1>4, <1>5, <1>6, <1>7, <1>8 DEF AskNext

\* An answer that reaches the server while the tool waits for it reaches the
\* tool; what a page answers was asked.
THEOREM AskCorrect == AskSpec => []AskInv
<1> DEFINE ToolIInv == ToolTypeOK /\ \A q \in Asked : ToolOK(q)
<1>1. AskInit => ToolIInv
  <2>1. SUFFICES ASSUME AskInit PROVE ToolIInv
    OBVIOUS
  <2>2. ToolTypeOK
    BY <2>1 DEF AskInit, ToolTypeOK
  <2>3. injected = {}
    BY <2>1 DEF AskInit, Init
  <2>4. \A q \in Asked : ToolOK(q)
    BY <2>1, <2>3 DEF AskInit, ToolOK
  <2> QED
    BY <2>2, <2>4
<1>2. ToolIInv /\ StreamIInv /\ [AskNext]_allVars => ToolIInv'
  <2>1. SUFFICES ASSUME ToolIInv, StreamIInv, [AskNext]_allVars PROVE ToolIInv'
    OBVIOUS
  <2>2. ToolTypeOK'
    BY <2>1, ToolTypeStep
  <2>3. \A q \in Asked : ToolOK(q)'
    BY <2>1, ToolStep
  <2> QED
    BY <2>2, <2>3
<1>3. StreamIInv /\ ToolIInv => AskInv
  BY ToolParts
<1> QED
  <2> HIDE DEF ToolIInv
  <2> QED
    BY <1>1, <1>2, <1>3, StreamCorrect, PTL DEF AskSpec
=============================================================================
