---------------------------- MODULE ChatProofs ----------------------------
(***************************************************************************)
(* Theorems about the chat runner and the page of a chat session, for      *)
(* every set of prompts, calls, messages and plans: what the runner owes   *)
(* its questions, its prompts and the messages of the SDK; and that the    *)
(* page shows what the user said, offers Stop while a reply streams, and   *)
(* keeps a draft that was not sent.                                        *)
(*                                                                         *)
(* The folds of the page (the timeline, array.filter) are functions whose  *)
(* values are taken one by one: DeriveSteps, RootSteps and AmongSteps give *)
(* their steps, and the lemmas after them go from step to step by the      *)
(* least counterexample (LeastNat).                                        *)
(***************************************************************************)
EXTENDS Runner, ChatPage, SequenceTheorems, WellFoundedInduction, TLAPS

-----------------------------------------------------------------------------
(* Lists *)

\* The naturals are well ordered: a non-empty set of them has a least element.
LEMMA LeastNat ==
  ASSUME NEW T \in SUBSET Nat, T # {}
  PROVE  \E n \in T : \A m \in T : n <= m
<1> DEFINE R == OpToRel(<, Nat)
<1>1. IsWellFoundedOn(R, Nat)
  BY NatLessThanWellFounded, Zenon
<1>2. \A m, n \in Nat : m < n => <<m, n>> \in R
  BY DEF OpToRel
<1> HIDE DEF R
<1>3. PICK n \in T : \A m \in T : ~ (<<m, n>> \in R)
  BY <1>1, WFMin
<1>4. \A m \in T : ~ (m < n)
  BY <1>2, <1>3
<1> QED
  BY <1>4

Stepping(g, n, V, a, F) ==
  g \in [0 .. n -> V] /\ g[0] = a /\ \A i \in 1 .. n : g[i] = F[<<i, g[i - 1]>>]

\* There is a function that goes from its first value step by step, as F says.
LEMMA StepByStep ==
  ASSUME NEW n \in Nat, NEW V, NEW a \in V, NEW F \in [(1 .. n) \X V -> V]
  PROVE  \E g : Stepping(g, n, V, a, F)
<1> USE DEF Stepping
<1> DEFINE Climbs(g, m) == Stepping(g, m, V, a, F)
           T == {m \in 0 .. n : ~ \E g : Climbs(g, m)}
<1>1. ASSUME T # {} PROVE FALSE
  <2>1. T \in SUBSET Nat
    OBVIOUS
  <2> HIDE DEF T
  <2>2. PICK m \in T : \A k \in T : m <= k
    BY <1>1, <2>1, LeastNat
  <2> USE DEF T
  <2>3. m \in 0 .. n /\ ~ \E g : Climbs(g, m)
    BY <2>2
  <2>4. m # 0
    <3>1. Climbs([i \in 0 .. 0 |-> a], 0)
      OBVIOUS
    <3> QED
      BY <2>3, <3>1
  <2>5. m - 1 \in 0 .. n /\ m - 1 \notin T
    <3> HIDE DEF T
    <3>1. m - 1 \in 0 .. n /\ ~ (m <= m - 1)
      BY <2>3, <2>4
    <3> QED
      BY <2>2, <3>1
  <2>6. PICK g : Climbs(g, m - 1)
    BY <2>5
  <2>7. PICK h : h = [i \in 0 .. m |-> IF i = m THEN F[<<m, g[m - 1]>>] ELSE g[i]]
    OBVIOUS
  <2>8. m \in 1 .. n /\ m - 1 \in 0 .. m - 1 /\ g[m - 1] \in V
    BY <2>3, <2>4, <2>6
  <2>9. F[<<m, g[m - 1]>>] \in V
    BY <2>8
  <2>10. h \in [0 .. m -> V] /\ h[0] = a
    BY <2>4, <2>6, <2>7, <2>8, <2>9
  <2>11. ASSUME NEW i \in 1 .. m PROVE h[i] = F[<<i, h[i - 1]>>]
    <3>1. CASE i = m
      <4> m - 1 \in 0 .. m /\ m - 1 # m /\ m \in 0 .. m
        BY <2>8
      <4> h[m - 1] = g[m - 1] /\ h[m] = F[<<m, g[m - 1]>>]
        BY <2>7
      <4> QED
        BY <3>1
    <3>2. CASE i # m
      BY <2>6, <2>7, <2>8, <3>2
    <3> QED
      BY <3>1, <3>2
  <2>12. Climbs(h, m)
    BY <2>10, <2>11
  <2> QED
    BY <2>3, <2>12
<1>2. n \in 0 .. n
  OBVIOUS
<1> QED
  BY <1>1, <1>2

\* f looks at one entry of s after another.
Filtering(f, E, s, S, n) ==
  /\ f \in [0 .. n -> Seq(E)] /\ f[0] = <<>> /\ f[n] = Among(s, S)
  /\ \A i \in 1 .. n : f[i] = IF s[i] \in S THEN Append(f[i - 1], s[i]) ELSE f[i - 1]

\* What filter keeps: step by step, the entries of the list that lie in the set.
LEMMA AmongSteps ==
  ASSUME NEW E, NEW s \in Seq(E), NEW S, NEW n \in Nat, n = Len(s)
  PROVE  \E f : Filtering(f, E, s, S, n)
<1> DEFINE Kept(f) == f = [i \in 0 .. n |-> IF i = 0 THEN <<>>
                                            ELSE IF s[i] \in S THEN Append(f[i - 1], s[i]) ELSE f[i - 1]]
           F == [p \in (1 .. n) \X Seq(E) |-> IF s[p[1]] \in S THEN Append(p[2], s[p[1]]) ELSE p[2]]
<1>1. \A i \in 1 .. n : s[i] \in E
  BY ElementOfSeq
<1>2. F \in [(1 .. n) \X Seq(E) -> Seq(E)]
  BY <1>1
<1>3. \A i \in 1 .. n, q \in Seq(E) : F[<<i, q>>] = IF s[i] \in S THEN Append(q, s[i]) ELSE q
  OBVIOUS
<1> HIDE DEF F
<1> PICK e \in Seq(E) : e = <<>>
  BY EmptySeq
<1>4. PICK g \in [0 .. n -> Seq(E)] : g[0] = e /\ \A i \in 1 .. n : g[i] = F[<<i, g[i - 1]>>]
  <2> PICK V : V = Seq(E)
    OBVIOUS
  <2>1. e \in V /\ F \in [(1 .. n) \X V -> V]
    BY <1>2
  <2>2. \E g : Stepping(g, n, V, e, F)
    BY <2>1, StepByStep
  <2> QED
    BY <2>2 DEF Stepping
<1>5. ASSUME NEW i \in 1 .. n
      PROVE  g[i] = IF s[i] \in S THEN Append(g[i - 1], s[i]) ELSE g[i - 1]
  <2> i - 1 \in 0 .. n
    OBVIOUS
  <2> g[i - 1] \in Seq(E)
    OBVIOUS
  <2> QED
    BY <1>3, <1>4
<1>6. Kept(g)
  <2>1. \A i \in 0 .. n : i = 0 \/ i \in 1 .. n
    OBVIOUS
  <2>2. ASSUME NEW i \in 0 .. n
        PROVE  g[i] = IF i = 0 THEN <<>>
                      ELSE IF s[i] \in S THEN Append(g[i - 1], s[i]) ELSE g[i - 1]
    BY <1>4, <1>5, <2>1, Zenon
  <2> QED
    BY <2>2, Zenon
<1>7. PICK f : f = CHOOSE h : Kept(h)
  OBVIOUS
<1>8. Kept(f)
  BY <1>6, <1>7
<1>9. Among(s, S) = f[n]
  BY <1>7 DEF Among
<1>10. f[0] = <<>>
  BY <1>8
<1>11. ASSUME NEW i \in 1 .. n
       PROVE  f[i] = IF s[i] \in S THEN Append(f[i - 1], s[i]) ELSE f[i - 1]
  <2> i \in 0 .. n /\ i # 0
    OBVIOUS
  <2> QED
    BY <1>8, Zenon
<1>12. f = [i \in 0 .. n |-> f[i]]
  BY <1>8
<1> HIDE DEF Kept
<1>13. ASSUME NEW i \in 0 .. n PROVE f[i] \in Seq(E)
  <2> DEFINE T == {j \in 0 .. n : f[j] \notin Seq(E)}
  <2>1. ASSUME T # {} PROVE FALSE
    <3>1. T \in SUBSET Nat
      OBVIOUS
    <3> HIDE DEF T
    <3>2. PICK k \in T : \A j \in T : k <= j
      BY <2>1, <3>1, LeastNat
    <3> USE DEF T
    <3>3. k # 0
      BY <1>10, <3>2
    <3>4. k \in 1 .. n /\ k - 1 \in 0 .. n /\ k - 1 \notin T
      BY <3>2, <3>3
    <3>5. f[k - 1] \in Seq(E) /\ s[k] \in E
      BY <1>1, <3>4
    <3>6. f[k] \in Seq(E)
      <4> Append(f[k - 1], s[k]) \in Seq(E)
        BY <3>5, AppendProperties
      <4> QED
        BY <1>11, <3>4, <3>5
    <3> QED
      BY <3>2, <3>6
  <2> QED
    BY <2>1
<1>14. f \in [0 .. n -> Seq(E)]
  BY <1>12, <1>13
<1> QED
  BY <1>9, <1>10, <1>11, <1>14, Zenon DEF Filtering

\* Where two lists agree on what is kept, so do the filters.
LEMMA FiltersAgree ==
  ASSUME NEW E, NEW s, NEW S, NEW t, NEW R, NEW n \in Nat, NEW m \in Nat, n <= m,
         NEW f, Filtering(f, E, s, S, n), NEW h, Filtering(h, E, t, R, m),
         \A i \in 1 .. n : /\ s[i] \in S <=> t[i] \in R
                           /\ s[i] \in S => s[i] = t[i]
  PROVE  f[n] = h[n]
<1> DEFINE T == {i \in 0 .. n : f[i] # h[i]}
<1>1. ASSUME T # {} PROVE FALSE
  <2>1. T \in SUBSET Nat
    OBVIOUS
  <2> HIDE DEF T
  <2>2. PICK i \in T : \A j \in T : i <= j
    BY <1>1, <2>1, LeastNat
  <2> USE DEF T
  <2>3. i # 0
    BY <2>2 DEF Filtering
  <2>4. i \in 1 .. n /\ i \in 1 .. m /\ i - 1 \in 0 .. n /\ i - 1 \notin T
    BY <2>2, <2>3
  <2>5. f[i - 1] = h[i - 1]
    BY <2>4
  <2>6. /\ f[i] = IF s[i] \in S THEN Append(f[i - 1], s[i]) ELSE f[i - 1]
        /\ h[i] = IF t[i] \in R THEN Append(h[i - 1], t[i]) ELSE h[i - 1]
    BY <2>4 DEF Filtering
  <2>7. f[i] = h[i]
    BY <2>4, <2>5, <2>6
  <2> QED
    BY <2>2, <2>7
<1>2. n \in 0 .. n
  OBVIOUS
<1> QED
  BY <1>1, <1>2

LEMMA AmongSame ==
  ASSUME NEW E, NEW s \in Seq(E), NEW t \in Seq(E), NEW S, NEW R, Len(s) = Len(t),
         \A i \in 1 .. Len(s) : /\ s[i] \in S <=> t[i] \in R
                                /\ s[i] \in S => s[i] = t[i]
  PROVE  Among(s, S) = Among(t, R)
<1>1. PICK n \in Nat : n = Len(s)
  BY LenProperties
<1>2. PICK f : Filtering(f, E, s, S, n)
  BY <1>1, AmongSteps
<1>3. PICK h : Filtering(h, E, t, R, n)
  BY <1>1, AmongSteps
<1>4. f[n] = h[n]
  BY <1>1, <1>2, <1>3, FiltersAgree
<1> QED
  BY <1>2, <1>3, <1>4 DEF Filtering

LEMMA AmongAppended ==
  ASSUME NEW E, NEW s \in Seq(E), NEW x \in E, NEW S, NEW R,
         \A i \in 1 .. Len(s) : s[i] \in S <=> s[i] \in R
  PROVE  Among(Append(s, x), S) = IF x \in S THEN Append(Among(s, R), x) ELSE Among(s, R)
<1>1. PICK n \in Nat : n = Len(s)
  BY LenProperties
<1>2. PICK a : a = Append(s, x)
  OBVIOUS
<1>3. a \in Seq(E) /\ Len(a) = n + 1 /\ a[n + 1] = x /\ \A i \in 1 .. n : a[i] = s[i]
  BY <1>1, <1>2, AppendProperties
<1>4. PICK f : Filtering(f, E, s, R, n)
  BY <1>1, AmongSteps
<1> PICK k \in Nat : k = n + 1
  OBVIOUS
<1>5. PICK h : Filtering(h, E, a, S, k)
  BY <1>3, AmongSteps
<1>6. f[n] = h[n]
  <2>1. \A i \in 1 .. n : /\ s[i] \in R <=> a[i] \in S
                          /\ s[i] \in R => s[i] = a[i]
    BY <1>1, <1>3
  <2> QED
    BY <1>4, <1>5, <2>1, FiltersAgree
<1>7. h[k] = IF x \in S THEN Append(h[n], x) ELSE h[n]
  <2>1. k \in 1 .. k /\ k - 1 = n
    OBVIOUS
  <2>2. h[k] = IF a[k] \in S THEN Append(h[k - 1], a[k]) ELSE h[k - 1]
    BY <1>5, <2>1 DEF Filtering
  <2> QED
    BY <1>3, <2>1, <2>2
<1> QED
  BY <1>2, <1>4, <1>5, <1>6, <1>7 DEF Filtering

\* A sequence of anything.
Listed(s) == \E E : s \in Seq(E)

LEMMA ListedLength ==
  ASSUME NEW s, Listed(s)
  PROVE  Len(s) \in Nat /\ DOMAIN s = 1 .. Len(s)
BY LenProperties DEF Listed

LEMMA ListedAppend ==
  ASSUME NEW s, Listed(s), NEW x
  PROVE  /\ Listed(Append(s, x)) /\ Len(Append(s, x)) = Len(s) + 1
         /\ Append(s, x)[Len(s) + 1] = x /\ \A i \in 1 .. Len(s) : Append(s, x)[i] = s[i]
<1>1. PICK E : s \in Seq(E)
  BY DEF Listed
<1>2. PICK F : F = E \cup {x}
  OBVIOUS
<1>3. x \in F /\ \A i \in 1 .. Len(s) : s[i] \in F
  BY <1>1, <1>2, ElementOfSeq
<1>4. s \in Seq(F)
  BY <1>1, <1>2
<1>5. Append(s, x) \in Seq(F)
  BY <1>3, <1>4, AppendProperties
<1> QED
  BY <1>3, <1>4, <1>5, AppendProperties DEF Listed

LEMMA ListedJoined ==
  ASSUME NEW s, Listed(s), NEW t, Listed(t)
  PROVE  /\ Listed(s \o t) /\ Len(s \o t) = Len(s) + Len(t)
         /\ \A i \in 1 .. Len(s) : (s \o t)[i] = s[i]
         /\ \A i \in 1 .. Len(s \o t) : i \in 1 .. Len(s) \/ \E j \in 1 .. Len(t) : (s \o t)[i] = t[j]
<1>1. PICK E : s \in Seq(E)
  BY DEF Listed
<1>2. PICK F : t \in Seq(F)
  BY DEF Listed
<1>3. PICK G : G = E \cup F
  OBVIOUS
<1>4. s \in Seq(G) /\ t \in Seq(G)
  BY <1>1, <1>2, <1>3
<1>5. PICK m \in Nat, n \in Nat : m = Len(s) /\ n = Len(t)
  BY <1>4, LenProperties
<1>6. s \o t \in Seq(G) /\ Len(s \o t) = m + n
  BY <1>4, <1>5, ConcatProperties
<1>7. \A i \in 1 .. (m + n) : (s \o t)[i] = IF i <= m THEN s[i] ELSE t[i - m]
  BY <1>4, <1>5, ConcatProperties
<1>8. \A i \in 1 .. (m + n) : i \in 1 .. m \/ i - m \in 1 .. n
  OBVIOUS
<1>9. \A i \in 1 .. m : i \in 1 .. (m + n) /\ i <= m
  OBVIOUS
<1>10. ASSUME NEW i \in 1 .. (m + n), i \notin 1 .. m PROVE \E j \in 1 .. n : (s \o t)[i] = t[j]
  <2>1. i - m \in 1 .. n /\ ~ (i <= m)
    BY <1>8, <1>10
  <2> QED
    BY <1>7, <2>1
<1> QED
  BY <1>5, <1>6, <1>7, <1>9, <1>10 DEF Listed

\* The largest of a set of places.
LEMMA MaxIsLast ==
  ASSUME NEW n \in Nat, NEW I \in SUBSET (1 .. n), I # {}
  PROVE  Max(I) \in I /\ \A i \in I : i <= Max(I)
<1> DEFINE T == {n - i : i \in I}
<1>0. \A i \in I : i \in 1 .. n /\ n - i \in Nat
  OBVIOUS
<1>1. T \in SUBSET Nat /\ T # {}
  BY <1>0
<1> HIDE DEF T
<1>2. PICK d \in T : \A e \in T : d <= e
  BY <1>1, LeastNat
<1> USE DEF T
<1>3. PICK k \in I : d = n - k
  BY <1>2
<1>4. ASSUME NEW i \in I PROVE i <= k
  <2>1. n - i \in T
    OBVIOUS
  <2>2. n - k <= n - i
    BY <1>2, <1>3, <2>1
  <2> QED
    BY <1>0, <1>3, <2>2
<1>5. \E x \in I : \A y \in I : x >= y
  BY <1>3, <1>4
<1>6. Max(I) \in I /\ \A y \in I : Max(I) >= y
  BY <1>5 DEF Max
<1> QED
  BY <1>6

-----------------------------------------------------------------------------
(* Timeline *)

DerivedBy(f, evs, n) ==
  /\ f[0] = [p \in {"root"} |-> EmptyTimeline]
  /\ \A i \in 1 .. n : f[i] = Extended(f[i - 1], Parents(evs)[i], evs[i])
  /\ Derive(evs) = f[n]

\* deriveTimeline goes through the events one by one.
LEMMA DeriveSteps ==
  ASSUME NEW evs, NEW n \in Nat, n = Len(evs)
  PROVE  \E f : DerivedBy(f, evs, n)
<1> DEFINE Built(f, m) == f = [i \in 0 .. m |->
                                 IF i = 0 THEN [p \in {"root"} |-> EmptyTimeline]
                                 ELSE Extended(f[i - 1], Parents(evs)[i], evs[i])]
           T == {m \in 0 .. n : ~ \E f : Built(f, m)}
<1>1. ASSUME T # {} PROVE FALSE
  <2>1. T \in SUBSET Nat
    OBVIOUS
  <2> HIDE DEF T
  <2>2. PICK m \in T : \A k \in T : m <= k
    BY <1>1, <2>1, LeastNat
  <2> USE DEF T
  <2>3. m \in 0 .. n /\ ~ \E f : Built(f, m)
    BY <2>2
  <2>4. m # 0
    <3>1. PICK f : f = [i \in 0 .. 0 |-> [p \in {"root"} |-> EmptyTimeline]]
      OBVIOUS
    <3>2. \A i \in 0 .. 0 : i = 0
      OBVIOUS
    <3>3. Built(f, 0)
      BY <3>1, <3>2, Zenon
    <3> QED
      BY <2>3, <3>3
  <2>5. m - 1 \in 0 .. n /\ ~ (m <= m - 1)
    BY <2>3, <2>4
  <2>6. PICK g : Built(g, m - 1)
    BY <2>2, <2>5
  <2>7. PICK h : h = [i \in 0 .. m |->
                        IF i = m THEN Extended(g[m - 1], Parents(evs)[m], evs[m]) ELSE g[i]]
    OBVIOUS
  <2>8. ASSUME NEW i \in 0 .. m
        PROVE  h[i] = IF i = 0 THEN [p \in {"root"} |-> EmptyTimeline]
                      ELSE Extended(h[i - 1], Parents(evs)[i], evs[i])
    <3>1. CASE i = m
      <4>1. m - 1 \in 0 .. m /\ m - 1 # m
        BY <2>3, <2>4
      <4>2. h[m - 1] = g[m - 1]
        BY <2>7, <4>1
      <4>3. h[m] = Extended(g[m - 1], Parents(evs)[m], evs[m])
        BY <2>7, <3>1
      <4> QED
        BY <2>4, <3>1, <4>2, <4>3
    <3>2. CASE i # m
      <4>1. i \in 0 .. m - 1 /\ (i # 0 => i - 1 \in 0 .. m /\ i - 1 # m)
        BY <2>3, <3>2
      <4>2. h[i] = g[i]
        BY <2>7, <3>2
      <4>3. g[i] = IF i = 0 THEN [p \in {"root"} |-> EmptyTimeline]
                   ELSE Extended(g[i - 1], Parents(evs)[i], evs[i])
        BY <2>6, <4>1, Zenon
      <4>4. i # 0 => h[i - 1] = g[i - 1]
        BY <2>7, <4>1
      <4> QED
        BY <4>2, <4>3, <4>4
    <3> QED
      BY <3>1, <3>2
  <2>9. h = [i \in 0 .. m |-> h[i]]
    BY <2>7
  <2>10. Built(h, m)
    BY <2>8, <2>9, Zenon
  <2> QED
    BY <2>3, <2>10
<1>2. n \in 0 .. n
  OBVIOUS
<1>3. \E f : Built(f, n)
  BY <1>1, <1>2
<1>4. PICK f : f = CHOOSE h : Built(h, n)
  OBVIOUS
<1>5. Built(f, n)
  BY <1>3, <1>4
<1>6. Derive(evs) = f[n]
  BY <1>4 DEF Derive
<1>7. f[0] = [p \in {"root"} |-> EmptyTimeline]
  BY <1>5
<1>8. ASSUME NEW i \in 1 .. n PROVE f[i] = Extended(f[i - 1], Parents(evs)[i], evs[i])
  <2>1. i \in 0 .. n /\ i # 0
    OBVIOUS
  <2> QED
    BY <1>5, <2>1, Zenon
<1> QED
  BY <1>6, <1>7, <1>8 DEF DerivedBy

FoldsRoot(g, evs, n) ==
  /\ g[0] = EmptyTimeline
  /\ \A i \in 1 .. n : g[i] = IF Parents(evs)[i] = "root" THEN Reduce(g[i - 1], evs[i]) ELSE g[i - 1]
  /\ Root(evs) = g[n]

\* The root's timeline is reduced from the root's events.
LEMMA RootSteps ==
  ASSUME NEW evs, NEW n \in Nat, n = Len(evs)
  PROVE  \E g : FoldsRoot(g, evs, n)
<1>1. PICK f : DerivedBy(f, evs, n)
  BY DeriveSteps
<1> DEFINE T == {i \in 0 .. n : ~ ("root" \in DOMAIN f[i])}
<1>2. ASSUME T # {} PROVE FALSE
  <2>1. T \in SUBSET Nat
    OBVIOUS
  <2> HIDE DEF T
  <2>2. PICK i \in T : \A j \in T : i <= j
    BY <1>2, <2>1, LeastNat
  <2> USE DEF T
  <2>3. i # 0
    BY <1>1, <2>2 DEF DerivedBy
  <2>4. i \in 1 .. n /\ i - 1 \in 0 .. n /\ i - 1 \notin T
    BY <2>2, <2>3
  <2>5. f[i] = Extended(f[i - 1], Parents(evs)[i], evs[i])
    BY <1>1, <2>4 DEF DerivedBy
  <2>6. "root" \in DOMAIN f[i]
    BY <2>4, <2>5 DEF Extended
  <2> QED
    BY <2>2, <2>6
<1>3. PICK g : g = [i \in 0 .. n |-> f[i]["root"]]
  OBVIOUS
<1>4. g[0] = EmptyTimeline
  BY <1>1, <1>3 DEF DerivedBy
<1>5. ASSUME NEW i \in 1 .. n
      PROVE  g[i] = IF Parents(evs)[i] = "root" THEN Reduce(g[i - 1], evs[i]) ELSE g[i - 1]
  <2>1. i \in 0 .. n /\ i - 1 \in 0 .. n
    OBVIOUS
  <2>2. "root" \in DOMAIN f[i - 1] /\ g[i] = f[i]["root"] /\ g[i - 1] = f[i - 1]["root"]
    BY <1>2, <1>3, <2>1
  <2>3. PICK p : p = Parents(evs)[i]
    OBVIOUS
  <2>4. f[i] = Extended(f[i - 1], p, evs[i])
    BY <1>1, <2>3 DEF DerivedBy
  <2>5. CASE p = "root"
    <3>1. f[i]["root"] = Reduce(f[i - 1]["root"], evs[i])
      BY <2>2, <2>4, <2>5 DEF Extended
    <3> QED
      BY <2>2, <2>3, <2>5, <3>1
  <2>6. CASE p # "root"
    <3>1. f[i]["root"] = f[i - 1]["root"]
      BY <2>2, <2>4, <2>6 DEF Extended
    <3> QED
      BY <2>2, <2>3, <2>6, <3>1
  <2> QED
    BY <2>5, <2>6
<1>6. Root(evs) = g[n]
  <2>1. n \in 0 .. n
    OBVIOUS
  <2> QED
    BY <1>1, <1>3, <2>1 DEF Root, DerivedBy
<1> QED
  BY <1>4, <1>5, <1>6 DEF FoldsRoot

\* An event that says its stream is of that stream.
LEMMA ParentOfEvent ==
  ASSUME NEW evs, NEW i \in DOMAIN evs, Establishes(evs[i])
  PROVE  Parents(evs)[i] = evs[i].parent
BY DEF Parents

\* The messages of a timeline.
IsTurn(m) ==
  /\ m = [role |-> m.role, id |-> m.id, blocks |-> m.blocks, isComplete |-> m.isComplete]
  /\ m.role \in {"user", "assistant"}

IsThread(ms) == Listed(ms) /\ \A i \in 1 .. Len(ms) : IsTurn(ms[i])

IsTimeline(tl) ==
  /\ tl = [init |-> tl.init, status |-> tl.status, messages |-> tl.messages,
           passthroughs |-> tl.passthroughs, result |-> tl.result]
  /\ IsThread(tl.messages)

\* What an event in the middle of a message leaves alone.
LEMMA AmendKeeps ==
  ASSUME NEW m, IsTurn(m), NEW e, e.type \in MidStream
  PROVE  /\ IsTurn(Amend(m, e)) /\ Amend(m, e).role = m.role
         /\ e.type # "assistant_message_stop" => Amend(m, e).isComplete = m.isComplete
<1> DEFINE Like(x) == IsTurn(x) /\ x.role = m.role
<1>1. ASSUME NEW b PROVE Like([m EXCEPT !.blocks = b]) /\ [m EXCEPT !.blocks = b].isComplete = m.isComplete
  BY DEF IsTurn
<1>2. Like(m)
  OBVIOUS
<1>3. ASSUME NEW b PROVE Like([m EXCEPT !.isComplete = TRUE, !.blocks = b])
  <2>1. PICK x : x = [m EXCEPT !.isComplete = TRUE, !.blocks = b]
    OBVIOUS
  <2>2. x = [role |-> m.role, id |-> m.id, blocks |-> b, isComplete |-> TRUE]
    BY <2>1 DEF IsTurn
  <2>3. Like(x)
    BY <2>2 DEF IsTurn
  <2> QED
    BY <2>1, <2>3
<1> HIDE DEF Like
<1>4. ASSUME NEW type, NEW index, NEW text
      PROVE  /\ Like(AppendText(m, type, index, text))
             /\ AppendText(m, type, index, text).isComplete = m.isComplete
  BY <1>1, <1>2 DEF AppendText
<1>5. ASSUME NEW index, NEW piece
      PROVE  Like(AppendInput(m, index, piece)) /\ AppendInput(m, index, piece).isComplete = m.isComplete
  <2>1. PICK k : k = BlockAt(m, index)
    OBVIOUS
  <2>2. CASE k = 0 \/ m.blocks[k].type # "tool_use"
    <3>1. AppendInput(m, index, piece) = m
      BY <2>1, <2>2 DEF AppendInput
    <3> QED
      BY <1>2, <3>1
  <2>3. CASE ~ (k = 0 \/ m.blocks[k].type # "tool_use")
    <3>1. \E d : AppendInput(m, index, piece) = [m EXCEPT !.blocks = d]
      <4>1. AppendInput(m, index, piece) =
              [m EXCEPT !.blocks[k].text = Append(@, piece),
                        !.blocks[k].input =
                           IF piece = Closing THEN Append(m.blocks[k].text, piece) ELSE @]
        BY <2>1, <2>3, Zenon DEF AppendInput
      <4> QED
        BY <4>1
    <3> QED
      BY <1>1, <3>1
  <2> QED
    BY <2>2, <2>3
<1>6. ASSUME NEW index
      PROVE  Like(StopBlock(m, index)) /\ StopBlock(m, index).isComplete = m.isComplete
  BY <1>1, <1>2 DEF StopBlock
<1>7. Like(StopMessage(m))
  BY <1>3 DEF StopMessage
<1>8. e.type = "assistant_message_stop" => Amend(m, e) = StopMessage(m)
  BY DEF Amend
<1>9. e.type # "assistant_message_stop" => Like(Amend(m, e)) /\ Amend(m, e).isComplete = m.isComplete
  <2>1. CASE e.type = "assistant_content_block_start"
    BY <1>1, <2>1 DEF Amend
  <2>2. CASE e.type = "assistant_text_delta"
    BY <1>4, <2>2 DEF Amend
  <2>3. CASE e.type = "assistant_thinking_delta"
    BY <1>4, <2>3 DEF Amend
  <2>4. CASE e.type = "assistant_tool_use_input_delta"
    BY <1>5, <2>4 DEF Amend
  <2>5. CASE e.type = "assistant_content_block_stop"
    BY <1>6, <2>5 DEF Amend
  <2>6. CASE e.type = "assistant_message_delta"
    BY <1>2, <2>6 DEF Amend
  <2> QED
    BY <2>1, <2>2, <2>3, <2>4, <2>5, <2>6 DEF MidStream
<1> QED
  BY <1>7, <1>8, <1>9 DEF Like

\* A delta is about a message of the assistant, if about any.
LEMMA ResolvedIsAssistant ==
  ASSUME NEW ms, IsThread(ms), NEW id, NEW k, k = ResolveAssistant(ms, id)
  PROVE  k = 0 \/ (k \in 1 .. Len(ms) /\ ms[k].role = "assistant")
<1>1. PICK n \in Nat : n = Len(ms)
  BY ListedLength DEF IsThread
<1> DEFINE I == {i \in 1 .. n : ms[i].role = "assistant" /\ ms[i].id = id}
           J == {i \in 1 .. n : ms[i].role = "assistant"}
<1>2. I # {} => Max(I) \in I
  <2>1. I \in SUBSET (1 .. n)
    OBVIOUS
  <2> HIDE DEF I
  <2> QED
    BY <2>1, MaxIsLast
<1>3. J # {} => Max(J) \in J
  <2>1. J \in SUBSET (1 .. n)
    OBVIOUS
  <2> HIDE DEF J
  <2> QED
    BY <2>1, MaxIsLast
<1>4. PICK a, b : /\ a = SelectLastInSeq(ms, LAMBDA m : m.role = "assistant" /\ m.id = id)
                  /\ b = SelectLastInSeq(ms, LAMBDA m : m.role = "assistant")
  OBVIOUS
<1>5. a = IF I # {} THEN Max(I) ELSE 0
  BY <1>1, <1>4 DEF SelectLastInSeq
<1>6. b = IF J # {} THEN Max(J) ELSE 0
  BY <1>1, <1>4 DEF SelectLastInSeq
<1>7. a = 0 \/ a \in I
  BY <1>2, <1>5
<1>8. b = 0 \/ b \in J
  BY <1>3, <1>6
<1>9. k = IF id # "" /\ a # 0 THEN a ELSE b
  BY <1>4 DEF ResolveAssistant
<1> QED
  BY <1>1, <1>7, <1>8, <1>9

\* A message of the assistant that is amended.
Amends(r, ms, e) ==
  \E k \in 1 .. Len(ms) :
    /\ ms[k].role = "assistant"
    /\ r = [ms EXCEPT ![k] = Amend(ms[k], e)]

\* What becomes of the messages.
LEMMA ReduceMessages ==
  ASSUME NEW tl, IsTimeline(tl), NEW e, NEW r, r = Reduce(tl, e)
  PROVE  /\ r = [init |-> r.init, status |-> r.status, messages |-> r.messages,
                 passthroughs |-> r.passthroughs, result |-> r.result]
         /\ e.type = "user_message" => r.messages = Append(tl.messages, UserTurn(e.content))
         /\ e.type = "assistant_message_start" =>
              r.messages = Append(tl.messages, AssistantTurn(e.message_id))
         /\ e.type \in MidStream => r.messages = tl.messages \/ Amends(r.messages, tl.messages, e)
         /\ e.type \notin MidStream \cup {"user_message", "assistant_message_start"} =>
              r.messages = tl.messages
<1> DEFINE Shape(x) == x = [init |-> x.init, status |-> x.status, messages |-> x.messages,
                            passthroughs |-> x.passthroughs, result |-> x.result]
<1>1. ASSUME NEW v
      PROVE  /\ Shape([tl EXCEPT !.init = v]) /\ [tl EXCEPT !.init = v].messages = tl.messages
             /\ Shape([tl EXCEPT !.status = v]) /\ [tl EXCEPT !.status = v].messages = tl.messages
             /\ Shape([tl EXCEPT !.result = v]) /\ [tl EXCEPT !.result = v].messages = tl.messages
             /\ Shape([tl EXCEPT !.passthroughs = v]) /\ [tl EXCEPT !.passthroughs = v].messages = tl.messages
             /\ Shape([tl EXCEPT !.messages = v]) /\ [tl EXCEPT !.messages = v].messages = v
  BY DEF IsTimeline
<1>2. Shape(tl)
  BY DEF IsTimeline
<1> HIDE DEF Shape
<1>3. CASE e.type = "session_init"
  BY <1>1, <1>3 DEF Reduce, MidStream, Shape
<1>4. CASE e.type = "status_change"
  BY <1>1, <1>4 DEF Reduce, MidStream, Shape
<1>5. CASE e.type = "user_message"
  BY <1>1, <1>5 DEF Reduce, MidStream, Shape
<1>6. CASE e.type = "assistant_message_start"
  BY <1>1, <1>6 DEF Reduce, MidStream, Shape
<1>7. CASE e.type \in MidStream
  <2>1. PICK k : k = ResolveAssistant(tl.messages, e.message_id)
    OBVIOUS
  <2>2. k = 0 \/ (k \in 1 .. Len(tl.messages) /\ tl.messages[k].role = "assistant")
    BY <2>1, ResolvedIsAssistant DEF IsTimeline
  <2>3. r = IF k = 0 THEN tl ELSE [tl EXCEPT !.messages[k] = Amend(@, e)]
    BY <1>7, <2>1 DEF Reduce, MidStream
  <2>4. CASE k = 0
    BY <1>2, <1>7, <2>3, <2>4 DEF MidStream, Shape
  <2>5. CASE k # 0
    <3>1. PICK ms : ms = [tl.messages EXCEPT ![k] = Amend(tl.messages[k], e)]
      OBVIOUS
    <3>2. r = [tl EXCEPT !.messages = ms]
      BY <2>3, <2>5, <3>1
    <3>3. r.messages = ms /\ Shape(r)
      BY <1>1, <3>2
    <3>4. Amends(r.messages, tl.messages, e)
      BY <2>2, <2>5, <3>1, <3>3 DEF Amends
    <3> QED
      BY <1>7, <3>3, <3>4 DEF MidStream, Shape
  <2> QED
    BY <2>4, <2>5
<1>8. CASE e.type = "result"
  BY <1>1, <1>8 DEF Reduce, MidStream, Shape
<1>9. CASE e.type = "passthrough"
  BY <1>1, <1>9 DEF Reduce, MidStream, Shape
<1>10. CASE e.type \notin MidStream \cup {"session_init", "status_change", "user_message",
                                          "assistant_message_start", "result", "passthrough"}
  BY <1>2, <1>10 DEF Reduce, Shape
<1> QED
  BY <1>3, <1>4, <1>5, <1>6, <1>7, <1>8, <1>9, <1>10

\* A thread that has a message amended is one.
LEMMA AmendedThread ==
  ASSUME NEW ms, IsThread(ms), NEW r, NEW e, e.type \in MidStream, Amends(r, ms, e)
  PROVE  /\ IsThread(r) /\ Len(r) = Len(ms)
         /\ \A i \in 1 .. Len(ms) : /\ r[i].role = ms[i].role
                                    /\ ms[i].role = "user" => r[i] = ms[i]
                                    /\ e.type # "assistant_message_stop" =>
                                         r[i].isComplete = ms[i].isComplete
<1>1. PICK E : ms \in Seq(E)
  BY DEF IsThread, Listed
<1>2. PICK k \in 1 .. Len(ms) : /\ ms[k].role = "assistant"
                                /\ r = [ms EXCEPT ![k] = Amend(ms[k], e)]
  BY DEF Amends
<1>3. PICK a : a = Amend(ms[k], e)
  OBVIOUS
<1>4. PICK n \in Nat : n = Len(ms)
  BY <1>1, LenProperties
<1>5. /\ IsTurn(a) /\ a.role = "assistant"
      /\ e.type # "assistant_message_stop" => a.isComplete = ms[k].isComplete
  BY <1>2, <1>3, AmendKeeps DEF IsThread
<1>6. PICK F : F = E \cup {a}
  OBVIOUS
<1>7. ms \in [1 .. n -> E] /\ r = [i \in 1 .. n |-> IF i = k THEN a ELSE ms[i]]
  BY <1>1, <1>2, <1>3, <1>4, LenProperties
<1>8. r \in [1 .. n -> F]
  BY <1>6, <1>7
<1>9. r \in Seq(F) /\ Len(r) = n
  BY <1>8, SeqDef, LenProperties
<1>10. \A i \in 1 .. n : r[i] = IF i = k THEN a ELSE ms[i]
  BY <1>7
<1>11. \A i \in 1 .. n : IsTurn(ms[i])
  BY <1>4 DEF IsThread
<1> QED
  BY <1>2, <1>4, <1>5, <1>9, <1>10, <1>11 DEF IsThread, Listed

LEMMA AppendedThread ==
  ASSUME NEW ms, IsThread(ms), NEW x, IsTurn(x)
  PROVE  IsThread(Append(ms, x))
<1>1. PICK n \in Nat : n = Len(ms)
  BY ListedLength DEF IsThread
<1>2. /\ Listed(Append(ms, x)) /\ Len(Append(ms, x)) = n + 1
      /\ Append(ms, x)[n + 1] = x /\ \A i \in 1 .. n : Append(ms, x)[i] = ms[i]
  BY <1>1, ListedAppend DEF IsThread
<1>3. \A i \in 1 .. (n + 1) : i = n + 1 \/ i \in 1 .. n
  OBVIOUS
<1> QED
  BY <1>1, <1>2, <1>3 DEF IsThread

LEMMA TurnsAreTurns ==
  ASSUME NEW b PROVE IsTurn(UserTurn(b)) /\ IsTurn(AssistantTurn(b))
BY DEF IsTurn, UserTurn, AssistantTurn

\* Reducing keeps timelines timelines.
LEMMA ReducedTimeline ==
  ASSUME NEW tl, IsTimeline(tl), NEW e
  PROVE  IsTimeline(Reduce(tl, e))
<1>1. PICK r : r = Reduce(tl, e)
  OBVIOUS
<1>2. IsThread(tl.messages)
  BY DEF IsTimeline
<1>3. /\ r = [init |-> r.init, status |-> r.status, messages |-> r.messages,
              passthroughs |-> r.passthroughs, result |-> r.result]
      /\ e.type = "user_message" => r.messages = Append(tl.messages, UserTurn(e.content))
      /\ e.type = "assistant_message_start" =>
           r.messages = Append(tl.messages, AssistantTurn(e.message_id))
      /\ e.type \in MidStream => r.messages = tl.messages \/ Amends(r.messages, tl.messages, e)
      /\ e.type \notin MidStream \cup {"user_message", "assistant_message_start"} =>
           r.messages = tl.messages
  BY <1>1, ReduceMessages
<1>4. e.type \in MidStream => IsThread(r.messages)
  BY <1>2, <1>3, AmendedThread
<1>5. IsThread(Append(tl.messages, UserTurn(e.content)))
  BY <1>2, AppendedThread, TurnsAreTurns
<1>6. IsThread(Append(tl.messages, AssistantTurn(e.message_id)))
  BY <1>2, AppendedThread, TurnsAreTurns
<1>7. IsThread(r.messages)
  BY <1>2, <1>3, <1>4, <1>5, <1>6
<1> QED
  BY <1>1, <1>3, <1>7 DEF IsTimeline

LEMMA RootIsTimeline ==
  ASSUME NEW evs, NEW n \in Nat, NEW g, FoldsRoot(g, evs, n)
  PROVE  \A i \in 0 .. n : IsTimeline(g[i])
<1> DEFINE T == {i \in 0 .. n : ~ IsTimeline(g[i])}
<1>1. ASSUME T # {} PROVE FALSE
  <2>1. T \in SUBSET Nat
    OBVIOUS
  <2> HIDE DEF T
  <2>2. PICK i \in T : \A j \in T : i <= j
    BY <1>1, <2>1, LeastNat
  <2> USE DEF T
  <2>3. IsTimeline(EmptyTimeline)
    <3>1. <<>> \in Seq({}) /\ Len(<<>>) = 0
      BY EmptySeq
    <3>2. IsThread(<<>>)
      BY <3>1 DEF IsThread, Listed
    <3> QED
      BY <3>2 DEF IsTimeline, EmptyTimeline
  <2>4. i # 0
    BY <2>2, <2>3 DEF FoldsRoot
  <2>5. i \in 1 .. n /\ i - 1 \in 0 .. n /\ i - 1 \notin T
    BY <2>2, <2>4
  <2>6. IsTimeline(g[i])
    BY <2>5, ReducedTimeline DEF FoldsRoot
  <2> QED
    BY <2>2, <2>6
<1> QED
  BY <1>1

\* The user's messages of a thread.
UsersOf(ms) == Among(ms, {m \in Entries(ms) : m.role = "user"})

\* The user's messages to the root, among the events.
Said(evs) == Among(evs, {e \in Entries(evs) : e.type = "user_message" /\ e.parent = "root"})

LEMMA UsersAppended ==
  ASSUME NEW ms, IsThread(ms), NEW x
  PROVE  UsersOf(Append(ms, x)) = IF x.role = "user" THEN Append(UsersOf(ms), x) ELSE UsersOf(ms)
<1>1. PICK n \in Nat : n = Len(ms)
  BY ListedLength DEF IsThread
<1>2. PICK E : ms \in Seq(E)
  BY DEF IsThread, Listed
<1>3. PICK F : F = E \cup {x}
  OBVIOUS
<1>4. ms \in Seq(F) /\ x \in F
  BY <1>2, <1>3
<1>5. PICK a : a = Append(ms, x)
  OBVIOUS
<1>6. a \in Seq(F) /\ Len(a) = n + 1 /\ a[n + 1] = x /\ \A i \in 1 .. n : a[i] = ms[i]
  BY <1>1, <1>4, <1>5, AppendProperties
<1>7. PICK S, R : S = {m \in Entries(a) : m.role = "user"} /\ R = {m \in Entries(ms) : m.role = "user"}
  OBVIOUS
<1>8. ASSUME NEW i \in 1 .. n PROVE ms[i] \in S <=> ms[i] \in R
  <2>1. i \in 1 .. (n + 1) /\ a[i] = ms[i]
    BY <1>6
  <2>2. ms[i] \in Entries(a) /\ ms[i] \in Entries(ms)
    BY <1>1, <1>6, <2>1 DEF Entries
  <2> QED
    BY <1>7, <2>2
<1>9. x \in S <=> x.role = "user"
  <2>1. n + 1 \in 1 .. (n + 1)
    OBVIOUS
  <2>2. x \in Entries(a)
    BY <1>6, <2>1 DEF Entries
  <2> QED
    BY <1>7, <2>2
<1>10. Among(a, S) = IF x \in S THEN Append(Among(ms, R), x) ELSE Among(ms, R)
  BY <1>1, <1>4, <1>5, <1>8, AmongAppended
<1> QED
  BY <1>5, <1>7, <1>9, <1>10 DEF UsersOf

LEMMA UsersAmended ==
  ASSUME NEW ms, IsThread(ms), NEW r, IsThread(r), Len(r) = Len(ms),
         \A i \in 1 .. Len(ms) : r[i].role = ms[i].role /\ (ms[i].role = "user" => r[i] = ms[i])
  PROVE  UsersOf(r) = UsersOf(ms)
<1>1. PICK n \in Nat : n = Len(ms)
  BY ListedLength DEF IsThread
<1>2. PICK E : ms \in Seq(E)
  BY DEF IsThread, Listed
<1>3. PICK F : r \in Seq(F)
  BY DEF IsThread, Listed
<1>4. PICK G : G = E \cup F
  OBVIOUS
<1>5. ms \in Seq(G) /\ r \in Seq(G)
  BY <1>2, <1>3, <1>4
<1>6. PICK S, R : S = {m \in Entries(ms) : m.role = "user"} /\ R = {m \in Entries(r) : m.role = "user"}
  OBVIOUS
<1>7. ASSUME NEW i \in 1 .. n PROVE (r[i] \in R <=> ms[i] \in S) /\ (r[i] \in R => r[i] = ms[i])
  <2>1. r[i] \in Entries(r) /\ ms[i] \in Entries(ms)
    BY <1>1 DEF Entries
  <2> QED
    BY <1>1, <1>6, <2>1
<1>8. Among(r, R) = Among(ms, S)
  BY <1>1, <1>5, <1>7, AmongSame
<1> QED
  BY <1>6, <1>8 DEF UsersOf

LEMMA SaidAppended ==
  ASSUME NEW evs, Listed(evs), NEW e
  PROVE  Said(Append(evs, e)) = IF e.type = "user_message" /\ e.parent = "root"
                                THEN Append(Said(evs), e) ELSE Said(evs)
<1>1. PICK n \in Nat : n = Len(evs)
  BY ListedLength
<1>2. PICK E : evs \in Seq(E)
  BY DEF Listed
<1>3. PICK F : F = E \cup {e}
  OBVIOUS
<1>4. evs \in Seq(F) /\ e \in F
  BY <1>2, <1>3
<1>5. PICK a : a = Append(evs, e)
  OBVIOUS
<1>6. a \in Seq(F) /\ Len(a) = n + 1 /\ a[n + 1] = e /\ \A i \in 1 .. n : a[i] = evs[i]
  BY <1>1, <1>4, <1>5, AppendProperties
<1> DEFINE Own(m) == m.type = "user_message" /\ m.parent = "root"
<1>7. PICK S, R : S = {m \in Entries(a) : Own(m)} /\ R = {m \in Entries(evs) : Own(m)}
  OBVIOUS
<1>8. ASSUME NEW i \in 1 .. n PROVE evs[i] \in S <=> evs[i] \in R
  <2>1. i \in 1 .. (n + 1) /\ a[i] = evs[i]
    BY <1>6
  <2>2. evs[i] \in Entries(a) /\ evs[i] \in Entries(evs)
    BY <1>1, <1>6, <2>1 DEF Entries
  <2> QED
    BY <1>7, <2>2
<1>9. e \in S <=> Own(e)
  <2>1. n + 1 \in 1 .. (n + 1)
    OBVIOUS
  <2>2. e \in Entries(a)
    BY <1>6, <2>1 DEF Entries
  <2> QED
    BY <1>7, <2>2
<1>10. Among(a, S) = IF e \in S THEN Append(Among(evs, R), e) ELSE Among(evs, R)
  BY <1>1, <1>4, <1>5, <1>8, AmongAppended
<1> QED
  BY <1>5, <1>7, <1>9, <1>10 DEF Said

\* Lists as long, the first's blocks the second's content.
Spells(us, ss) ==
  /\ Listed(us) /\ Listed(ss) /\ Len(us) = Len(ss)
  /\ \A i \in 1 .. Len(us) : us[i].blocks = ss[i].content

LEMMA SpellsAppended ==
  ASSUME NEW us, NEW ss, Spells(us, ss), NEW u, NEW s, u.blocks = s.content
  PROVE  Spells(Append(us, u), Append(ss, s))
<1>1. PICK n \in Nat : n = Len(us) /\ n = Len(ss)
  BY ListedLength DEF Spells
<1>2. /\ Listed(Append(us, u)) /\ Len(Append(us, u)) = n + 1
      /\ Append(us, u)[n + 1] = u /\ \A i \in 1 .. n : Append(us, u)[i] = us[i]
  BY <1>1, ListedAppend DEF Spells
<1>3. /\ Listed(Append(ss, s)) /\ Len(Append(ss, s)) = n + 1
      /\ Append(ss, s)[n + 1] = s /\ \A i \in 1 .. n : Append(ss, s)[i] = ss[i]
  BY <1>1, ListedAppend DEF Spells
<1>4. \A i \in 1 .. (n + 1) : i = n + 1 \/ i \in 1 .. n
  OBVIOUS
<1> QED
  BY <1>1, <1>2, <1>3, <1>4 DEF Spells

\* The bubbles of the user are the root's user messages, whatever else the page folds.
LEMMA BubblesAreSaid ==
  ASSUME NEW evs, Listed(evs)
  PROVE  Spells(UserBubbles(evs), Said(evs))
<1>1. PICK n \in Nat : n = Len(evs)
  BY ListedLength
<1>2. PICK g : FoldsRoot(g, evs, n)
  BY <1>1, RootSteps
<1>3. PICK E : evs \in Seq(E)
  BY DEF Listed
<1> DEFINE Own(e) == e.type = "user_message" /\ e.parent = "root"
           S == {e \in Entries(evs) : Own(e)}
<1>4. PICK f : Filtering(f, E, evs, S, n)
  BY <1>1, <1>3, AmongSteps
<1>5. \A i \in 1 .. n : evs[i] \in S <=> Own(evs[i])
  BY <1>1 DEF Entries
<1> HIDE DEF S
<1> DEFINE T == {i \in 0 .. n : ~ Spells(UsersOf(g[i].messages), f[i])}
<1>6. ASSUME T # {} PROVE FALSE
  <2>1. T \in SUBSET Nat
    OBVIOUS
  <2> HIDE DEF T
  <2>2. PICK i \in T : \A j \in T : i <= j
    BY <1>6, <2>1, LeastNat
  <2> USE DEF T
  <2>3. Spells(UsersOf(g[0].messages), f[0])
    <3>1. g[0].messages = <<>> /\ f[0] = <<>>
      <4>1. g[0] = EmptyTimeline
        BY <1>2 DEF FoldsRoot
      <4>2. f[0] = <<>>
        BY <1>4 DEF Filtering
      <4>3. EmptyTimeline.messages = <<>>
        BY DEF EmptyTimeline
      <4> QED
        BY <4>1, <4>2, <4>3
    <3>2. <<>> \in Seq({}) /\ Len(<<>>) = 0
      BY EmptySeq
    <3>3. UsersOf(<<>>) = <<>>
      <4>1. PICK R : R = {m \in Entries(<<>>) : m.role = "user"}
        OBVIOUS
      <4>2. PICK z \in Nat : z = 0
        OBVIOUS
      <4>3. PICK h : Filtering(h, {}, <<>>, R, z)
        BY <3>2, <4>2, AmongSteps
      <4> QED
        BY <4>1, <4>2, <4>3 DEF Filtering, UsersOf
    <3>4. Listed(<<>>)
      BY <3>2 DEF Listed
    <3>5. Spells(<<>>, <<>>)
      BY <3>2, <3>4 DEF Spells
    <3> QED
      BY <3>1, <3>3, <3>5
  <2>4. i \in 1 .. n /\ i - 1 \in 0 .. n /\ i - 1 \notin T
    BY <2>2, <2>3
  <2>5. PICK e, tl, r : e = evs[i] /\ tl = g[i - 1] /\ r = Reduce(tl, e)
    OBVIOUS
  <2>6. IsTimeline(tl) /\ IsThread(tl.messages) /\ IsTimeline(r) /\ IsThread(r.messages)
    <3>1. IsTimeline(tl)
      BY <1>2, <2>4, <2>5, RootIsTimeline
    <3>2. IsTimeline(r)
      BY <2>5, <3>1, ReducedTimeline
    <3> QED
      BY <3>1, <3>2 DEF IsTimeline
  <2>7.  /\ e.type = "user_message" => r.messages = Append(tl.messages, UserTurn(e.content))
         /\ e.type = "assistant_message_start" =>
              r.messages = Append(tl.messages, AssistantTurn(e.message_id))
         /\ e.type \in MidStream => r.messages = tl.messages \/ Amends(r.messages, tl.messages, e)
         /\ e.type \notin MidStream \cup {"user_message", "assistant_message_start"} =>
              r.messages = tl.messages
    <3>1. r = Reduce(tl, e) /\ IsTimeline(tl)
      BY <2>5, <2>6
    <3> QED
      BY <3>1, ReduceMessages
  <2>8. g[i] = IF Parents(evs)[i] = "root" THEN r ELSE tl
    BY <1>2, <2>4, <2>5 DEF FoldsRoot
  <2>9. f[i] = IF Own(e) THEN Append(f[i - 1], e) ELSE f[i - 1]
    BY <1>4, <1>5, <2>4, <2>5 DEF Filtering
  <2>10. Spells(UsersOf(tl.messages), f[i - 1])
    BY <2>4, <2>5
  <2>11. e.type = "user_message" => Parents(evs)[i] = e.parent
    <3>1. i \in DOMAIN evs
      BY <1>1, <2>4, ListedLength
    <3> QED
      BY <2>5, <3>1, ParentOfEvent DEF Establishes
  <2>12. e.type # "user_message" => UsersOf(r.messages) = UsersOf(tl.messages)
    <3>1. CASE e.type = "assistant_message_start"
      <4>1. r.messages = Append(tl.messages, AssistantTurn(e.message_id))
        BY <2>7, <3>1
      <4>2. AssistantTurn(e.message_id).role # "user"
        BY DEF AssistantTurn
      <4> QED
        BY <2>6, <4>1, <4>2, UsersAppended
    <3>2. CASE e.type \in MidStream
      <4>1. r.messages = tl.messages \/ Amends(r.messages, tl.messages, e)
        BY <2>7, <3>2
      <4>2. ASSUME Amends(r.messages, tl.messages, e)
            PROVE  UsersOf(r.messages) = UsersOf(tl.messages)
        <5>1. /\ Len(r.messages) = Len(tl.messages)
              /\ \A j \in 1 .. Len(tl.messages) :
                   /\ r.messages[j].role = tl.messages[j].role
                   /\ tl.messages[j].role = "user" => r.messages[j] = tl.messages[j]
          BY <2>6, <3>2, <4>2, AmendedThread
        <5> QED
          BY <2>6, <5>1, UsersAmended
      <4> QED
        BY <4>1, <4>2
    <3>3. CASE e.type \notin MidStream \cup {"user_message", "assistant_message_start"}
      BY <2>7, <3>3
    <3> QED
      BY <3>1, <3>2, <3>3
  <2>13. CASE ~ Own(e)
    <3>1. UsersOf(g[i].messages) = UsersOf(tl.messages)
      BY <2>8, <2>11, <2>12, <2>13
    <3> QED
      BY <2>2, <2>9, <2>10, <2>13, <3>1
  <2>14. CASE Own(e)
    <3>1. g[i].messages = Append(tl.messages, UserTurn(e.content))
      BY <2>8, <2>11, <2>14, <2>7
    <3>2. PICK u : u = UserTurn(e.content)
      OBVIOUS
    <3>3. u.role = "user" /\ u.blocks = e.content
      BY <3>2 DEF UserTurn
    <3>4. UsersOf(g[i].messages) = Append(UsersOf(tl.messages), u)
      BY <2>6, <3>1, <3>2, <3>3, UsersAppended
    <3>5. Spells(Append(UsersOf(tl.messages), u), Append(f[i - 1], e))
      BY <2>10, <3>3, SpellsAppended
    <3> QED
      BY <2>2, <2>9, <2>14, <3>4, <3>5
  <2> QED
    BY <2>13, <2>14
<1>7. n \in 0 .. n
  OBVIOUS
<1>8. Spells(UsersOf(g[n].messages), f[n])
  BY <1>6, <1>7
<1>9. f[n] = Said(evs)
  BY <1>4 DEF Filtering, Said, S
<1>10. UserBubbles(evs) = UsersOf(g[n].messages)
  BY <1>2 DEF FoldsRoot, UserBubbles, UsersOf
<1> QED
  BY <1>8, <1>9, <1>10

\* A message of the root has begun, and no message has ended or begun since.
Streams(evs) ==
  \E i \in 1 .. Len(evs) :
    /\ evs[i].type = "assistant_message_start" /\ evs[i].parent = "root"
    /\ \A j \in (i + 1) .. Len(evs) :
         evs[j].type \notin {"assistant_message_start", "assistant_message_stop"}

\* The last message is the user's, or is not complete.
Unfinished(ms) ==
  /\ IsThread(ms)
  /\ ms # <<>> /\ Len(ms) # 0
  /\ ms[Len(ms)].role = "user" \/ ~ ms[Len(ms)].isComplete

LEMMA UnfinishedAppended ==
  ASSUME NEW ms, IsThread(ms), NEW x, IsTurn(x), x.role = "user" \/ ~ x.isComplete
  PROVE  Unfinished(Append(ms, x))
<1>1. PICK n \in Nat : n = Len(ms)
  BY ListedLength DEF IsThread
<1>2. PICK a : a = Append(ms, x)
  OBVIOUS
<1>3. IsThread(a) /\ Len(a) = n + 1 /\ a[n + 1] = x
  BY <1>1, <1>2, AppendedThread, ListedAppend DEF IsThread
<1>4. Len(<<>>) = 0
  BY EmptySeq
<1>5. n + 1 # 0 /\ a # <<>>
  BY <1>1, <1>3, <1>4
<1> QED
  BY <1>2, <1>3, <1>5 DEF Unfinished

LEMMA UnfinishedReduced ==
  ASSUME NEW tl, IsTimeline(tl), Unfinished(tl.messages), NEW e, NEW r, r = Reduce(tl, e),
         e.type \notin {"assistant_message_start", "assistant_message_stop"}
  PROVE  Unfinished(r.messages)
<1>1. PICK ms, rs : ms = tl.messages /\ rs = r.messages
  OBVIOUS
<1>2. /\ e.type = "user_message" => rs = Append(ms, UserTurn(e.content))
      /\ e.type \in MidStream => rs = ms \/ Amends(rs, ms, e)
      /\ e.type \notin MidStream \cup {"user_message", "assistant_message_start"} => rs = ms
  BY <1>1, ReduceMessages
<1>3. IsThread(ms) /\ Unfinished(ms)
  BY <1>1 DEF IsTimeline
<1>4. CASE e.type = "user_message"
  <2>1. IsTurn(UserTurn(e.content)) /\ UserTurn(e.content).role = "user"
    BY TurnsAreTurns DEF UserTurn
  <2> QED
    BY <1>1, <1>2, <1>3, <1>4, <2>1, UnfinishedAppended
<1>5. CASE e.type \in MidStream /\ Amends(rs, ms, e)
  <2>1. PICK n \in Nat : n = Len(ms) /\ n # 0
    BY <1>3, ListedLength DEF IsThread, Unfinished
  <2>2. /\ IsThread(rs) /\ Len(rs) = n
        /\ \A i \in 1 .. n : rs[i].role = ms[i].role /\ rs[i].isComplete = ms[i].isComplete
    BY <1>3, <1>5, <2>1, AmendedThread
  <2>3. n \in 1 .. n
    BY <2>1
  <2>4. rs # <<>>
    <3>1. Len(<<>>) = 0
      BY EmptySeq
    <3> QED
      BY <2>1, <2>2, <3>1
  <2> QED
    BY <1>1, <1>3, <2>1, <2>2, <2>3, <2>4 DEF Unfinished
<1> QED
  BY <1>1, <1>2, <1>3, <1>4, <1>5

\* While a message of the root streams, the page says that the assistant is generating, also
\* with a bubble of the user below it.
LEMMA StreamsIsGenerating ==
  ASSUME NEW evs, Listed(evs), Streams(evs)
  PROVE  IsGenerating(evs)
<1>1. PICK n \in Nat : n = Len(evs)
  BY ListedLength
<1>2. PICK g : FoldsRoot(g, evs, n)
  BY <1>1, RootSteps
<1>3. PICK b \in 1 .. n : /\ evs[b].type = "assistant_message_start" /\ evs[b].parent = "root"
                          /\ \A j \in (b + 1) .. n :
                               evs[j].type \notin {"assistant_message_start", "assistant_message_stop"}
  BY <1>1 DEF Streams
<1>4. Unfinished(g[b].messages)
  <2>1. b \in DOMAIN evs
    BY <1>1, ListedLength
  <2>2. Parents(evs)[b] = "root"
    BY <1>3, <2>1, ParentOfEvent DEF Establishes
  <2>3. PICK tl, r : tl = g[b - 1] /\ r = g[b]
    OBVIOUS
  <2>4. r = Reduce(tl, evs[b])
    BY <1>2, <2>2, <2>3 DEF FoldsRoot
  <2>5. b - 1 \in 0 .. n
    OBVIOUS
  <2>6. IsTimeline(tl)
    BY <1>2, <2>3, <2>5, RootIsTimeline
  <2>7. r.messages = Append(tl.messages, AssistantTurn(evs[b].message_id))
    BY <1>3, <2>4, <2>6, ReduceMessages
  <2>8. PICK x : x = AssistantTurn(evs[b].message_id)
    OBVIOUS
  <2>9. IsTurn(x) /\ ~ x.isComplete
    BY <2>8, TurnsAreTurns DEF AssistantTurn
  <2>10. Unfinished(Append(tl.messages, x))
    BY <2>6, <2>9, UnfinishedAppended DEF IsTimeline
  <2> QED
    BY <2>3, <2>7, <2>8, <2>10
<1> DEFINE T == {i \in b .. n : ~ Unfinished(g[i].messages)}
<1>5. ASSUME T # {} PROVE FALSE
  <2>1. T \in SUBSET Nat
    OBVIOUS
  <2> HIDE DEF T
  <2>2. PICK i \in T : \A j \in T : i <= j
    BY <1>5, <2>1, LeastNat
  <2> USE DEF T
  <2>3. i # b
    BY <1>4, <2>2
  <2>4. i \in (b + 1) .. n /\ i \in 1 .. n /\ i - 1 \in b .. n /\ i - 1 \in 0 .. n /\ i - 1 \notin T
    BY <2>2, <2>3
  <2>5. PICK tl, r : tl = g[i - 1] /\ r = Reduce(tl, evs[i])
    OBVIOUS
  <2>6. g[i] = r \/ g[i] = tl
    BY <1>2, <2>4, <2>5 DEF FoldsRoot
  <2>7. Unfinished(tl.messages) /\ IsTimeline(tl)
    BY <1>2, <2>4, <2>5, RootIsTimeline
  <2>8. Unfinished(r.messages)
    BY <1>3, <2>4, <2>5, <2>7, UnfinishedReduced
  <2> QED
    BY <2>2, <2>6, <2>7, <2>8
<1>6. n \in b .. n
  OBVIOUS
<1>7. Unfinished(g[n].messages)
  BY <1>5, <1>6
<1>8. Root(evs) = g[n]
  BY <1>2 DEF FoldsRoot
<1> QED
  BY <1>7, <1>8 DEF IsGenerating, Unfinished, Last

\* What the mapper makes of the messages of this page never is a bubble of the user.
IsOwn(e) == e.type = "user_message" /\ e.parent = "root"

Quiet(s) == Listed(s) /\ \A i \in 1 .. Len(s) : ~ IsOwn(s[i])

LEMMA QuietOne ==
  ASSUME NEW e, ~ IsOwn(e)
  PROVE  Quiet(<<e>>)
<1>1. PICK s : s = <<e>>
  OBVIOUS
<1>2. s \in Seq({e}) /\ Len(s) = 1 /\ s[1] = e
  BY <1>1
<1>3. \A i \in 1 .. 1 : i = 1
  OBVIOUS
<1> QED
  BY <1>1, <1>2, <1>3 DEF Quiet, Listed

LEMMA QuietNone == Quiet(<<>>)
<1>1. <<>> \in Seq({}) /\ Len(<<>>) = 0
  BY EmptySeq
<1> QED
  BY <1>1 DEF Quiet, Listed

LEMMA QuietJoined ==
  ASSUME NEW s, Quiet(s), NEW t, Quiet(t)
  PROVE  Quiet(s \o t)
<1>1. /\ Listed(s \o t)
      /\ \A i \in 1 .. Len(s) : (s \o t)[i] = s[i]
      /\ \A i \in 1 .. Len(s \o t) : i \in 1 .. Len(s) \/ \E j \in 1 .. Len(t) : (s \o t)[i] = t[j]
  BY ListedJoined DEF Quiet
<1> QED
  BY <1>1 DEF Quiet

LEMMA StreamEventsQuiet ==
  ASSUME NEW m PROVE Quiet(MapStreamEvent(m))
<1>1. ASSUME NEW p, NEW b PROVE Quiet(<<Passthrough(p, b)>>)
  <2>1. ~ IsOwn(Passthrough(p, b))
    BY DEF IsOwn, Passthrough
  <2> QED
    BY <2>1, QuietOne
<1>2. Quiet(MapDelta(m))
  <2>1. ASSUME NEW k, NEW b, NEW x
        PROVE  /\ ~ IsOwn([type |-> "assistant_text_delta", message_id |-> x, index |-> k, text |-> b])
               /\ ~ IsOwn([type |-> "assistant_thinking_delta", message_id |-> x, index |-> k, text |-> b])
               /\ ~ IsOwn([type |-> "assistant_tool_use_input_delta", message_id |-> x,
                           index |-> k, text |-> b])
    BY DEF IsOwn
  <2>2. CASE Field(Delta(m), "type", "") = "text_delta"
    BY <2>1, <2>2, QuietOne DEF MapDelta
  <2>3. CASE Field(Delta(m), "type", "") = "thinking_delta"
    BY <2>1, <2>3, QuietOne DEF MapDelta
  <2>4. CASE Field(Delta(m), "type", "") = "input_json_delta"
    BY <2>1, <2>4, QuietOne DEF MapDelta
  <2>5. CASE Field(Delta(m), "type", "") \notin {"text_delta", "thinking_delta", "input_json_delta"}
    BY <2>5, QuietNone DEF MapDelta
  <2> QED
    BY <2>2, <2>3, <2>4, <2>5
<1>3. ASSUME NEW x, NEW b, NEW k
      PROVE  /\ Quiet(<<[type |-> "assistant_message_start", message_id |-> x, parent |-> b]>>)
             /\ Quiet(<<[type |-> "assistant_content_block_start", message_id |-> x, index |-> k,
                         block |-> b]>>)
             /\ Quiet(<<[type |-> "assistant_content_block_stop", message_id |-> x, index |-> k]>>)
             /\ Quiet(<<[type |-> "assistant_message_delta", message_id |-> x, stop_reason |-> b]>>)
             /\ Quiet(<<[type |-> "assistant_message_stop", message_id |-> x]>>)
  <2>1. /\ ~ IsOwn([type |-> "assistant_message_start", message_id |-> x, parent |-> b])
        /\ ~ IsOwn([type |-> "assistant_content_block_start", message_id |-> x, index |-> k,
                    block |-> b])
        /\ ~ IsOwn([type |-> "assistant_content_block_stop", message_id |-> x, index |-> k])
        /\ ~ IsOwn([type |-> "assistant_message_delta", message_id |-> x, stop_reason |-> b])
        /\ ~ IsOwn([type |-> "assistant_message_stop", message_id |-> x])
    BY DEF IsOwn
  <2> QED
    BY <2>1, QuietOne
<1>4. CASE InnerType(m) = "message_start"
  BY <1>3, <1>4 DEF MapStreamEvent
<1>5. CASE InnerType(m) = "content_block_start"
  BY <1>3, <1>5 DEF MapStreamEvent
<1>6. CASE InnerType(m) = "content_block_delta"
  BY <1>2, <1>6 DEF MapStreamEvent
<1>7. CASE InnerType(m) = "content_block_stop"
  BY <1>3, <1>7 DEF MapStreamEvent
<1>8. CASE InnerType(m) = "message_delta"
  BY <1>3, <1>8 DEF MapStreamEvent
<1>9. CASE InnerType(m) = "message_stop"
  BY <1>3, <1>9 DEF MapStreamEvent
<1>10. CASE InnerType(m) \notin InnerTypes
  BY <1>1, <1>10 DEF MapStreamEvent, InnerTypes
<1> QED
  BY <1>4, <1>5, <1>6, <1>7, <1>8, <1>9, <1>10 DEF InnerTypes

\* What a message of a stream says.
LEMMA FromSays ==
  ASSUME NEW q, NEW m, "parent_tool_use_id" \notin DOMAIN m, m # Scalar \/ q # "root"
  PROVE  /\ \A k \in DOMAIN m : k \in DOMAIN From(q, m) /\ From(q, m)[k] = m[k]
         /\ q # "root" => /\ "parent_tool_use_id" \in DOMAIN From(q, m)
                          /\ From(q, m)["parent_tool_use_id"] = q
BY DEF From

LEMMA HasFieldsIsObject ==
  ASSUME NEW m, NEW k \in DOMAIN m
  PROVE  IsObject(m)
<1>1. DOMAIN <<>> = {}
  OBVIOUS
<1> QED
  BY <1>1 DEF IsObject, Scalar

LEMMA StreamQuiet ==
  ASSUME NEW q, NEW ev
  PROVE  Quiet(MapSdkMessage(Stream(q, ev)))
<1>1. PICK b : b = [type |-> "stream_event", event |-> ev]
  OBVIOUS
<1>2. /\ "type" \in DOMAIN b /\ b["type"] = "stream_event" /\ b # Scalar
      /\ "parent_tool_use_id" \notin DOMAIN b
  BY <1>1 DEF Scalar
<1>3. PICK m : m = From(q, b)
  OBVIOUS
<1>4. "type" \in DOMAIN m /\ m["type"] = "stream_event"
  BY <1>2, <1>3, FromSays
<1>5. Field(m, "type", "") = "stream_event" /\ IsObject(m)
  BY <1>4, HasFieldsIsObject DEF Field
<1>6. MapSdkMessage(m) = MapStreamEvent(m)
  BY <1>5 DEF MapSdkMessage
<1> QED
  BY <1>1, <1>3, <1>6, StreamEventsQuiet DEF Stream

LEMMA PromptQuiet ==
  ASSUME NEW q, q # "root", NEW x
  PROVE  Quiet(MapSdkMessage(From(q, [type |-> "user", message |-> [content |-> [text |-> x]]])))
<1>1. PICK c : c = [text |-> x]
  OBVIOUS
<1>2. PICK b : b = [type |-> "user", message |-> [content |-> c]]
  OBVIOUS
<1>3. /\ "type" \in DOMAIN b /\ b["type"] = "user" /\ "message" \in DOMAIN b
      /\ b["message"] = [content |-> c] /\ "parent_tool_use_id" \notin DOMAIN b
  BY <1>2
<1>4. PICK m : m = From(q, b)
  OBVIOUS
<1>5. /\ "type" \in DOMAIN m /\ m["type"] = "user" /\ "message" \in DOMAIN m
      /\ m["message"] = [content |-> c]
      /\ "parent_tool_use_id" \in DOMAIN m /\ m["parent_tool_use_id"] = q
  BY <1>3, <1>4, FromSays
<1>6. Field(m, "type", "") = "user" /\ IsObject(m) /\ Parent(m) = q
  BY <1>5, HasFieldsIsObject DEF Field, Parent
<1>7. Field(Field(m, "message", Scalar), "content", Scalar) = c
  BY <1>5 DEF Field
<1>8. "text" \in DOMAIN c
  BY <1>1
<1>9. MapUser(m) = <<[type |-> "user_message", content |-> <<[type |-> "text", text |-> c.text]>>,
                      parent |-> q]>>
  BY <1>6, <1>7, <1>8 DEF MapUser
<1>10. MapSdkMessage(m) = MapUser(m)
  BY <1>6 DEF MapSdkMessage
<1>11. ~ IsOwn([type |-> "user_message", content |-> <<[type |-> "text", text |-> c.text]>>,
                parent |-> q])
  BY DEF IsOwn
<1> QED
  BY <1>1, <1>2, <1>4, <1>9, <1>10, <1>11, QuietOne

LEMMA ResultQuiet ==
  ASSUME NEW q, NEW id, NEW x
  PROVE  Quiet(MapSdkMessage(From(q,
           [type |-> "user",
            message |-> [content |-> [blocks |->
              <<[type |-> "tool_result", tool_use_id |-> id, content |-> [text |-> x]]>>]]])))
<1>1. PICK r : r = [type |-> "tool_result", tool_use_id |-> id, content |-> [text |-> x]]
  OBVIOUS
<1>2. PICK c : c = [blocks |-> <<r>>]
  OBVIOUS
<1>3. PICK b : b = [type |-> "user", message |-> [content |-> c]]
  OBVIOUS
<1>4. /\ "type" \in DOMAIN b /\ b["type"] = "user" /\ "message" \in DOMAIN b
      /\ b["message"] = [content |-> c] /\ "parent_tool_use_id" \notin DOMAIN b /\ b # Scalar
  BY <1>3 DEF Scalar
<1>5. PICK m : m = From(q, b)
  OBVIOUS
<1>6. /\ "type" \in DOMAIN m /\ m["type"] = "user" /\ "message" \in DOMAIN m
      /\ m["message"] = [content |-> c]
  BY <1>4, <1>5, FromSays
<1>7. Field(m, "type", "") = "user" /\ IsObject(m)
  BY <1>6, HasFieldsIsObject DEF Field
<1>8. Field(Field(m, "message", Scalar), "content", Scalar) = c
  BY <1>6 DEF Field
<1>9. "text" \notin DOMAIN c /\ "blocks" \in DOMAIN c /\ c.blocks = <<r>>
  BY <1>2
<1>10. PICK t : t = ParseContentBlock(r)
  OBVIOUS
<1>11. t.type = "tool_result"
  <2>1. Field(r, "type", "") = "tool_result"
    BY <1>1 DEF Field
  <2> QED
    BY <1>10, <2>1 DEF ParseContentBlock
<1>12. PICK s : s = [i \in DOMAIN c.blocks |-> ParseContentBlock(c.blocks[i])]
  OBVIOUS
<1>13. DOMAIN c.blocks = 1 .. 1 /\ c.blocks[1] = r
  BY <1>9
<1>14. s = [i \in 1 .. 1 |-> t]
  <2>1. \A i \in 1 .. 1 : i = 1
    OBVIOUS
  <2> QED
    BY <1>10, <1>12, <1>13, <2>1
<1>15. s \in [1 .. 1 -> {t}]
  BY <1>14
<1>16. s \in Seq({t}) /\ Len(s) = 1 /\ s[1] = t
  BY <1>14, <1>15, SeqDef, LenProperties
<1>17. PICK S : S = {e \in Entries(s) : e.type = "tool_result"}
  OBVIOUS
<1>18. t \in S
  BY <1>11, <1>16, <1>17 DEF Entries
<1>19. PICK f : Filtering(f, {t}, s, S, 1)
  BY <1>16, AmongSteps
<1>20. Among(s, S) = Append(<<>>, t)
  <2>1. 1 \in 1 .. 1 /\ 1 - 1 = 0
    OBVIOUS
  <2> QED
    BY <1>16, <1>18, <1>19, <2>1 DEF Filtering
<1>21. PICK w : w = Among(s, S)
  OBVIOUS
<1>22. Len(w) = 1 /\ DOMAIN w = 1 .. 1
  <2>1. <<>> \in Seq({t})
    OBVIOUS
  <2>2. w \in Seq({t}) /\ Len(w) = 1
    BY <1>20, <1>21, <2>1, AppendProperties
  <2> QED
    BY <2>2, LenProperties
<1>23. w # <<>>
  <2>1. DOMAIN <<>> = {}
    OBVIOUS
  <2> QED
    BY <1>22, <2>1
<1>24. PICK o : o = [i \in DOMAIN w |->
                     [type |-> "tool_result", tool_use_id |-> w[i].tool_use_id,
                      content |-> w[i].content, is_error |-> w[i].is_error,
                      parent |-> Parent(m)]]
  OBVIOUS
<1>25. MapUser(m) = o
  BY <1>8, <1>9, <1>12, <1>17, <1>21, <1>23, <1>24, ZenonT(60) DEF MapUser
<1>26. MapSdkMessage(m) = MapUser(m)
  BY <1>7 DEF MapSdkMessage
<1>27. Quiet(o)
  <2>1. o \in [1 .. 1 -> {o[1]}]
    <3>1. o = [i \in 1 .. 1 |-> o[i]] /\ \A i \in 1 .. 1 : i = 1
      BY <1>22, <1>24
    <3> QED
      BY <3>1
  <2>2. o \in Seq({o[1]}) /\ Len(o) = 1
    <3> PICK E : E = {o[1]}
      OBVIOUS
    <3>1. o \in [1 .. 1 -> E]
      BY <2>1
    <3>2. o \in Seq(E)
      BY <3>1, SeqDef
    <3> QED
      BY <3>1, <3>2, LenProperties
  <2>3. 1 \in DOMAIN w
    BY <1>22
  <2>4. o[1].type = "tool_result"
    BY <1>24, <2>3
  <2> QED
    BY <2>2, <2>4 DEF Quiet, Listed, IsOwn
<1> QED
  BY <1>1, <1>2, <1>3, <1>5, <1>25, <1>26, <1>27

LEMMA AmongNone ==
  ASSUME NEW S PROVE Among(<<>>, S) = <<>>
<1>1. PICK n \in Nat : n = 0
  OBVIOUS
<1>2. <<>> \in Seq({}) /\ Len(<<>>) = 0
  BY EmptySeq
<1>3. PICK f : Filtering(f, {}, <<>>, S, n)
  BY <1>1, <1>2, AmongSteps
<1> QED
  BY <1>1, <1>3 DEF Filtering

LEMMA ListedNone == Listed(<<>>) /\ Len(<<>>) = 0
<1>1. <<>> \in Seq({}) /\ Len(<<>>) = 0
  BY EmptySeq
<1> QED
  BY <1>1 DEF Listed

\* The messages among the frames that were sent.
Sent(fs) == Among(fs, {f \in Entries(fs) : f.type = "user_message"})

LEMMA SentAppended ==
  ASSUME NEW fs, Listed(fs), NEW e
  PROVE  Sent(Append(fs, e)) = IF e.type = "user_message" THEN Append(Sent(fs), e) ELSE Sent(fs)
<1>1. PICK n \in Nat : n = Len(fs)
  BY ListedLength
<1>2. PICK E : fs \in Seq(E)
  BY DEF Listed
<1>3. PICK F : F = E \cup {e}
  OBVIOUS
<1>4. fs \in Seq(F) /\ e \in F
  BY <1>2, <1>3
<1>5. PICK a : a = Append(fs, e)
  OBVIOUS
<1>6. a \in Seq(F) /\ Len(a) = n + 1 /\ a[n + 1] = e /\ \A i \in 1 .. n : a[i] = fs[i]
  BY <1>1, <1>4, <1>5, AppendProperties
<1> DEFINE Own(m) == m.type = "user_message"
<1>7. PICK S, R : S = {m \in Entries(a) : Own(m)} /\ R = {m \in Entries(fs) : Own(m)}
  OBVIOUS
<1>8. ASSUME NEW i \in 1 .. n PROVE fs[i] \in S <=> fs[i] \in R
  <2>1. i \in 1 .. (n + 1) /\ a[i] = fs[i]
    BY <1>6
  <2>2. fs[i] \in Entries(a) /\ fs[i] \in Entries(fs)
    BY <1>1, <1>6, <2>1 DEF Entries
  <2> QED
    BY <1>7, <2>2
<1>9. e \in S <=> Own(e)
  <2>1. n + 1 \in 1 .. (n + 1)
    OBVIOUS
  <2>2. e \in Entries(a)
    BY <1>6, <2>1 DEF Entries
  <2> QED
    BY <1>7, <2>2
<1>10. Among(a, S) = IF e \in S THEN Append(Among(fs, R), e) ELSE Among(fs, R)
  BY <1>1, <1>4, <1>5, <1>8, AmongAppended
<1> QED
  BY <1>5, <1>7, <1>9, <1>10 DEF Sent

\* Lists as long, the first's contents the second's texts.
Echoes(ss, fs) ==
  /\ Listed(ss) /\ Listed(fs) /\ Len(ss) = Len(fs)
  /\ \A i \in 1 .. Len(ss) : ss[i].content = <<[type |-> "text", text |-> fs[i].text]>>

LEMMA EchoesAppended ==
  ASSUME NEW ss, NEW fs, Echoes(ss, fs), NEW s, NEW f,
         s.content = <<[type |-> "text", text |-> f.text]>>
  PROVE  Echoes(Append(ss, s), Append(fs, f))
<1>1. PICK n \in Nat : n = Len(fs) /\ n = Len(ss)
  BY ListedLength DEF Echoes
<1>2. /\ Listed(Append(fs, f)) /\ Len(Append(fs, f)) = n + 1
      /\ Append(fs, f)[n + 1] = f /\ \A i \in 1 .. n : Append(fs, f)[i] = fs[i]
  BY <1>1, ListedAppend DEF Echoes
<1>3. /\ Listed(Append(ss, s)) /\ Len(Append(ss, s)) = n + 1
      /\ Append(ss, s)[n + 1] = s /\ \A i \in 1 .. n : Append(ss, s)[i] = ss[i]
  BY <1>1, ListedAppend DEF Echoes
<1>4. \A i \in 1 .. (n + 1) : i = n + 1 \/ i \in 1 .. n
  OBVIOUS
<1>5. \A i \in 1 .. n : ss[i].content = <<[type |-> "text", text |-> fs[i].text]>>
  BY <1>1 DEF Echoes
<1>6. ASSUME NEW i \in 1 .. (n + 1)
      PROVE  Append(ss, s)[i].content = <<[type |-> "text", text |-> Append(fs, f)[i].text]>>
  <2>1. CASE i = n + 1
    BY <1>2, <1>3, <2>1
  <2>2. CASE i \in 1 .. n
    BY <1>2, <1>3, <1>5, <2>2
  <2> QED
    BY <1>4, <2>1, <2>2
<1> QED
  BY <1>2, <1>3, <1>6 DEF Echoes

LEMMA EchoesNone == Echoes(Said(<<>>), Sent(<<>>))
<1>1. Said(<<>>) = <<>> /\ Sent(<<>>) = <<>>
  BY AmongNone DEF Said, Sent
<1>2. \A i \in 1 .. 0 : FALSE
  OBVIOUS
<1> QED
  BY <1>1, <1>2, ListedNone DEF Echoes

LEMMA StreamsAppended ==
  ASSUME NEW evs, Listed(evs), NEW e,
         \/ e.type = "assistant_message_start" /\ e.parent = "root"
         \/ /\ e.type \notin {"assistant_message_start", "assistant_message_stop"}
            /\ Streams(evs)
  PROVE  Streams(Append(evs, e))
<1>1. PICK n \in Nat : n = Len(evs)
  BY ListedLength
<1>2. PICK a : a = Append(evs, e)
  OBVIOUS
<1>3. Len(a) = n + 1 /\ a[n + 1] = e /\ \A i \in 1 .. n : a[i] = evs[i]
  BY <1>1, <1>2, ListedAppend
<1> DEFINE Quits(x) == x.type \in {"assistant_message_start", "assistant_message_stop"}
<1>4. CASE e.type = "assistant_message_start" /\ e.parent = "root"
  <2>1. n + 1 \in 1 .. (n + 1) /\ (n + 1 + 1) .. (n + 1) = {}
    OBVIOUS
  <2>2. \A j \in ((n + 1) + 1) .. (n + 1) : ~ Quits(a[j])
    BY <2>1
  <2> QED
    BY <1>2, <1>3, <1>4, <2>1, <2>2 DEF Streams
<1>5. CASE ~ Quits(e) /\ Streams(evs)
  <2>1. PICK b \in 1 .. n : /\ evs[b].type = "assistant_message_start" /\ evs[b].parent = "root"
                            /\ \A j \in (b + 1) .. n : ~ Quits(evs[j])
    BY <1>1, <1>5 DEF Streams
  <2>2. b \in 1 .. (n + 1) /\ a[b] = evs[b]
    BY <1>3
  <2>3. ASSUME NEW j \in (b + 1) .. (n + 1) PROVE ~ Quits(a[j])
    <3>1. j = n + 1 \/ (j \in (b + 1) .. n /\ j \in 1 .. n)
      OBVIOUS
    <3> QED
      BY <1>3, <1>5, <2>1, <3>1
  <2> QED
    BY <1>2, <1>3, <2>1, <2>2, <2>3 DEF Streams
<1> QED
  BY <1>4, <1>5

\* Between two places of the wire a message of the root has begun, and is the last to.
OpenRoot(w, a, b) ==
  \E k \in (a + 1) .. b :
    /\ w[k].type = "assistant_message_start" /\ w[k].parent = "root"
    /\ \A j \in (k + 1) .. b : w[j].type \notin {"assistant_message_start", "assistant_message_stop"}

LEMMA OpenNext ==
  ASSUME NEW w, NEW a \in Nat, NEW b \in Nat, a <= b, OpenRoot(w, a, b + 1)
  PROVE  \/ w[b + 1].type = "assistant_message_start" /\ w[b + 1].parent = "root"
         \/ /\ w[b + 1].type \notin {"assistant_message_start", "assistant_message_stop"}
            /\ OpenRoot(w, a, b)
<1> DEFINE Quits(x) == x.type \in {"assistant_message_start", "assistant_message_stop"}
<1>1. PICK k \in (a + 1) .. (b + 1) :
         /\ w[k].type = "assistant_message_start" /\ w[k].parent = "root"
         /\ \A j \in (k + 1) .. (b + 1) : ~ Quits(w[j])
  BY DEF OpenRoot
<1>2. CASE k = b + 1
  BY <1>1, <1>2
<1>3. CASE k # b + 1
  <2>1. k \in (a + 1) .. b /\ b + 1 \in (k + 1) .. (b + 1)
    BY <1>3
  <2>2. \A j \in (k + 1) .. b : j \in (k + 1) .. (b + 1)
    BY <2>1
  <2>3. \A j \in (k + 1) .. b : ~ Quits(w[j])
    BY <1>1, <2>2
  <2>4. ~ Quits(w[b + 1])
    BY <1>1, <2>1
  <2> QED
    BY <1>1, <2>1, <2>3, <2>4 DEF OpenRoot
<1> QED
  BY <1>2, <1>3

\* The wire only grows, and no bubble of the user is on it.
Grows(w, v) ==
  /\ Quiet(v) /\ Len(w) <= Len(v)
  /\ \A i \in 1 .. Len(w) : v[i] = w[i]

LEMMA OpenGrows ==
  ASSUME NEW w, NEW v, Quiet(w), Grows(w, v), NEW a \in Nat, NEW b \in Nat, b <= Len(w),
         OpenRoot(v, a, b)
  PROVE  OpenRoot(w, a, b)
<1>1. PICK n \in Nat : n = Len(w)
  BY ListedLength DEF Quiet
<1>2. \A i \in 1 .. n : v[i] = w[i]
  BY <1>1 DEF Grows
<1>3. \A i \in (a + 1) .. b : v[i] = w[i]
  BY <1>1, <1>2
<1>4. \A k \in (a + 1) .. b : \A j \in (k + 1) .. b : j \in (a + 1) .. b
  OBVIOUS
<1> QED
  BY <1>3, <1>4 DEF OpenRoot

LEMMA GrowsJoined ==
  ASSUME NEW w, Quiet(w), NEW t, Quiet(t)
  PROVE  Grows(w, w \o t)
<1>1. Len(w) \in Nat /\ Len(t) \in Nat
  BY ListedLength DEF Quiet
<1>2. Len(w \o t) = Len(w) + Len(t) /\ \A i \in 1 .. Len(w) : (w \o t)[i] = w[i]
  BY ListedJoined DEF Quiet
<1> QED
  BY <1>1, <1>2, QuietJoined DEF Grows

LEMMA GrowsAgain ==
  ASSUME NEW u, Quiet(u), NEW w, Grows(u, w), NEW v, Grows(w, v)
  PROVE  Grows(u, v)
<1>1. Len(u) \in Nat /\ Len(w) \in Nat /\ Len(v) \in Nat
  BY ListedLength DEF Quiet, Grows
<1> QED
  BY <1>1 DEF Grows

-----------------------------------------------------------------------------
(* ChatPage: what the assistant does *)

\* Whatever the assistant does, it only adds to the wire.
LEMMA AgentGrows ==
  ASSUME Quiet(wire), Agent
  PROVE  Grows(wire, wire') /\ AgentStep
<1>1. ASSUME NEW m, Quiet(MapSdkMessage(m)), Emit(m) PROVE Grows(wire, wire')
  BY <1>1, GrowsJoined DEF Emit
<1>2. ASSUME NEW q, StartMessage(q) PROVE Grows(wire, wire') /\ AgentStep
  <2> DEFINE Prompt(x) == From(q, [type |-> "user", message |-> [content |-> [text |-> x]]])
  <2>1. PICK ev, x, y :
           /\ wire' = wire \o (IF y THEN MapSdkMessage(Prompt(x)) ELSE <<>>)
                           \o MapSdkMessage(Stream(q, ev))
           /\ y => q # "root"
    <3>1. PICK ev : ev = [type |-> "message_start", message |-> [id |-> Ids[Len(said) + 1]]]
      OBVIOUS
    <3>2. PICK y : y = (q # "root" /\ ~ Spoken(q))
      OBVIOUS
    <3>3. wire' = wire \o (IF y THEN MapSdkMessage(Prompt("prompt")) ELSE <<>>)
                       \o MapSdkMessage(Stream(q, ev))
      BY <1>2, <3>1, <3>2, Zenon DEF StartMessage
    <3> QED
      BY <3>2, <3>3, Zenon
  <2>2. PICK a, b : /\ a = IF y THEN MapSdkMessage(Prompt(x)) ELSE <<>>
                    /\ b = MapSdkMessage(Stream(q, ev))
    OBVIOUS
  <2>3. Quiet(b)
    BY <2>2, StreamQuiet
  <2>4. Quiet(a)
    <3>1. CASE y
      <4>1. q # "root"
        BY <2>1, <3>1
      <4>2. Quiet(MapSdkMessage(Prompt(x)))
        BY <4>1, PromptQuiet
      <4> QED
        BY <2>2, <3>1, <4>2, Zenon
    <3>2. CASE ~ y
      <4>1. a = <<>>
        BY <2>2, <3>2, Zenon
      <4> QED
        BY <4>1, QuietNone
    <3> QED
      BY <3>1, <3>2, Zenon
  <2>5. wire' = (wire \o a) \o b
    BY <2>1, <2>2, Zenon
  <2>6. Grows(wire, wire \o a) /\ Quiet(wire \o a)
    BY <2>4, GrowsJoined DEF Grows
  <2>7. Grows(wire \o a, (wire \o a) \o b)
    BY <2>3, <2>6, GrowsJoined
  <2>8. Grows(wire, (wire \o a) \o b)
    BY <2>6, <2>7, GrowsAgain
  <2>9. AgentStep
    BY <1>2 DEF StartMessage
  <2> QED
    BY <2>5, <2>8, <2>9
<1>3. ASSUME NEW q, NEW ev, Emit(Stream(q, ev)) PROVE Grows(wire, wire')
  BY <1>1, <1>3, StreamQuiet
<1>4. ASSUME NEW type, NEW id, StartBlock(type, id) PROVE Grows(wire, wire') /\ AgentStep
  <2>1. \E q, ev : Emit(Stream(q, ev))
    BY <1>4, Zenon DEF StartBlock
  <2>2. AgentStep
    BY <1>4 DEF StartBlock
  <2> QED
    BY <1>3, <2>1, <2>2
<1>5. ASSUME NEW piece, WriteBlock(piece) PROVE Grows(wire, wire') /\ AgentStep
  <2>1. \E q, ev : Emit(Stream(q, ev))
    BY <1>5, Zenon DEF WriteBlock
  <2>2. AgentStep
    BY <1>5 DEF WriteBlock
  <2> QED
    BY <1>3, <2>1, <2>2
<1>6. ASSUME EndBlock PROVE Grows(wire, wire') /\ AgentStep
  <2>1. \E q, ev : Emit(Stream(q, ev))
    BY <1>6, Zenon DEF EndBlock
  <2>2. AgentStep
    BY <1>6 DEF EndBlock
  <2> QED
    BY <1>3, <2>1, <2>2
<1>7. ASSUME EndMessage PROVE Grows(wire, wire') /\ AgentStep
  <2>1. PICK a, b : /\ a = MapSdkMessage(Stream(Last(said).stream, [type |-> "message_delta"]))
                    /\ b = MapSdkMessage(Stream(Last(said).stream, [type |-> "message_stop"]))
    OBVIOUS
  <2>2. Quiet(a) /\ Quiet(b)
    BY <2>1, StreamQuiet
  <2>3. wire' = (wire \o a) \o b /\ AgentStep
    BY <1>7, <2>1 DEF EndMessage
  <2>4. Grows(wire, wire \o a) /\ Quiet(wire \o a)
    BY <2>2, GrowsJoined DEF Grows
  <2>5. Grows(wire \o a, (wire \o a) \o b)
    BY <2>2, <2>4, GrowsJoined
  <2>6. Grows(wire, (wire \o a) \o b)
    BY <2>4, <2>5, GrowsAgain
  <2> QED
    BY <2>3, <2>6
<1>8. ASSUME NEW id, ToolReturns(id) PROVE Grows(wire, wire') /\ AgentStep
  <2>1. PICK m : m = From(CallerOf(id),
                   [type |-> "user",
                    message |-> [content |-> [blocks |->
                      <<[type |-> "tool_result", tool_use_id |-> id, content |-> [text |-> id]]>>]]])
    OBVIOUS
  <2>2. Emit(m) /\ AgentStep
    BY <1>8, <2>1 DEF ToolReturns
  <2>3. Quiet(MapSdkMessage(m))
    BY <2>1, ResultQuiet
  <2> QED
    BY <1>1, <2>2, <2>3
<1>9. ASSUME AskUser PROVE Grows(wire, wire') /\ AgentStep
  <2>1. PICK e : e = [type |-> "passthrough", kind |-> <<"neige", "ask_user_question">>,
                      payload |-> Len(posed) + 1]
    OBVIOUS
  <2>2. wire' = Append(wire, e) /\ AgentStep
    BY <1>9, <2>1 DEF AskUser
  <2>3. ~ IsOwn(e)
    BY <2>1 DEF IsOwn
  <2>4. PICK n \in Nat : n = Len(wire)
    BY ListedLength DEF Quiet
  <2>5. PICK v : v = Append(wire, e)
    OBVIOUS
  <2>6. Listed(v) /\ Len(v) = n + 1 /\ v[n + 1] = e /\ \A i \in 1 .. n : v[i] = wire[i]
    BY <2>4, <2>5, ListedAppend DEF Quiet
  <2>7. \A i \in 1 .. (n + 1) : i = n + 1 \/ i \in 1 .. n
    OBVIOUS
  <2>8. Quiet(v)
    BY <2>3, <2>4, <2>6, <2>7 DEF Quiet
  <2> QED
    BY <2>2, <2>4, <2>5, <2>6, <2>8 DEF Grows
<1> QED
  BY <1>2, <1>4, <1>5, <1>6, <1>7, <1>8, <1>9, Zenon DEF Agent

-----------------------------------------------------------------------------
(* ChatPage: question cards *)

\* A card, and what was last said in it.
IsCard(c) ==
  /\ c = [picks |-> c.picks, multi |-> c.multi, drafts |-> c.drafts, submitted |-> c.submitted]
  /\ DOMAIN c.picks = DOMAIN Ask /\ DOMAIN c.multi = DOMAIN Ask /\ DOMAIN c.drafts = DOMAIN Ask

Agrees(c, w) ==
  /\ IsCard(c)
  /\ w = [i \in DOMAIN Ask |-> w[i]]
  /\ \A i \in DOMAIN Ask : Value(Ask, c, i) = w[i]

LEMMA NewCardAgrees == Agrees(NewCard(Ask), [i \in DOMAIN Ask |-> {}])
<1>1. PICK c : c = NewCard(Ask)
  OBVIOUS
<1>2. PICK D : D = DOMAIN Ask
  OBVIOUS
<1>3. c = [picks |-> [i \in D |-> ""], multi |-> [i \in D |-> {}], drafts |-> [i \in D |-> ""],
           submitted |-> FALSE]
  BY <1>1, <1>2 DEF NewCard
<1>4. IsCard(c)
  BY <1>2, <1>3 DEF IsCard
<1>5. ASSUME NEW i \in D PROVE Value(Ask, c, i) = {}
  <2>1. Trim(c.drafts[i]) = ""
    BY <1>3 DEF Trim, Blank
  <2>2. Value(Ask, c, i) = Nonempty(IF Ask[i].multi THEN c.multi[i] ELSE {c.picks[i]})
    BY <2>1 DEF Value
  <2>3. c.multi[i] = {} /\ c.picks[i] = ""
    BY <1>3
  <2>4. Nonempty({}) = {} /\ Nonempty({""}) = {}
    BY DEF Nonempty
  <2> QED
    BY <2>2, <2>3, <2>4
<1> QED
  BY <1>1, <1>2, <1>4, <1>5 DEF Agrees

\* A pick in a card.
LEMMA ClickAgrees ==
  ASSUME NEW c, NEW w, Agrees(c, w), NEW i \in DOMAIN Ask, NEW x, NEW v,
         v = Nonempty(IF Ask[i].multi THEN (c.multi[i] \ {x}) \cup ({x} \ c.multi[i]) ELSE {x})
  PROVE  Agrees(Click(Ask, c, i, x), [w EXCEPT ![i] = v])
<1>1. PICK D : D = DOMAIN Ask
  OBVIOUS
<1>2. PICK a, b, e, z : /\ c = [picks |-> a, multi |-> b, drafts |-> e, submitted |-> z]
                        /\ DOMAIN a = D /\ DOMAIN b = D /\ DOMAIN e = D
  BY <1>1 DEF Agrees, IsCard
<1>3. PICK r : r = Click(Ask, c, i, x)
  OBVIOUS
<1>4. PICK n : n = [w EXCEPT ![i] = v]
  OBVIOUS
<1>5. n = [j \in D |-> IF j = i THEN v ELSE w[j]]
  BY <1>1, <1>4 DEF Agrees
<1>6. PICK f : f = [e EXCEPT ![i] = ""]
  OBVIOUS
<1>7. DOMAIN f = D /\ f[i] = "" /\ \A j \in D : j # i => f[j] = e[j]
  BY <1>1, <1>2, <1>6
<1>8. \A j \in D : j # i => Value(Ask, c, j) = w[j]
  BY <1>1 DEF Agrees
<1>9. CASE Ask[i].multi
  <2>1. PICK g : g = [b EXCEPT ![i] = (@ \ {x}) \cup ({x} \ @)]
    OBVIOUS
  <2>2. /\ DOMAIN g = D /\ g[i] = (b[i] \ {x}) \cup ({x} \ b[i])
        /\ \A j \in D : j # i => g[j] = b[j]
    BY <1>1, <1>2, <2>1
  <2>3. r = [picks |-> a, multi |-> g, drafts |-> f, submitted |-> z]
    BY <1>2, <1>3, <1>6, <1>9, <2>1 DEF Click, ToggleMulti
  <2>4. IsCard(r)
    BY <1>1, <1>2, <1>7, <2>2, <2>3 DEF IsCard
  <2>5. Value(Ask, r, i) = v
    <3>1. Trim(r.drafts[i]) = ""
      BY <1>7, <2>3 DEF Trim, Blank
    <3>2. Value(Ask, r, i) = Nonempty(r.multi[i])
      BY <1>9, <3>1 DEF Value
    <3>3. v = Nonempty((c.multi[i] \ {x}) \cup ({x} \ c.multi[i]))
      BY <1>9
    <3> QED
      BY <1>2, <2>2, <2>3, <3>2, <3>3
  <2>6. ASSUME NEW j \in D, j # i PROVE Value(Ask, r, j) = w[j]
    <3>1. r.drafts[j] = c.drafts[j] /\ r.multi[j] = c.multi[j] /\ r.picks[j] = c.picks[j]
      BY <1>2, <1>7, <2>2, <2>3, <2>6
    <3>2. Value(Ask, r, j) = Value(Ask, c, j)
      BY <3>1 DEF Value
    <3> QED
      BY <1>8, <2>6, <3>2
  <2> QED
    BY <1>1, <1>3, <1>4, <1>5, <2>4, <2>5, <2>6 DEF Agrees
<1>10. CASE ~ Ask[i].multi
  <2>1. PICK g : g = [a EXCEPT ![i] = x]
    OBVIOUS
  <2>2. DOMAIN g = D /\ g[i] = x /\ \A j \in D : j # i => g[j] = a[j]
    BY <1>1, <1>2, <2>1
  <2>3. r = [picks |-> g, multi |-> b, drafts |-> f, submitted |-> z]
    BY <1>2, <1>3, <1>6, <1>10, <2>1 DEF Click, ChooseSingle
  <2>4. IsCard(r)
    BY <1>1, <1>2, <1>7, <2>2, <2>3 DEF IsCard
  <2>5. Value(Ask, r, i) = v
    <3>1. Trim(r.drafts[i]) = ""
      BY <1>7, <2>3 DEF Trim, Blank
    <3>2. Value(Ask, r, i) = Nonempty({r.picks[i]})
      BY <1>10, <3>1 DEF Value
    <3>3. v = Nonempty({x})
      BY <1>10
    <3> QED
      BY <2>2, <2>3, <3>2, <3>3
  <2>6. ASSUME NEW j \in D, j # i PROVE Value(Ask, r, j) = w[j]
    <3>1. r.drafts[j] = c.drafts[j] /\ r.multi[j] = c.multi[j] /\ r.picks[j] = c.picks[j]
      BY <1>2, <1>7, <2>2, <2>3, <2>6
    <3>2. Value(Ask, r, j) = Value(Ask, c, j)
      BY <3>1 DEF Value
    <3> QED
      BY <1>8, <2>6, <3>2
  <2> QED
    BY <1>1, <1>3, <1>4, <1>5, <2>4, <2>5, <2>6 DEF Agrees
<1> QED
  BY <1>9, <1>10

\* A text in a card.
LEMMA WriteAgrees ==
  ASSUME NEW c, NEW w, Agrees(c, w), NEW i \in DOMAIN Ask, NEW x, NEW v,
         v = Nonempty({Trim(x)})
  PROVE  Agrees(UpdateDraft(c, i, x), [w EXCEPT ![i] = v])
<1>1. PICK D : D = DOMAIN Ask
  OBVIOUS
<1>2. PICK a, b, e, z : /\ c = [picks |-> a, multi |-> b, drafts |-> e, submitted |-> z]
                        /\ DOMAIN a = D /\ DOMAIN b = D /\ DOMAIN e = D
  BY <1>1 DEF Agrees, IsCard
<1>3. PICK r : r = UpdateDraft(c, i, x)
  OBVIOUS
<1>4. PICK n : n = [w EXCEPT ![i] = v]
  OBVIOUS
<1>5. n = [j \in D |-> IF j = i THEN v ELSE w[j]]
  BY <1>1, <1>4 DEF Agrees
<1>6. PICK f, g, h : f = [e EXCEPT ![i] = x] /\ g = [a EXCEPT ![i] = ""] /\ h = [b EXCEPT ![i] = {}]
  OBVIOUS
<1>7. DOMAIN f = D /\ f[i] = x /\ \A j \in D : j # i => f[j] = e[j]
  BY <1>1, <1>2, <1>6
<1>8. DOMAIN g = D /\ g[i] = "" /\ \A j \in D : j # i => g[j] = a[j]
  BY <1>1, <1>2, <1>6
<1>9. DOMAIN h = D /\ h[i] = {} /\ \A j \in D : j # i => h[j] = b[j]
  BY <1>1, <1>2, <1>6
<1>10. r = [picks |-> g, multi |-> h, drafts |-> f, submitted |-> z]
  BY <1>2, <1>3, <1>6 DEF UpdateDraft
<1>11. IsCard(r)
  BY <1>1, <1>7, <1>8, <1>9, <1>10 DEF IsCard
<1>12. Value(Ask, r, i) = v
  <2>1. r.drafts[i] = x /\ r.multi[i] = {} /\ r.picks[i] = ""
    BY <1>7, <1>8, <1>9, <1>10
  <2>2. Nonempty({}) = {} /\ Nonempty({""}) = {}
    BY DEF Nonempty
  <2>3. CASE Trim(x) = ""
    <3>1. Value(Ask, r, i) = Nonempty(IF Ask[i].multi THEN r.multi[i] ELSE {r.picks[i]})
      BY <2>1, <2>3 DEF Value
    <3> QED
      BY <2>1, <2>2, <2>3, <3>1
  <2>4. CASE Trim(x) # ""
    <3>1. Trim(x) = x
      BY <2>4 DEF Trim
    <3>2. Value(Ask, r, i) = Nonempty({x})
      BY <2>1, <2>4 DEF Value
    <3> QED
      BY <3>1, <3>2
  <2> QED
    BY <2>3, <2>4
<1>13. ASSUME NEW j \in D, j # i PROVE Value(Ask, r, j) = w[j]
  <2>1. r.drafts[j] = c.drafts[j] /\ r.multi[j] = c.multi[j] /\ r.picks[j] = c.picks[j]
    BY <1>2, <1>7, <1>8, <1>9, <1>10, <1>13
  <2>2. Value(Ask, r, j) = Value(Ask, c, j)
    BY <2>1 DEF Value
  <2> QED
    BY <1>1, <1>13, <2>2 DEF Agrees
<1> QED
  BY <1>1, <1>3, <1>4, <1>5, <1>11, <1>12, <1>13 DEF Agrees

\* Submitting changes no value.
LEMMA SubmitAgrees ==
  ASSUME NEW c, NEW w, Agrees(c, w)
  PROVE  Agrees([c EXCEPT !.submitted = TRUE], w)
<1>1. PICK r : r = [c EXCEPT !.submitted = TRUE]
  OBVIOUS
<1>2. r = [picks |-> c.picks, multi |-> c.multi, drafts |-> c.drafts, submitted |-> TRUE]
  BY <1>1 DEF Agrees, IsCard
<1>3. r.picks = c.picks /\ r.multi = c.multi /\ r.drafts = c.drafts
  BY <1>2
<1>4. IsCard(r)
  BY <1>2, <1>3 DEF Agrees, IsCard
<1>5. \A i \in DOMAIN Ask : Value(Ask, r, i) = Value(Ask, c, i)
  BY <1>3 DEF Value
<1> QED
  BY <1>1, <1>4, <1>5 DEF Agrees

\* What the answers say is what was last said.
LEMMA BuildAgrees ==
  ASSUME NEW c, NEW w, Agrees(c, w)
  PROVE  BuildAnswers(Ask, c) = w
BY DEF Agrees, BuildAnswers

\* Every card agrees with what the user last said in it.
CardsAgree ==
  /\ DOMAIN cards = DOMAIN word
  /\ \A q \in DOMAIN cards : Agrees(cards[q], word[q])

LEMMA RenderAgrees ==
  ASSUME CardsAgree, NEW evs, NEW ed, Render(evs, ed)
  PROVE  CardsAgree' /\ events' = evs
<1>1. PICK D, S : /\ cards' = [q \in D |-> IF q \in S THEN cards[q] ELSE NewCard(Ask)]
                  /\ word' = [q \in D |-> IF q \in S THEN word[q] ELSE [i \in DOMAIN Ask |-> {}]]
                  /\ S \subseteq DOMAIN cards
  <2> DEFINE shown == Dialogs(Root(evs))
  <2>1. PICK D : D = IF plan.ui = "desktop" /\ Parsed(Ask) THEN DOMAIN shown ELSE {}
    OBVIOUS
  <2>2. PICK S : S = {q \in DOMAIN cards : ~ UnderUser(Root(evs), shown[q])}
    OBVIOUS
  <2>3. /\ cards' = [q \in D |-> IF q \in DOMAIN cards /\ ~ UnderUser(Root(evs), shown[q])
                                THEN cards[q] ELSE NewCard(Ask)]
        /\ word' = [q \in D |-> IF q \in DOMAIN cards /\ ~ UnderUser(Root(evs), shown[q])
                               THEN word[q] ELSE [i \in DOMAIN Ask |-> {}]]
    BY <2>1, Zenon DEF Render
  <2> HIDE DEF shown
  <2>4. \A q : q \in S <=> q \in DOMAIN cards /\ ~ UnderUser(Root(evs), shown[q])
    BY <2>2
  <2>5. cards' = [q \in D |-> IF q \in S THEN cards[q] ELSE NewCard(Ask)]
    BY <2>3, <2>4
  <2>6. word' = [q \in D |-> IF q \in S THEN word[q] ELSE [i \in DOMAIN Ask |-> {}]]
    BY <2>3, <2>4
  <2> QED
    BY <2>2, <2>5, <2>6
<1>2. PICK c, w : c = NewCard(Ask) /\ w = [i \in DOMAIN Ask |-> {}]
  OBVIOUS
<1>3. Agrees(c, w)
  BY <1>2, NewCardAgrees
<1>4. DOMAIN cards' = D /\ DOMAIN word' = D
  BY <1>1
<1>5. \A q \in D : IF q \in S THEN cards'[q] = cards[q] /\ word'[q] = word[q]
                   ELSE cards'[q] = c /\ word'[q] = w
  BY <1>1, <1>2
<1>6. \A q \in D : Agrees(cards'[q], word'[q])
  BY <1>1, <1>3, <1>5 DEF CardsAgree
<1>7. events' = evs
  BY DEF Render
<1> QED
  BY <1>4, <1>6, <1>7 DEF CardsAgree, Agrees, IsCard

-----------------------------------------------------------------------------
(* ChatPage: the page *)

Budgets == {"sends", "gestures", "drops", "reloads"}

WindowOK ==
  /\ Quiet(wire) /\ Listed(events)
  /\ from \in Nat /\ got \in Nat /\ from <= got /\ got <= Len(wire)

FramesOK ==
  /\ Listed(frames) /\ Echoes(Said(events), Sent(frames))
  /\ \A k \in 1 .. Len(frames) :
       frames[k].type = "answer_question" => frames[k].answers = frames[k].meant

StreamOK == OpenRoot(wire, from, got) => Streams(events)

\* The user's own messages among the page's events are the messages it sent, the wire has
\* none; a reply of the root that streams in the window streams among the events; and
\* every card agrees with what was last said in it.
PageIInv ==
  /\ used \in [Budgets -> Nat]
  /\ WindowOK /\ FramesOK /\ StreamOK /\ CardsAgree

LEMMA PageInitially == Init => PageIInv
<1> SUFFICES ASSUME Init PROVE PageIInv
  OBVIOUS
<1>0. /\ wire = <<>> /\ events = <<>> /\ frames = <<>> /\ cards = <<>> /\ word = <<>>
      /\ from = 0 /\ got = 0
      /\ used = [sends |-> 0, gestures |-> 0, drops |-> 0, reloads |-> 0]
  BY Zenon DEF Init
<1>1. used \in [Budgets -> Nat]
  BY <1>0 DEF Budgets
<1>2. WindowOK
  <2>1. Quiet(wire) /\ Listed(events) /\ Len(wire) = 0
    BY <1>0, QuietNone, ListedNone
  <2> QED
    BY <1>0, <2>1 DEF WindowOK
<1>3. FramesOK
  <2>1. \A k \in 1 .. 0 : FALSE
    OBVIOUS
  <2> QED
    BY <1>0, <2>1, ListedNone, EchoesNone DEF FramesOK
<1>4. StreamOK
  <2>1. \A k \in (0 + 1) .. 0 : FALSE
    OBVIOUS
  <2>2. ~ OpenRoot(wire, 0, 0)
    BY <2>1 DEF OpenRoot
  <2> QED
    BY <1>0, <2>2 DEF StreamOK
<1>5. CardsAgree
  <2>1. \A q \in DOMAIN <<>> : FALSE
    OBVIOUS
  <2> QED
    BY <1>0, <2>1 DEF CardsAgree
<1> QED
  BY <1>1, <1>2, <1>3, <1>4, <1>5 DEF PageIInv

LEMMA BudgetSpent ==
  ASSUME used \in [Budgets -> Nat], NEW k \in Budgets, Spend(k)
  PROVE  used' \in [Budgets -> Nat] /\ used'[k] = used[k] + 1
BY DEF Spend

\* A frame that is no message.
LEMMA FrameAdded ==
  ASSUME FramesOK, NEW f, f.type # "user_message",
         f.type = "answer_question" => f.answers = f.meant,
         frames' = Append(frames, f), events' = events
  PROVE  FramesOK'
<1>1. PICK n \in Nat : n = Len(frames)
  BY ListedLength DEF FramesOK
<1>2. PICK a : a = Append(frames, f)
  OBVIOUS
<1>3. Listed(a) /\ Len(a) = n + 1 /\ a[n + 1] = f /\ \A i \in 1 .. n : a[i] = frames[i]
  BY <1>1, <1>2, ListedAppend DEF FramesOK
<1>4. Sent(a) = Sent(frames)
  BY <1>2, SentAppended DEF FramesOK
<1>5. \A i \in 1 .. (n + 1) : i = n + 1 \/ i \in 1 .. n
  OBVIOUS
<1>6. \A i \in 1 .. n : frames[i].type = "answer_question" => frames[i].answers = frames[i].meant
  BY <1>1 DEF FramesOK
<1>7. \A i \in 1 .. (n + 1) : a[i].type = "answer_question" => a[i].answers = a[i].meant
  BY <1>3, <1>5, <1>6
<1> QED
  BY <1>2, <1>3, <1>4, <1>7 DEF FramesOK

\* A message, and its bubble.
LEMMA MessageAdded ==
  ASSUME FramesOK, Listed(events), NEW x,
         frames' = Append(frames, [type |-> "user_message", text |-> x]),
         events' = Append(events, OwnMessage(x))
  PROVE  FramesOK'
<1>1. PICK n \in Nat : n = Len(frames)
  BY ListedLength DEF FramesOK
<1>2. PICK f, e : f = [type |-> "user_message", text |-> x] /\ e = OwnMessage(x)
  OBVIOUS
<1>3. PICK a : a = Append(frames, f)
  OBVIOUS
<1>4. Listed(a) /\ Len(a) = n + 1 /\ a[n + 1] = f /\ \A i \in 1 .. n : a[i] = frames[i]
  BY <1>1, <1>3, ListedAppend DEF FramesOK
<1>5. f.type = "user_message" /\ f.type # "answer_question" /\ f.text = x
  BY <1>2
<1>6. /\ e.type = "user_message" /\ e.parent = "root"
      /\ e.content = <<[type |-> "text", text |-> f.text]>>
  BY <1>2, <1>5 DEF OwnMessage
<1>7. Sent(a) = Append(Sent(frames), f)
  BY <1>3, <1>5, SentAppended DEF FramesOK
<1>8. Said(Append(events, e)) = Append(Said(events), e)
  BY <1>6, SaidAppended
<1>9. Echoes(Append(Said(events), e), Append(Sent(frames), f))
  BY <1>6, EchoesAppended DEF FramesOK
<1>10. \A i \in 1 .. (n + 1) : i = n + 1 \/ i \in 1 .. n
  OBVIOUS
<1>11. \A i \in 1 .. n : frames[i].type = "answer_question" => frames[i].answers = frames[i].meant
  BY <1>1 DEF FramesOK
<1>12. \A i \in 1 .. (n + 1) : a[i].type = "answer_question" => a[i].answers = a[i].meant
  BY <1>4, <1>5, <1>10, <1>11
<1>13. frames' = a /\ events' = Append(events, e)
  BY <1>2, <1>3
<1> QED
  BY <1>4, <1>7, <1>8, <1>9, <1>12, <1>13 DEF FramesOK

\* An event that is no bubble of the user.
LEMMA EventAdded ==
  ASSUME FramesOK, Listed(events), NEW e, ~ IsOwn(e),
         frames' = frames, events' = Append(events, e)
  PROVE  FramesOK'
<1>1. Said(Append(events, e)) = Said(events)
  BY SaidAppended DEF IsOwn
<1> QED
  BY <1>1 DEF FramesOK

\* What the user sends, from the box, the bar or the editor of a bubble.
LEMMA SendKeeps ==
  ASSUME PageIInv, NEW x, SendMessage(x), UNCHANGED <<agentVars, linkVars>>
  PROVE  WindowOK' /\ FramesOK' /\ StreamOK' /\ CardsAgree'
<1>0. wire' = wire /\ from' = from /\ got' = got
  BY DEF agentVars, linkVars
<1>1. CASE ~ Open
  <2>1. frames' = frames /\ events' = events /\ cards' = cards /\ word' = word
    BY <1>1 DEF SendMessage
  <2> QED
    BY <1>0, <2>1 DEF PageIInv, WindowOK, FramesOK, StreamOK, CardsAgree
<1>2. CASE Open
  <2>1. PICK e : e = OwnMessage(x)
    OBVIOUS
  <2>2. frames' = Append(frames, [type |-> "user_message", text |-> x]) /\ Render(Append(events, e), NoEdit)
    BY <1>2, <2>1 DEF SendMessage
  <2>3. CardsAgree' /\ events' = Append(events, e)
    BY <2>2, RenderAgrees DEF PageIInv
  <2>4. FramesOK'
    BY <2>1, <2>2, <2>3, MessageAdded DEF PageIInv, WindowOK
  <2>5. Listed(Append(events, e))
    BY ListedAppend DEF PageIInv, WindowOK
  <2>6. e.type = "user_message"
    BY <2>1 DEF OwnMessage
  <2>7. StreamOK'
    <3>1. ASSUME OpenRoot(wire, from, got) PROVE Streams(Append(events, e))
      <4>1. Streams(events) /\ Listed(events)
        BY <3>1 DEF PageIInv, StreamOK, WindowOK
      <4> QED
        BY <2>6, <4>1, StreamsAppended
    <3> QED
      BY <1>0, <2>3, <3>1 DEF StreamOK
  <2> QED
    BY <1>0, <2>3, <2>4, <2>5, <2>7 DEF PageIInv, WindowOK
<1> QED
  BY <1>1, <1>2

\* A render of the events that are there.
LEMMA RenderKeeps ==
  ASSUME PageIInv, NEW ed, Render(events, ed), frames' = frames,
         wire' = wire, from' = from, got' = got
  PROVE  WindowOK' /\ FramesOK' /\ StreamOK' /\ CardsAgree'
<1>1. CardsAgree' /\ events' = events
  BY RenderAgrees DEF PageIInv
<1> QED
  BY <1>1 DEF PageIInv, WindowOK, FramesOK, StreamOK

LEMMA DeliverKeeps ==
  ASSUME PageIInv, Deliver
  PROVE  PageIInv'
<1>1. PICK n \in Nat, k \in Nat, a \in Nat : n = Len(wire) /\ k = got /\ a = from /\ a <= k /\ k < n
  BY ListedLength DEF PageIInv, WindowOK, Quiet, Deliver
<1>2. PICK e : e = wire[k + 1]
  OBVIOUS
<1>3. /\ got' = k + 1 /\ Render(Append(events, e), edit)
      /\ from' = a /\ used' = used /\ frames' = frames /\ wire' = wire
  BY <1>1, <1>2 DEF Deliver, PageStep, agentVars
<1>4. CardsAgree' /\ events' = Append(events, e)
  BY <1>3, RenderAgrees DEF PageIInv
<1>5. k + 1 \in 1 .. n
  BY <1>1
<1>6. ~ IsOwn(e)
  BY <1>1, <1>2, <1>5 DEF PageIInv, WindowOK, Quiet
<1>7. FramesOK'
  BY <1>3, <1>4, <1>6, EventAdded DEF PageIInv, WindowOK
<1>8. Listed(events) /\ Listed(Append(events, e))
  BY ListedAppend DEF PageIInv, WindowOK
<1>9. ASSUME OpenRoot(wire, a, k + 1) PROVE Streams(Append(events, e))
  <2>1. \/ e.type = "assistant_message_start" /\ e.parent = "root"
        \/ /\ e.type \notin {"assistant_message_start", "assistant_message_stop"}
           /\ OpenRoot(wire, a, k)
    BY <1>1, <1>2, <1>9, OpenNext
  <2>2. OpenRoot(wire, a, k) => Streams(events)
    BY <1>1 DEF PageIInv, StreamOK
  <2> QED
    BY <1>8, <2>1, <2>2, StreamsAppended
<1>10. StreamOK'
  BY <1>3, <1>4, <1>9 DEF StreamOK
<1>11. WindowOK'
  BY <1>1, <1>3, <1>4, <1>8 DEF PageIInv, WindowOK
<1> QED
  BY <1>3, <1>4, <1>7, <1>10, <1>11 DEF PageIInv

LEMMA AgentKeeps ==
  ASSUME PageIInv, Agent
  PROVE  PageIInv'
<1>1. Grows(wire, wire') /\ AgentStep
  BY AgentGrows DEF PageIInv, WindowOK
<1>2. /\ used' = used /\ from' = from /\ got' = got /\ events' = events
      /\ frames' = frames /\ cards' = cards /\ word' = word
  BY <1>1 DEF AgentStep, linkVars, userVars
<1>3. Quiet(wire') /\ Len(wire) <= Len(wire') /\ Len(wire) \in Nat /\ Len(wire') \in Nat
  BY <1>1, ListedLength DEF PageIInv, WindowOK, Quiet, Grows
<1>4. OpenRoot(wire', from, got) => OpenRoot(wire, from, got)
  BY <1>1, OpenGrows DEF PageIInv, WindowOK
<1> QED
  BY <1>2, <1>3, <1>4 DEF PageIInv, WindowOK, FramesOK, StreamOK, CardsAgree

LEMMA ReloadKeeps ==
  ASSUME PageIInv, NEW k \in 0 .. Len(wire), Reload(k)
  PROVE  PageIInv'
<1>1. PICK n \in Nat : n = Len(wire)
  BY ListedLength DEF PageIInv, WindowOK, Quiet
<1>2. used' \in [Budgets -> Nat]
  <2>1. Spend("reloads") /\ "reloads" \in Budgets
    BY DEF Reload, Budgets
  <2> QED
    BY <2>1, BudgetSpent DEF PageIInv
<1>3. /\ from' = k /\ got' = k /\ events' = <<>> /\ frames' = <<>> /\ cards' = <<>> /\ word' = <<>>
      /\ wire' = wire
  BY DEF Reload, PageStep, agentVars
<1>4. WindowOK'
  BY <1>1, <1>3, ListedNone DEF PageIInv, WindowOK
<1>5. FramesOK'
  <2>1. \A i \in 1 .. 0 : FALSE
    OBVIOUS
  <2> QED
    BY <1>3, <2>1, ListedNone, EchoesNone DEF FramesOK
<1>6. StreamOK'
  <2>1. \A i \in (k + 1) .. k : FALSE
    BY <1>1
  <2>2. ~ OpenRoot(wire, k, k)
    BY <2>1 DEF OpenRoot
  <2> QED
    BY <1>3, <2>2 DEF StreamOK
<1>7. CardsAgree'
  <2>1. \A q \in DOMAIN <<>> : FALSE
    OBVIOUS
  <2> QED
    BY <1>3, <2>1 DEF CardsAgree
<1> QED
  BY <1>2, <1>4, <1>5, <1>6, <1>7 DEF PageIInv

\* What the user says in a card.
LEMMA CardKeeps ==
  ASSUME CardsAgree, NEW q \in DOMAIN cards, NEW c, NEW w, Agrees(c, w),
         cards' = [cards EXCEPT ![q] = c], word' = [word EXCEPT ![q] = w]
  PROVE  CardsAgree'
<1>1. PICK D : D = DOMAIN cards /\ D = DOMAIN word
  BY DEF CardsAgree
<1>2. DOMAIN cards' = D /\ DOMAIN word' = D
  BY <1>1
<1>3. \A p \in D : /\ cards'[p] = IF p = q THEN c ELSE cards[p]
                   /\ word'[p] = IF p = q THEN w ELSE word[p]
  BY <1>1
<1>4. \A p \in D : Agrees(cards'[p], word'[p])
  BY <1>1, <1>3 DEF CardsAgree
<1> QED
  BY <1>2, <1>4 DEF CardsAgree, Agrees, IsCard

\* A step that changes neither the events nor the frames nor the cards.
LEMMA SameKeeps ==
  ASSUME PageIInv, used' \in [Budgets -> Nat], wire' = wire, from' = from, got' = got,
         events' = events, frames' = frames, cards' = cards, word' = word
  PROVE  PageIInv'
BY DEF PageIInv, WindowOK, FramesOK, StreamOK, CardsAgree

LEMMA PageStepKeeps == PageIInv /\ [Next]_vars => PageIInv'
<1> SUFFICES ASSUME PageIInv, [Next]_vars PROVE PageIInv'
  OBVIOUS
<1> USE DEF PageStep, agentVars, linkVars, userVars
<1>1. ASSUME NEW k \in Budgets, Spend(k) PROVE used' \in [Budgets -> Nat]
  BY <1>1, BudgetSpent DEF PageIInv
<1>2. used \in [Budgets -> Nat]
  BY DEF PageIInv
<1>3. "sends" \in Budgets /\ "gestures" \in Budgets /\ "drops" \in Budgets
  BY DEF Budgets
<1>4. ASSUME used' \in [Budgets -> Nat], WindowOK', FramesOK', StreamOK', CardsAgree'
      PROVE  PageIInv'
  BY <1>4 DEF PageIInv
<1>5. CASE UNCHANGED vars
  BY <1>2, <1>5, SameKeeps DEF vars
<1>6. CASE Agent
  BY <1>6, AgentKeeps
<1>7. ASSUME NEW x, Type(x) \/ Edit(x) PROVE PageIInv'
  <2>1. used' \in [Budgets -> Nat]
    BY <1>1, <1>3, <1>7 DEF Type, Edit
  <2> QED
    BY <1>7, <2>1, SameKeeps DEF Type, Edit
<1>8. CASE Cancel
  BY <1>2, <1>8, SameKeeps DEF Cancel
<1>9. ASSUME Submit \/ BarSend \/ Save PROVE PageIInv'
  <2>1. used' = used /\ UNCHANGED <<agentVars, linkVars>> /\ \E x : SendMessage(x)
    <3>1. CASE Submit
      BY <3>1 DEF Submit
    <3>2. CASE BarSend
      BY <3>2 DEF BarSend
    <3>3. CASE Save
      BY <3>3 DEF Save
    <3> QED
      BY <1>9, <3>1, <3>2, <3>3
  <2>2. WindowOK' /\ FramesOK' /\ StreamOK' /\ CardsAgree'
    BY <2>1, SendKeeps
  <2> QED
    BY <1>2, <1>4, <2>1, <2>2
<1>10. CASE StopTurn
  <2>1. PICK f : f = [type |-> "stop"]
    OBVIOUS
  <2>2. /\ frames' = Append(frames, f) /\ events' = events /\ cards' = cards /\ word' = word
        /\ wire' = wire /\ from' = from /\ got' = got /\ used' \in [Budgets -> Nat]
    BY <1>1, <1>3, <1>10, <2>1 DEF StopTurn
  <2>3. f.type # "user_message" /\ f.type # "answer_question"
    BY <2>1
  <2>4. FramesOK'
    BY <2>2, <2>3, FrameAdded DEF PageIInv
  <2> QED
    BY <2>2, <2>4 DEF PageIInv, WindowOK, StreamOK, CardsAgree
<1>11. ASSUME NEW q \in DOMAIN cards, NEW i \in DOMAIN Ask, NEW x, Pick(q, i, x)
       PROVE  PageIInv'
  <2>1. PICK v : v = Nonempty(IF Ask[i].multi
                              THEN (cards[q].multi[i] \ {x}) \cup ({x} \ cards[q].multi[i]) ELSE {x})
    OBVIOUS
  <2>2. /\ cards' = [cards EXCEPT ![q] = Click(Ask, cards[q], i, x)]
        /\ word' = [word EXCEPT ![q] = [word[q] EXCEPT ![i] = v]]
    BY <1>11, <2>1 DEF Pick
  <2>3. Agrees(Click(Ask, cards[q], i, x), [word[q] EXCEPT ![i] = v])
    <3>1. Agrees(cards[q], word[q])
      BY DEF PageIInv, CardsAgree
    <3> QED
      BY <2>1, <3>1, ClickAgrees
  <2>4. CardsAgree'
    BY <2>2, <2>3, CardKeeps DEF PageIInv
  <2>5. /\ frames' = frames /\ events' = events /\ wire' = wire /\ from' = from /\ got' = got
        /\ used' \in [Budgets -> Nat]
    BY <1>1, <1>3, <1>11 DEF Pick
  <2> QED
    BY <2>4, <2>5 DEF PageIInv, WindowOK, FramesOK, StreamOK
<1>12. ASSUME NEW q \in DOMAIN cards, NEW i \in DOMAIN Ask, NEW x, Write(q, i, x)
       PROVE  PageIInv'
  <2>1. PICK v : v = Nonempty({Trim(x)})
    OBVIOUS
  <2>2. /\ cards' = [cards EXCEPT ![q] = UpdateDraft(cards[q], i, x)]
        /\ word' = [word EXCEPT ![q] = [word[q] EXCEPT ![i] = v]]
    BY <1>12, <2>1 DEF Write
  <2>3. Agrees(UpdateDraft(cards[q], i, x), [word[q] EXCEPT ![i] = v])
    <3>1. Agrees(cards[q], word[q])
      BY DEF PageIInv, CardsAgree
    <3> QED
      BY <2>1, <3>1, WriteAgrees
  <2>4. CardsAgree'
    BY <2>2, <2>3, CardKeeps DEF PageIInv
  <2>5. /\ frames' = frames /\ events' = events /\ wire' = wire /\ from' = from /\ got' = got
        /\ used' \in [Budgets -> Nat]
    BY <1>1, <1>3, <1>12 DEF Write
  <2> QED
    BY <2>4, <2>5 DEF PageIInv, WindowOK, FramesOK, StreamOK
<1>13. ASSUME NEW q \in DOMAIN cards, Answer(q) PROVE PageIInv'
  <2>1. PICK f : f = [type |-> "answer_question", question |-> Dialogs(Root(events))[q].payload,
                      answers |-> BuildAnswers(Ask, cards[q]), meant |-> word[q]]
    OBVIOUS
  <2>2. /\ frames' = Append(frames, f) /\ cards' = [cards EXCEPT ![q].submitted = TRUE]
        /\ used' = used /\ events' = events /\ word' = word /\ wire' = wire /\ from' = from /\ got' = got
    BY <1>13, <2>1 DEF Answer
  <2>3. Agrees(cards[q], word[q]) /\ DOMAIN cards = DOMAIN word
    BY DEF PageIInv, CardsAgree
  <2>4. f.type = "answer_question" /\ f.answers = BuildAnswers(Ask, cards[q]) /\ f.meant = word[q]
    BY <2>1
  <2>5. FramesOK'
    <3>1. f.type # "user_message" /\ f.answers = f.meant
      BY <2>3, <2>4, BuildAgrees
    <3> QED
      BY <2>2, <3>1, FrameAdded DEF PageIInv
  <2>6. CardsAgree'
    <3>1. PICK c : c = [cards[q] EXCEPT !.submitted = TRUE]
      OBVIOUS
    <3>2. Agrees(c, word[q])
      BY <2>3, <3>1, SubmitAgrees
    <3>3. cards' = [cards EXCEPT ![q] = c]
      BY <2>2, <3>1
    <3>4. \A p \in DOMAIN cards : Agrees(cards'[p], word[p])
      BY <3>2, <3>3 DEF PageIInv, CardsAgree
    <3>5. DOMAIN cards' = DOMAIN cards
      BY <3>3
    <3> QED
      BY <2>2, <2>3, <3>4, <3>5 DEF CardsAgree, Agrees, IsCard
  <2> QED
    BY <1>2, <2>2, <2>5, <2>6 DEF PageIInv, WindowOK, StreamOK
<1>14. ASSUME NEW k \in 0 .. Len(wire), Reload(k) PROVE PageIInv'
  BY <1>14, ReloadKeeps
<1>15. CASE Deliver
  BY <1>15, DeliverKeeps
<1>16. CASE Scroll
  <2>1. /\ Render(events, edit) /\ frames' = frames /\ wire' = wire /\ from' = from /\ got' = got
        /\ used' = used
    BY <1>16 DEF Scroll
  <2> QED
    BY <1>2, <1>4, <2>1, RenderKeeps
<1>17. ASSUME NEW x, Sock(x), used' \in [Budgets -> Nat] PROVE PageIInv'
  <2>1. Render(events, edit) /\ frames' = frames /\ wire' = wire /\ from' = from /\ got' = got
    BY <1>17 DEF Sock
  <2> QED
    BY <1>4, <1>17, <2>1, RenderKeeps
<1>18. CASE OnOpen \/ OnHello \/ Reconnect
  <2>1. used' = used /\ \E x : Sock(x)
    BY <1>18 DEF OnOpen, OnHello, Reconnect
  <2> QED
    BY <1>2, <1>17, <2>1
<1>19. CASE OnClose
  <2>1. used' \in [Budgets -> Nat]
    BY <1>1, <1>3, <1>19 DEF OnClose
  <2> QED
    BY <1>17, <1>19, <2>1 DEF OnClose
<1>20. CASE User
  BY <1>7, <1>8, <1>9, <1>10, <1>11, <1>12, <1>13, <1>14, <1>20, Zenon DEF User
<1>21. CASE Page
  BY <1>15, <1>16, <1>18, <1>19, <1>21 DEF Page
<1> QED
  BY <1>5, <1>6, <1>20, <1>21 DEF Next

LEMMA PageInductive == Spec => []PageIInv
BY PageInitially, PageStepKeeps, PTL DEF Spec

\* UserIsHeard (ChatPage): the bubbles of the user are the messages the page sent, in their
\* order, once each, over reconnects and edits sent as new messages, whatever the assistant
\* says; and every answer says what the user last picked or wrote for each question.
THEOREM HeardCorrect == Spec => []UserIsHeard
<1>1. PageIInv => UserIsHeard
  <2> SUFFICES ASSUME PageIInv PROVE UserIsHeard
    OBVIOUS
  <2>1. PICK us, ss, fs : us = UserBubbles(events) /\ ss = Said(events) /\ fs = Sent(frames)
    OBVIOUS
  <2>2. Spells(us, ss) /\ Echoes(ss, fs)
    BY <2>1, BubblesAreSaid DEF PageIInv, WindowOK, FramesOK
  <2>3. PICK n \in Nat : n = Len(us) /\ n = Len(ss) /\ n = Len(fs) /\ DOMAIN fs = 1 .. n
    BY <2>2, ListedLength DEF Spells, Echoes
  <2>4. ASSUME NEW i \in 1 .. n PROVE us[i].blocks[1].text = fs[i].text
    <3>1. us[i].blocks = ss[i].content /\ ss[i].content = <<[type |-> "text", text |-> fs[i].text]>>
      BY <2>2, <2>3 DEF Spells, Echoes
    <3> QED
      BY <3>1
  <2>5. BubblesAreSent
    BY <2>1, <2>3, <2>4 DEF BubblesAreSent, Sent
  <2>6. \A q \in DOMAIN cards : \A i \in DOMAIN Ask : Value(Ask, cards[q], i) = word[q][i]
    BY DEF PageIInv, CardsAgree, Agrees
  <2>7. DOMAIN frames = 1 .. Len(frames)
    BY ListedLength DEF PageIInv, FramesOK
  <2>8. LastWordWins
    BY <2>6, <2>7 DEF LastWordWins, PageIInv, FramesOK
  <2> QED
    BY <2>5, <2>8 DEF UserIsHeard
<1> QED
  BY <1>1, PageInductive, PTL

\* StopOffered (ChatPage): while a message of the root streams at the page, the Stop button
\* is there, wherever a reload cut the events, and with bubbles of the user below it.
THEOREM StopCorrect == Spec => []StopOffered
<1>1. PageIInv => StopOffered
  <2> SUFFICES ASSUME PageIInv PROVE StopOffered
    OBVIOUS
  <2>1. PICK n \in Nat, a \in Nat, b \in Nat : n = Len(wire) /\ a = from /\ b = got /\ a <= b /\ b <= n
    BY ListedLength DEF PageIInv, WindowOK, Quiet
  <2>2. PICK r : r = SubSeq(wire, a + 1, b)
    OBVIOUS
  <2>3. Len(r) = b - a /\ \A i \in 1 .. (b - a) : r[i] = wire[a + i]
    <3>1. PICK E : wire \in Seq(E)
      BY DEF PageIInv, WindowOK, Quiet, Listed
    <3>2. \A i \in (a + 1) .. b : i \in 1 .. n
      BY <2>1
    <3>3. \A i \in (a + 1) .. b : wire[i] \in E
      BY <2>1, <3>1, <3>2, ElementOfSeq
    <3>4. /\ Len(r) = IF a + 1 <= b THEN b - (a + 1) + 1 ELSE 0
          /\ \A i \in 1 .. (b - (a + 1) + 1) : r[i] = wire[(a + 1) + i - 1]
      <4>1. a + 1 \in Int /\ b \in Int
        BY <2>1
      <4> QED
        BY <2>2, <3>3, <4>1, SubSeqProperties
    <3>5. b - (a + 1) + 1 = b - a /\ \A i \in 1 .. (b - a) : (a + 1) + i - 1 = a + i
      BY <2>1
    <3> QED
      BY <2>1, <3>4, <3>5
  <2>4. PICK m \in Nat : m = b - a
    BY <2>1
  <2> DEFINE I == {i \in 1 .. m : r[i].type = "assistant_message_start"}
             J == {i \in 1 .. m : r[i].type = "assistant_message_stop"}
  <2>5. PICK x : x = SelectLastInSeq(r, LAMBDA e : e.type = "assistant_message_start")
    OBVIOUS
  <2>6. PICK y : y = SelectLastInSeq(r, LAMBDA e : e.type = "assistant_message_stop")
    OBVIOUS
  <2>7. x = IF I # {} THEN Max(I) ELSE 0
    BY <2>3, <2>4, <2>5 DEF SelectLastInSeq
  <2>8. y = IF J # {} THEN Max(J) ELSE 0
    BY <2>3, <2>4, <2>6 DEF SelectLastInSeq
  <2>9. I \in SUBSET (1 .. m) /\ J \in SUBSET (1 .. m)
    OBVIOUS
  <2>10. /\ I # {} => Max(I) \in I /\ \A i \in I : i <= Max(I)
         /\ J # {} => Max(J) \in J /\ \A i \in J : i <= Max(J)
    <3> HIDE DEF I, J
    <3> QED
      BY <2>9, MaxIsLast
  <2>11. ASSUME x > y, r[x].parent = "root" PROVE IsGenerating(events)
    <3>1. y \in 0 .. m
      <4> HIDE DEF J
      <4>1. J # {} => Max(J) \in 1 .. m
        BY <2>9, <2>10
      <4> QED
        BY <2>8, <4>1
    <3>2. I # {}
      <4> HIDE DEF I
      <4> QED
        BY <2>7, <2>11, <3>1
    <3>3. x \in I /\ \A i \in I : i <= x
      BY <2>7, <2>10, <3>2
    <3>4. \A i \in J : i <= y
      BY <2>8, <2>10
    <3>5. x \in 1 .. m /\ r[x].type = "assistant_message_start"
      BY <3>3
    <3>6. ASSUME NEW j \in (a + x + 1) .. b
          PROVE  wire[j].type \notin {"assistant_message_start", "assistant_message_stop"}
      <4>1. PICK i \in 1 .. m : i = j - a /\ i > x /\ j = a + i
        BY <2>1, <2>4, <3>5
      <4>2. r[i] = wire[j]
        BY <2>3, <2>4, <4>1
      <4>3. i \notin I
        <5> HIDE DEF I
        <5> QED
          BY <3>3, <3>5, <4>1
      <4>4. i \notin J
        <5> HIDE DEF J
        <5> QED
          BY <2>11, <3>1, <3>4, <3>5, <4>1
      <4> QED
        BY <4>2, <4>3, <4>4
    <3>7. a + x \in (a + 1) .. b /\ wire[a + x] = r[x]
      BY <2>1, <2>3, <2>4, <3>5
    <3>8. OpenRoot(wire, a, b)
      BY <2>11, <3>5, <3>6, <3>7 DEF OpenRoot
    <3> QED
      BY <2>1, <3>8, StreamsIsGenerating DEF PageIInv, StreamOK, WindowOK
  <2> HIDE DEF I, J
  <2> QED
    BY <2>1, <2>2, <2>5, <2>6, <2>11, Zenon DEF StopOffered
<1> QED
  BY <1>1, PageInductive, PTL

\* DraftKept (ChatPage): the box is emptied by a message that is sent, not because the socket
\* is not there.
THEOREM DraftCorrect == Spec => DraftKept
<1> DEFINE Keeps == draft # "" /\ draft' = "" /\ used'.reloads = used.reloads
                    /\ (plan.ui = "mobile" => Open)
                    => frames' = Append(frames, [type |-> "user_message", text |-> draft])
<1>0. \A n \in Nat : n + 1 # n
  OBVIOUS
<1>1. PageIInv /\ [Next]_vars => [Keeps]_vars
  <2> SUFFICES ASSUME PageIInv, Next, draft # "", draft' = "", used'.reloads = used.reloads,
                      plan.ui = "mobile" => Open
               PROVE  frames' = Append(frames, [type |-> "user_message", text |-> draft])
    OBVIOUS
  <2>0. used'["reloads"] = used["reloads"]
    OBVIOUS
  <2>1. draft' # draft
    OBVIOUS
  <2>2. ASSUME SendMessage(draft), Open
        PROVE  frames' = Append(frames, [type |-> "user_message", text |-> draft])
    BY <2>2 DEF SendMessage
  <2>3. CASE Agent
    <3>1. draft' = draft
      BY <2>3, AgentGrows DEF AgentStep, userVars, PageIInv, WindowOK
    <3> QED
      BY <2>1, <3>1
  <2>4. CASE Submit
    <3>1. SendMessage(draft) /\ Open
      BY <2>4 DEF Submit, Status, Open
    <3> QED
      BY <2>2, <3>1
  <2>5. CASE BarSend
    <3>1. SendMessage(draft) /\ Open
      BY <2>5 DEF BarSend
    <3> QED
      BY <2>2, <3>1
  <2>6. ASSUME NEW k, Reload(k) PROVE FALSE
    <3>1. Spend("reloads") /\ "reloads" \in Budgets
      BY <2>6 DEF Reload, Budgets
    <3>2. used'["reloads"] = used["reloads"] + 1 /\ used["reloads"] \in Nat
      BY <3>1, BudgetSpent DEF PageIInv
    <3> QED
      BY <1>0, <2>0, <3>2, Zenon
  <2>7. ASSUME NEW x, Type(x) PROVE FALSE
    BY <2>7 DEF Type
  <2>8. ASSUME NEW x, Edit(x) PROVE FALSE
    BY <2>1, <2>8 DEF Edit
  <2>9. ASSUME StopTurn \/ Cancel \/ Save PROVE FALSE
    BY <2>1, <2>9 DEF StopTurn, Cancel, Save
  <2>10. ASSUME NEW q, NEW i, NEW x, Pick(q, i, x) \/ Write(q, i, x) \/ Answer(q) PROVE FALSE
    BY <2>1, <2>10 DEF Pick, Write, Answer
  <2>11. ASSUME Page PROVE FALSE
    <3>1. ASSUME NEW x, Sock(x) PROVE FALSE
      BY <2>1, <3>1 DEF Sock
    <3> QED
      BY <2>1, <2>11, <3>1 DEF Page, Deliver, Scroll, OnOpen, OnHello, OnClose, Reconnect
  <2>12. CASE User
    BY <2>4, <2>5, <2>6, <2>7, <2>8, <2>9, <2>10, <2>12, Zenon DEF User
  <2> QED
    BY <2>3, <2>11, <2>12 DEF Next
<1> QED
  BY <1>1, PageInductive, PTL DEF Spec, DraftKept

-----------------------------------------------------------------------------
(* Mapper *)

IsResult(b) == Field(b, "type", "") = "tool_result"
CallOf(b) == Field(b, "tool_use_id", "")

\* The results among the blocks, before and after they are read.
RawResults(s) == Among(s, {b \in Entries(s) : IsResult(b)})
ReadBlocks(s) == [i \in DOMAIN s |-> ParseContentBlock(s[i])]
ReadResults(s) == Among(ReadBlocks(s), {b \in Entries(ReadBlocks(s)) : b.type = "tool_result"})

\* Lists as long, whose entries say the same call.
Names(us, ss) ==
  /\ Listed(us) /\ Listed(ss) /\ Len(us) = Len(ss)
  /\ \A i \in 1 .. Len(us) : us[i].tool_use_id = CallOf(ss[i])

LEMMA NamesAppended ==
  ASSUME NEW us, NEW ss, Names(us, ss), NEW u, NEW s, u.tool_use_id = CallOf(s)
  PROVE  Names(Append(us, u), Append(ss, s))
<1>1. PICK n \in Nat : n = Len(us) /\ n = Len(ss)
  BY ListedLength DEF Names
<1>2. /\ Listed(Append(us, u)) /\ Len(Append(us, u)) = n + 1
      /\ Append(us, u)[n + 1] = u /\ \A i \in 1 .. n : Append(us, u)[i] = us[i]
  BY <1>1, ListedAppend DEF Names
<1>3. /\ Listed(Append(ss, s)) /\ Len(Append(ss, s)) = n + 1
      /\ Append(ss, s)[n + 1] = s /\ \A i \in 1 .. n : Append(ss, s)[i] = ss[i]
  BY <1>1, ListedAppend DEF Names
<1>4. \A i \in 1 .. (n + 1) : i = n + 1 \/ i \in 1 .. n
  OBVIOUS
<1> QED
  BY <1>1, <1>2, <1>3, <1>4 DEF Names

\* A block is a result as it was read just when it was one before.
LEMMA ParsedResults ==
  ASSUME NEW b
  PROVE  /\ ParseContentBlock(b).type = "tool_result" <=> IsResult(b)
         /\ IsResult(b) => ParseContentBlock(b).tool_use_id = CallOf(b)
<1> USE DEF IsResult, CallOf
<1>1. CASE Field(b, "type", "") = "tool_result"
  BY <1>1 DEF ParseContentBlock
<1>2. CASE Field(b, "type", "") # "tool_result"
  <2>1. ParseContentBlock(b) = ParseFlat(b)
    BY <1>2 DEF ParseContentBlock
  <2>2. ParseFlat(b).type # "tool_result"
    BY DEF ParseFlat
  <2> QED
    BY <1>2, <2>1, <2>2
<1> QED
  BY <1>1, <1>2

\* What is kept of the blocks that were read is what was kept of them before.
LEMMA ResultsAlike ==
  ASSUME NEW E, NEW s \in Seq(E)
  PROVE  Names(ReadResults(s), RawResults(s))
<1>0. PICK p : p = [i \in DOMAIN s |-> ParseContentBlock(s[i])]
  OBVIOUS
<1>1. PICK n \in Nat : n = Len(s) /\ DOMAIN s = 1 .. n
  BY LenProperties
<1>2. PICK F : F = {ParseContentBlock(s[i]) : i \in 1 .. n}
  OBVIOUS
<1>3. p \in [1 .. n -> F]
  BY <1>0, <1>1, <1>2
<1>4. p \in Seq(F) /\ Len(p) = n
  BY <1>3, SeqDef, LenProperties
<1>5. PICK R, S : /\ R = {b \in Entries(p) : b.type = "tool_result"}
                  /\ S = {b \in Entries(s) : IsResult(b)}
  OBVIOUS
<1>6. ASSUME NEW i \in 1 .. n
      PROVE  /\ p[i] \in R <=> s[i] \in S
             /\ s[i] \in S => p[i].tool_use_id = CallOf(s[i])
  <2>1. p[i] = ParseContentBlock(s[i])
    BY <1>0, <1>1
  <2>2. p[i] \in Entries(p) /\ s[i] \in Entries(s)
    BY <1>1, <1>4 DEF Entries
  <2> QED
    BY <1>5, <2>1, <2>2, ParsedResults
<1>7. PICK f : Filtering(f, F, p, R, n)
  BY <1>4, AmongSteps
<1>8. PICK h : Filtering(h, E, s, S, n)
  BY <1>1, AmongSteps
<1> DEFINE T == {i \in 0 .. n : ~ Names(f[i], h[i])}
<1>9. ASSUME T # {} PROVE FALSE
  <2>1. T \in SUBSET Nat
    OBVIOUS
  <2> HIDE DEF T
  <2>2. PICK i \in T : \A j \in T : i <= j
    BY <1>9, <2>1, LeastNat
  <2> USE DEF T
  <2>3. Names(f[0], h[0])
    <3>1. f[0] = <<>> /\ h[0] = <<>>
      BY <1>7, <1>8 DEF Filtering
    <3>2. \A j \in 1 .. 0 : FALSE
      OBVIOUS
    <3> QED
      BY <3>1, <3>2, ListedNone DEF Names
  <2>4. i # 0
    BY <2>2, <2>3
  <2>5. i \in 1 .. n /\ i - 1 \in 0 .. n /\ i - 1 \notin T
    BY <2>2, <2>4
  <2>6. Names(f[i - 1], h[i - 1])
    BY <2>5
  <2>7. /\ f[i] = IF p[i] \in R THEN Append(f[i - 1], p[i]) ELSE f[i - 1]
        /\ h[i] = IF s[i] \in S THEN Append(h[i - 1], s[i]) ELSE h[i - 1]
    BY <1>7, <1>8, <2>5 DEF Filtering
  <2>8. Names(f[i], h[i])
    <3>1. CASE s[i] \in S
      <4>1. p[i] \in R /\ p[i].tool_use_id = CallOf(s[i])
        BY <1>6, <2>5, <3>1
      <4>2. Names(Append(f[i - 1], p[i]), Append(h[i - 1], s[i]))
        BY <2>6, <4>1, NamesAppended
      <4> QED
        BY <2>7, <3>1, <4>1, <4>2
    <3>2. CASE s[i] \notin S
      <4>1. p[i] \notin R
        BY <1>6, <2>5, <3>2
      <4> QED
        BY <2>6, <2>7, <3>2, <4>1
    <3> QED
      BY <3>1, <3>2
  <2> QED
    BY <2>2, <2>8
<1>10. n \in 0 .. n
  OBVIOUS
<1>11. Names(f[n], h[n])
  BY <1>9, <1>10
<1>12. ReadResults(s) = f[n] /\ RawResults(s) = h[n]
  BY <1>0, <1>5, <1>7, <1>8, Zenon DEF Filtering, ReadResults, RawResults, ReadBlocks
<1> QED
  BY <1>11, <1>12

LEMMA OneIsNotNone ==
  ASSUME NEW e PROVE <<e>> # <<>>
OBVIOUS

ContentOf(m) == Field(Field(m, "message", Scalar), "content", Scalar)

\* The results that are read, and the events they become.
LEMMA UserResults ==
  ASSUME NEW m \in Messages, "blocks" \in DOMAIN ContentOf(m), NEW s, s = ContentOf(m).blocks,
         NEW r, r = ReadResults(s)
  PROVE  /\ Names(r, RawResults(s))
         /\ r # <<>> => /\ Listed(MapUser(m)) /\ Len(MapUser(m)) = Len(r) /\ MapUser(m) # <<>>
                        /\ \A i \in 1 .. Len(r) : /\ MapUser(m)[i].type = "tool_result"
                                                  /\ MapUser(m)[i].tool_use_id = r[i].tool_use_id
<1>1. "text" \notin DOMAIN ContentOf(m) /\ s \in Seq(Entries(s))
  BY ContentAssumption DEF ContentOf
<1>2. Names(r, RawResults(s))
  BY <1>1, ResultsAlike
<1>3. ASSUME r # <<>>
      PROVE  /\ Listed(MapUser(m)) /\ Len(MapUser(m)) = Len(r) /\ MapUser(m) # <<>>
             /\ \A i \in 1 .. Len(r) : /\ MapUser(m)[i].type = "tool_result"
                                       /\ MapUser(m)[i].tool_use_id = r[i].tool_use_id
  <2>1. PICK w : w = [i \in DOMAIN r |->
                       [type |-> "tool_result", tool_use_id |-> r[i].tool_use_id,
                        content |-> r[i].content, is_error |-> r[i].is_error,
                        parent |-> Parent(m)]]
    OBVIOUS
  <2>2. MapUser(m) = w
    BY <1>1, <1>3, <2>1, Zenon DEF MapUser, ContentOf, ReadResults, ReadBlocks
  <2>3. PICK n \in Nat : n = Len(r) /\ DOMAIN r = 1 .. n
    BY <1>2, ListedLength DEF Names
  <2>4. PICK F : F = {w[i] : i \in 1 .. n}
    OBVIOUS
  <2>5. w \in [1 .. n -> F]
    BY <2>1, <2>3, <2>4
  <2>6. w \in Seq(F) /\ Len(w) = n
    BY <2>5, SeqDef, LenProperties
  <2>7. n # 0
    <3>1. PICK E : r \in Seq(E)
      BY <1>2 DEF Names, Listed
    <3> QED
      BY <1>3, <2>3, <3>1, EmptySeq
  <2>8. w # <<>>
    BY <2>6, <2>7, ListedNone
  <2>9. \A i \in 1 .. n : w[i].type = "tool_result" /\ w[i].tool_use_id = r[i].tool_use_id
    BY <2>1, <2>3
  <2> QED
    BY <2>2, <2>3, <2>6, <2>8, <2>9 DEF Listed
<1> QED
  BY <1>1, <1>2, <1>3

\* A user turn becomes an event, whatever it holds.
LEMMA UserTold ==
  ASSUME NEW m \in Messages
  PROVE  MapUser(m) # <<>>
<1>1. ASSUME NEW b, NEW q PROVE <<[type |-> "user_message", content |-> b, parent |-> q]>> # <<>>
  BY OneIsNotNone
<1>2. CASE "text" \in DOMAIN ContentOf(m)
  <2>1. MapUser(m) = <<[type |-> "user_message",
                        content |-> <<[type |-> "text", text |-> ContentOf(m).text]>>,
                        parent |-> Parent(m)]>>
    BY <1>2, Zenon DEF MapUser, ContentOf
  <2> QED
    BY <1>1, <2>1
<1>3. CASE "text" \notin DOMAIN ContentOf(m) /\ "blocks" \notin DOMAIN ContentOf(m)
  <2>1. MapUser(m) = <<Passthrough(<<"user">>, m)>>
    BY <1>3, Zenon DEF MapUser, ContentOf
  <2> QED
    BY <2>1, OneIsNotNone
<1>4. CASE "text" \notin DOMAIN ContentOf(m) /\ "blocks" \in DOMAIN ContentOf(m)
  <2>1. PICK s : s = ContentOf(m).blocks
    OBVIOUS
  <2>2. PICK p, r : p = ReadBlocks(s) /\ r = ReadResults(s)
    OBVIOUS
  <2>4. CASE r = <<>>
    <3>1. MapUser(m) = <<[type |-> "user_message", content |-> p, parent |-> Parent(m)]>>
      BY <1>4, <2>1, <2>2, <2>4, Zenon DEF MapUser, ContentOf, ReadResults, ReadBlocks
    <3> QED
      BY <1>1, <3>1
  <2>5. CASE r # <<>>
    BY <1>4, <2>1, <2>2, <2>5, UserResults
  <2> QED
    BY <2>4, <2>5
<1> QED
  BY <1>2, <1>3, <1>4

\* A delta that leaves nothing.
LEMMA DeltaTold ==
  ASSUME NEW m, Field(m, "type", "") = "stream_event", InnerType(m) = "content_block_delta",
         Field(Delta(m), "type", "") \notin {"", "signature_delta"}
  PROVE  MapDelta(m) # <<>> \/ Warns(m)
<1>1. PICK d : d = Field(Delta(m), "type", "")
  OBVIOUS
<1>2. ASSUME d \in {"text_delta", "thinking_delta", "input_json_delta"} PROVE MapDelta(m) # <<>>
  <2>1. \E e : MapDelta(m) = <<e>>
    <3>1. CASE d = "text_delta"
      BY <1>1, <3>1 DEF MapDelta
    <3>2. CASE d = "thinking_delta"
      BY <1>1, <3>2 DEF MapDelta
    <3>3. CASE d = "input_json_delta"
      BY <1>1, <3>3 DEF MapDelta
    <3> QED
      BY <1>2, <3>1, <3>2, <3>3
  <2> QED
    BY <2>1, OneIsNotNone
<1>3. ASSUME d \notin DeltaTypes PROVE Warns(m)
  <2>1. FallsThrough(m)
    BY <1>1, <1>3 DEF FallsThrough
  <2>2. MessageKey(m) = <<"stream_event", "content_block_delta", d>>
    BY <1>1 DEF MessageKey
  <2>3. <<"stream_event", "content_block_delta", d>> \notin KnownKeys
    <3>1. ASSUME NEW a PROVE <<"stream_event", "content_block_delta", d>> # <<a>>
      OBVIOUS
    <3>2. ASSUME NEW a, NEW b PROVE <<"stream_event", "content_block_delta", d>> # <<a, b>>
      OBVIOUS
    <3>3. ASSUME NEW a \in DeltaTypes
          PROVE  <<"stream_event", "content_block_delta", d>> # <<"stream_event", "content_block_delta", a>>
      BY <1>3
    <3> HIDE DEF DeltaTypes, TopTypes, SystemSubtypes, InnerTypes
    <3> QED
      BY <3>1, <3>2, <3>3, Zenon DEF KnownKeys
  <2> QED
    BY <2>1, <2>2, <2>3 DEF Warns
<1> QED
  BY <1>1, <1>2, <1>3 DEF DeltaTypes

\* What the mapper makes of a message, or says it does not make.
LEMMA MessageTold ==
  ASSUME NEW m \in Messages
  PROVE  \/ MapSdkMessage(m) # <<>>
         \/ Warns(m)
         \/ ~ IsObject(m)
         \/ /\ InnerType(m) = "content_block_delta"
            /\ Field(Delta(m), "type", "") \in {"", "signature_delta"}
<1> SUFFICES ASSUME IsObject(m) PROVE \/ MapSdkMessage(m) # <<>>
                                      \/ Warns(m)
                                      \/ /\ InnerType(m) = "content_block_delta"
                                         /\ Field(Delta(m), "type", "") \in {"", "signature_delta"}
  OBVIOUS
<1>1. PICK t : t = Field(m, "type", "")
  OBVIOUS
<1>2. CASE t = "system"
  <2>1. \E e : MapSystem(m) = <<e>>
    <3>1. PICK z : z = Field(m, "subtype", "")
      OBVIOUS
    <3>2. CASE z = "init"
      BY <3>1, <3>2 DEF MapSystem
    <3>3. CASE z = "status"
      BY <3>1, <3>3 DEF MapSystem
    <3>4. CASE z = "hook_started"
      BY <3>1, <3>4, Zenon DEF MapSystem
    <3>5. CASE z = "hook_response"
      BY <3>1, <3>5, Zenon DEF MapSystem
    <3>6. CASE z = "hook_progress"
      BY <3>1, <3>6, Zenon DEF MapSystem
    <3>7. CASE z \notin {"init", "status", "hook_started", "hook_response", "hook_progress"}
      BY <3>1, <3>7 DEF MapSystem
    <3> QED
      BY <3>2, <3>3, <3>4, <3>5, <3>6, <3>7
  <2>2. MapSdkMessage(m) = MapSystem(m)
    BY <1>1, <1>2 DEF MapSdkMessage
  <2> QED
    BY <2>1, <2>2, OneIsNotNone
<1>3. CASE t = "stream_event"
  <2>1. MapSdkMessage(m) = MapStreamEvent(m)
    BY <1>1, <1>3 DEF MapSdkMessage
  <2>2. CASE InnerType(m) = "content_block_delta"
    <3>1. MapStreamEvent(m) = MapDelta(m)
      BY <2>2 DEF MapStreamEvent
    <3> QED
      BY <1>1, <1>3, <2>1, <2>2, <3>1, DeltaTold
  <2>3. CASE InnerType(m) # "content_block_delta"
    <3>1. \E e : MapStreamEvent(m) = <<e>>
      <4>1. CASE InnerType(m) = "message_start"
        BY <4>1 DEF MapStreamEvent
      <4>2. CASE InnerType(m) = "content_block_start"
        BY <4>2 DEF MapStreamEvent
      <4>3. CASE InnerType(m) = "content_block_stop"
        BY <4>3 DEF MapStreamEvent
      <4>4. CASE InnerType(m) = "message_delta"
        BY <4>4 DEF MapStreamEvent
      <4>5. CASE InnerType(m) = "message_stop"
        BY <4>5 DEF MapStreamEvent
      <4>6. CASE InnerType(m) \notin InnerTypes
        BY <4>6 DEF MapStreamEvent, InnerTypes
      <4> QED
        BY <2>3, <4>1, <4>2, <4>3, <4>4, <4>5, <4>6 DEF InnerTypes
    <3> QED
      BY <2>1, <3>1, OneIsNotNone
  <2> QED
    BY <2>2, <2>3
<1>4. CASE t = "user"
  <2>1. MapSdkMessage(m) = MapUser(m)
    BY <1>1, <1>4 DEF MapSdkMessage
  <2> QED
    BY <2>1, UserTold
<1>5. CASE t \notin {"system", "stream_event", "user"}
  <2>1. \E e : MapSdkMessage(m) = <<e>>
    <3>1. CASE t = "assistant"
      BY <1>1, <3>1 DEF MapSdkMessage
    <3>2. CASE t = "result"
      BY <1>1, <3>2 DEF MapSdkMessage
    <3>3. CASE t = "rate_limit_event"
      BY <1>1, <3>3 DEF MapSdkMessage
    <3>4. CASE t \notin {"assistant", "result", "rate_limit_event"}
      BY <1>1, <1>5, <3>4 DEF MapSdkMessage
    <3> QED
      BY <3>1, <3>2, <3>3, <3>4
  <2> QED
    BY <2>1, OneIsNotNone
<1> QED
  BY <1>2, <1>3, <1>4, <1>5

\* The results of a user turn come out one by one.
LEMMA BlocksTold ==
  ASSUME NEW m \in Messages, "blocks" \in DOMAIN ContentOf(m), NEW s, s = ContentOf(m).blocks,
         NEW r, r = RawResults(s), r # <<>>
  PROVE  /\ Listed(r) /\ Len(MapUser(m)) = Len(r)
         /\ \A i \in DOMAIN r : /\ MapUser(m)[i].type = "tool_result"
                                /\ MapUser(m)[i].tool_use_id = CallOf(r[i])
<1>1. PICK q : q = ReadResults(s)
  OBVIOUS
<1>3. /\ Names(q, r)
      /\ q # <<>> => /\ Len(MapUser(m)) = Len(q)
                     /\ \A i \in 1 .. Len(q) : /\ MapUser(m)[i].type = "tool_result"
                                               /\ MapUser(m)[i].tool_use_id = q[i].tool_use_id
  BY <1>1, UserResults
<1>4. PICK n \in Nat : n = Len(q) /\ n = Len(r) /\ DOMAIN r = 1 .. n
  BY <1>3, ListedLength DEF Names
<1>5. q # <<>>
  <2>1. PICK E : r \in Seq(E)
    BY <1>3 DEF Names, Listed
  <2>2. Len(r) # 0
    BY <2>1, EmptySeq
  <2> QED
    BY <1>4, <2>2, ListedNone
<1> QED
  BY <1>3, <1>4, <1>5 DEF Names

BlocksOf(m) == Field(ContentOf(m), "blocks", <<>>)
IsUserTurn(m) == Field(m, "type", "") = "user"

\* Every result of a user turn comes out, as an event of its own, in order.
LEMMA ResultsTold ==
  ASSUME NEW m \in Messages, IsUserTurn(m), NEW s, s = BlocksOf(m),
         NEW r, r = RawResults(s), r # <<>>
  PROVE  /\ Len(MapSdkMessage(m)) = Len(r)
         /\ \A i \in DOMAIN r :
              /\ MapSdkMessage(m)[i].type = "tool_result"
              /\ MapSdkMessage(m)[i].tool_use_id = CallOf(r[i])
<1>1. "blocks" \in DOMAIN ContentOf(m)
  <2>1. ASSUME "blocks" \notin DOMAIN ContentOf(m) PROVE FALSE
    <3>1. s = <<>>
      BY <2>1 DEF Field, BlocksOf
    <3> QED
      BY <3>1, AmongNone DEF RawResults
  <2> QED
    BY <2>1
<1>2. s = ContentOf(m).blocks
  BY <1>1 DEF Field, BlocksOf
<1>3. IsObject(m)
  <2>1. "type" \in DOMAIN m
    BY DEF Field, IsUserTurn
  <2> QED
    BY <2>1, HasFieldsIsObject
<1>4. MapSdkMessage(m) = MapUser(m)
  BY <1>3 DEF MapSdkMessage, IsUserTurn
<1>5. PICK w : w = MapUser(m)
  OBVIOUS
<1>6. /\ Len(w) = Len(r)
      /\ \A i \in DOMAIN r : w[i].type = "tool_result" /\ w[i].tool_use_id = CallOf(r[i])
  BY <1>1, <1>2, <1>5, BlocksTold
<1> QED
  BY <1>4, <1>5, <1>6, Zenon

-----------------------------------------------------------------------------
(* Runner *)

WasAsked(c) == \E i \in DOMAIN asked : asked[i] = c

\* A call that was not made has no question and no answer; the reader is told that it
\* is over only once the queue is closed.
RunnerIInv ==
  /\ TypeOK
  /\ PendingIsAsked
  /\ AnswersMatch
  /\ PromptsInOrder
  /\ \A c \in Calls : call[c] = "none" => ~ WasAsked(c) /\ sent[c] = NoAnswer
  /\ readerDone => closed

LEMMA RunnerInitially == RunnerInit => RunnerIInv
<1> SUFFICES ASSUME RunnerInit PROVE RunnerIInv
  OBVIOUS
<1>1. TypeOK
  <2>1. <<>> \in Seq(Prompts) /\ <<>> \in Seq(Calls) /\ 0 \in 0 .. Len(<<>>)
    BY EmptySeq
  <2>2. /\ [c \in Calls |-> "none"] \in
              [Calls -> {"none", "asked", "answered", "aborted", "allowed"}]
        /\ [c \in Calls |-> NoAnswer] \in [Calls -> Answers \cup {NoAnswer}]
    OBVIOUS
  <2>3. {closed, parked, readerDone, failed} \subseteq BOOLEAN
    BY DEF RunnerInit
  <2>4. exitCode \in 0 .. 2 /\ phase = "start" /\ stdin = "open"
    BY DEF RunnerInit
  <2> QED
    BY <2>1, <2>2, <2>3, <2>4 DEF RunnerInit, TypeOK
<1>2. PromptsInOrder
  <2>1. <<>> \o <<>> = <<>>
    OBVIOUS
  <2> QED
    BY <2>1 DEF RunnerInit, PromptsInOrder
<1>3. \A c : ~ WasAsked(c)
  BY DEF RunnerInit, WasAsked
<1>4. PendingIsAsked /\ AnswersMatch
  BY <1>3 DEF RunnerInit, PendingIsAsked, AnswersMatch, Asking, WasAsked
<1> QED
  BY <1>1, <1>2, <1>3, <1>4 DEF RunnerInit, RunnerIInv

\* What a control frame carries.
LEMMA FrameCarries ==
  ASSUME NEW f \in Frames, IsControlFrame(f)
  PROVE  /\ f.kind = "user_message" => f.content \in Prompts
         /\ f.kind = "answer_question" => f.question_id \in Calls /\ f.answers \in Answers
<1>1. ASSUME NEW p \in Unsent, f = [kind |-> "user_message", content |-> p]
      PROVE  f.content \in Prompts /\ f.kind = "user_message"
  BY <1>1 DEF Unsent
<1>2. ASSUME NEW c \in Calls, NEW a \in Answers,
             f = [kind |-> "answer_question", question_id |-> c, answers |-> a]
      PROVE  f.question_id \in Calls /\ f.answers \in Answers /\ f.kind = "answer_question"
  BY <1>2
<1>3. ASSUME f \in {[kind |-> "stop"], [kind |-> "ping"]}
      PROVE  f.kind \notin {"user_message", "answer_question"}
  BY <1>3
<1>4. ASSUME f = [kind |-> "user_message"] PROVE FALSE
  BY <1>4 DEF IsControlFrame, Field
<1>5. ASSUME f = [kind |-> "answer_question"] PROVE FALSE
  BY <1>5 DEF IsControlFrame, Field
<1>6. ASSUME f = Scalar PROVE FALSE
  <2>1. DOMAIN Scalar = {}
    BY DEF Scalar
  <2> QED
    BY <1>6, <2>1 DEF IsControlFrame, Field
<1> QED
  BY <1>1, <1>2, <1>3, <1>4, <1>5, <1>6 DEF Frames

\* The steps that leave prompts or questions alone.
LEMMA PromptsKept ==
  ASSUME PromptsInOrder, UNCHANGED <<buffer, closed, parked, taken, readerDone, accepted>>
  PROVE  PromptsInOrder'
BY DEF PromptsInOrder

LEMMA QuestionsKept ==
  ASSUME RunnerIInv, UNCHANGED <<call, result, pending, asked, sent>>
  PROVE  /\ PendingIsAsked' /\ AnswersMatch'
         /\ \A c \in Calls : call'[c] = "none" => ~ WasAsked(c)' /\ sent'[c] = NoAnswer
BY DEF RunnerIInv, PendingIsAsked, AnswersMatch, Asking, WasAsked

LEMMA CloseStep ==
  ASSUME RunnerIInv, Close, UNCHANGED <<taken, accepted>>
  PROVE  PromptsInOrder' /\ closed' /\ {closed', parked', readerDone'} \subseteq BOOLEAN
         /\ buffer' = buffer
BY DEF RunnerIInv, Close, PromptsInOrder, TypeOK

\* An element appended to the second of two sequences comes after both.
LEMMA AppendToBoth ==
  ASSUME NEW S, NEW s \in Seq(S), NEW t \in Seq(S), NEW e \in S
  PROVE  s \o Append(t, e) = Append(s \o t, e)
<1>1. <<e>> \in Seq(S)
  OBVIOUS
<1>2. PICK u \in Seq(S) : u = <<e>>
  BY <1>1
<1>3. s \o t \in Seq(S)
  OBVIOUS
<1>4. Append(s \o t, e) = (s \o t) \o u /\ Append(t, e) = t \o u
  BY <1>2, <1>3, AppendIsConcat
<1>5. (s \o t) \o u = s \o (t \o u)
  BY <1>2, ConcatAssociative
<1> QED
  BY <1>4, <1>5

LEMMA UserMessageStep ==
  ASSUME RunnerIInv, NEW f, f.content \in Prompts, UserMessage(f)
  PROVE  RunnerIInv'
<1> DEFINE p == f.content
<1>1. /\ Push(p) /\ yielded' = NoMessage
      /\ UNCHANGED <<phase, exitCode, stdin, readerDone, done, call, result, pending, asked,
                     sent, failed>>
  BY DEF UserMessage, toolVars
<1>2. /\ buffer \in Seq(Prompts) /\ taken \in Seq(Prompts) /\ accepted \in Seq(Prompts)
      /\ taken \o buffer = accepted /\ done \in 0 .. Len(taken)
  BY DEF RunnerIInv, TypeOK, PromptsInOrder
<1>3. p \in Prompts
  OBVIOUS
<1> HIDE DEF p
<1>4. /\ Append(buffer, p) \in Seq(Prompts) /\ Append(taken, p) \in Seq(Prompts)
      /\ Append(accepted, p) \in Seq(Prompts) /\ Len(Append(taken, p)) = Len(taken) + 1
      /\ Len(taken) \in Nat
  BY <1>2, <1>3, AppendProperties, LenProperties
<1>5. taken \o Append(buffer, p) = Append(accepted, p)
  BY <1>2, <1>3, AppendToBoth
<1>6. buffer = <<>> => Append(taken, p) \o buffer = Append(accepted, p)
  <2>1. taken \o <<>> = taken /\ Append(taken, p) \o <<>> = Append(taken, p)
    BY <1>2, <1>4, ConcatEmptySeq
  <2> QED
    BY <1>2, <2>1
<1>7. PromptsInOrder' /\ (readerDone' => closed')
      /\ buffer' \in Seq(Prompts) /\ taken' \in Seq(Prompts) /\ accepted' \in Seq(Prompts)
      /\ done \in 0 .. Len(taken') /\ closed' \in BOOLEAN /\ parked' \in BOOLEAN
  <2>1. CASE closed
    BY <1>1, <1>2, <2>1 DEF Push, queueVars, RunnerIInv, PromptsInOrder, TypeOK
  <2>2. CASE ~ closed /\ parked
    <3>1. /\ accepted' = Append(accepted, p) /\ parked' = FALSE /\ taken' = Append(taken, p)
          /\ buffer' = buffer /\ closed' = closed /\ buffer = <<>> /\ ~ readerDone
      BY <1>1, <2>2 DEF Push, RunnerIInv, PromptsInOrder
    <3>2. done \in 0 .. Len(taken')
      BY <1>2, <1>4, <3>1
    <3> QED
      BY <1>1, <1>2, <1>4, <1>6, <3>1, <3>2 DEF PromptsInOrder, RunnerIInv, TypeOK
  <2>3. CASE ~ closed /\ ~ parked
    <3>1. /\ accepted' = Append(accepted, p) /\ buffer' = Append(buffer, p)
          /\ UNCHANGED <<parked, closed, taken>> /\ ~ readerDone
      BY <1>1, <2>3 DEF Push, RunnerIInv
    <3> QED
      BY <1>1, <1>2, <1>4, <1>5, <2>3, <3>1 DEF PromptsInOrder, RunnerIInv, TypeOK
  <2> QED
    BY <2>1, <2>2, <2>3
<1>8. TypeOK'
  BY <1>1, <1>7 DEF RunnerIInv, TypeOK
<1> QED
  BY <1>1, <1>7, <1>8, QuestionsKept DEF RunnerIInv

LEMMA AnswerQuestionStep ==
  ASSUME RunnerIInv, NEW f, f.question_id \in Calls, f.answers \in Answers, AnswerQuestion(f)
  PROVE  RunnerIInv'
<1>1. PICK c \in Calls, a \in Answers : c = f.question_id /\ a = f.answers
  OBVIOUS
<1>2. yielded' = NoMessage
      /\ UNCHANGED <<phase, exitCode, stdin, buffer, closed, parked, taken, readerDone, done,
                     accepted, failed>>
  BY DEF AnswerQuestion, queueVars, sdkVars
<1>3. PromptsInOrder' /\ (readerDone' => closed')
  BY <1>2, PromptsKept DEF RunnerIInv
<1>4. CASE c \notin pending
  <2>1. UNCHANGED <<call, result, pending, asked, sent>>
    BY <1>1, <1>4 DEF AnswerQuestion, toolVars
  <2>2. TypeOK'
    BY <1>2, <2>1 DEF RunnerIInv, TypeOK
  <2> QED
    BY <1>3, <2>1, <2>2, QuestionsKept DEF RunnerIInv
<1>5. CASE c \in pending
  <2>1. /\ pending' = pending \ {c} /\ sent' = [sent EXCEPT ![c] = a]
        /\ call' = [call EXCEPT ![c] = IF @ = "asked" THEN "answered" ELSE @]
        /\ result' = [result EXCEPT ![c] = IF call[c] = "asked" THEN a ELSE @]
        /\ asked' = asked
    BY <1>1, <1>5 DEF AnswerQuestion
  <2>2. a # NoAnswer
    BY DistinctNulls
  <2>3. TypeOK'
    BY <1>2, <2>1 DEF RunnerIInv, TypeOK
  <2>4. PendingIsAsked'
    BY <2>1, <2>2 DEF RunnerIInv, TypeOK, PendingIsAsked, Asking
  <2>5. sent[c] = NoAnswer /\ WasAsked(c)
    BY <1>5 DEF RunnerIInv, PendingIsAsked, WasAsked
  <2>6. AnswersMatch'
    BY <2>1, <2>2, <2>5 DEF RunnerIInv, TypeOK, AnswersMatch
  <2>7. \A d \in Calls : call'[d] = "none" => ~ WasAsked(d)' /\ sent'[d] = NoAnswer
    BY <2>1, <2>5 DEF RunnerIInv, TypeOK, WasAsked
  <2> QED
    BY <1>3, <2>3, <2>4, <2>6, <2>7 DEF RunnerIInv
<1> QED
  BY <1>4, <1>5

LEMMA StopStep ==
  ASSUME RunnerIInv, NEW f, Stop(f)
  PROVE  RunnerIInv'
<1>1. /\ done < Len(taken) /\ done' = done + 1 /\ yielded' = NoMessage
      /\ call' = [c \in Calls |-> IF call[c] = "asked" THEN "aborted" ELSE call[c]]
      /\ UNCHANGED <<phase, exitCode, stdin, buffer, closed, parked, taken, readerDone, result,
                     pending, asked, accepted, sent, failed>>
  BY DEF Stop, queueVars
<1>2. TypeOK'
  <2>1. done' \in 0 .. Len(taken)
    BY <1>1, LenProperties DEF RunnerIInv, TypeOK
  <2>2. call' \in [Calls -> {"none", "asked", "answered", "aborted", "allowed"}]
    BY <1>1 DEF RunnerIInv, TypeOK
  <2> QED
    BY <1>1, <2>1, <2>2 DEF RunnerIInv, TypeOK
<1>3. PendingIsAsked' /\ AnswersMatch'
  BY <1>1 DEF RunnerIInv, PendingIsAsked, AnswersMatch, Asking
<1>4. \A c \in Calls : call'[c] = "none" => ~ WasAsked(c)' /\ sent'[c] = NoAnswer
  BY <1>1 DEF RunnerIInv, WasAsked
<1> QED
  BY <1>1, <1>2, <1>3, <1>4, PromptsKept DEF RunnerIInv

LEMMA CanUseToolStep ==
  ASSUME RunnerIInv, NEW c \in Calls, NEW use, CanUseTool(c, use)
  PROVE  RunnerIInv'
<1>1. /\ call[c] = "none" /\ yielded' = NoMessage
      /\ UNCHANGED <<phase, exitCode, stdin, buffer, closed, parked, taken, readerDone, done,
                     accepted, sent, failed>>
  BY DEF CanUseTool, queueVars, sdkVars
<1>2. ~ WasAsked(c) /\ sent[c] = NoAnswer /\ asked \in Seq(Calls)
  BY <1>1 DEF RunnerIInv, TypeOK
<1>3. PromptsInOrder' /\ (readerDone' => closed')
  BY <1>1, PromptsKept DEF RunnerIInv
<1>4. CASE Handled(use)
  <2>1. /\ call' = [call EXCEPT ![c] = "asked"] /\ pending' = pending \cup {c}
        /\ asked' = Append(asked, c) /\ result' = result
    BY <1>4 DEF CanUseTool, AskBrowser
  <2>2. asked' \in Seq(Calls) /\ \A d : WasAsked(d)' <=> WasAsked(d) \/ d = c
    <3>1. /\ asked' \in Seq(Calls) /\ Len(asked') = Len(asked) + 1 /\ Len(asked) \in Nat
          /\ DOMAIN asked = 1 .. Len(asked) /\ DOMAIN asked' = 1 .. Len(asked')
          /\ \A i \in 1 .. Len(asked) : asked'[i] = asked[i]
          /\ asked'[Len(asked) + 1] = c
      BY <1>2, <2>1, AppendProperties, LenProperties
    <3>2. DOMAIN asked' = DOMAIN asked \cup {Len(asked) + 1}
      BY <3>1
    <3> QED
      BY <3>1, <3>2 DEF WasAsked
  <2>3. TypeOK'
    BY <1>1, <2>1, <2>2 DEF RunnerIInv, TypeOK
  <2>4. pending = {d \in Calls : sent[d] = NoAnswer /\ WasAsked(d)} /\ Asking \subseteq pending
    BY DEF RunnerIInv, PendingIsAsked, WasAsked
  <2>5. pending' = {d \in Calls : sent'[d] = NoAnswer /\ WasAsked(d)'}
    BY <1>1, <1>2, <2>1, <2>2, <2>4
  <2>6. PendingIsAsked'
    BY <2>1, <2>3, <2>4, <2>5 DEF PendingIsAsked, WasAsked, Asking, RunnerIInv, TypeOK
  <2>7. AnswersMatch'
    BY <1>1, <2>1 DEF RunnerIInv, TypeOK, AnswersMatch
  <2>8. \A d \in Calls : call'[d] = "none" => ~ WasAsked(d)' /\ sent'[d] = NoAnswer
    BY <1>1, <2>1, <2>2 DEF RunnerIInv, TypeOK
  <2> QED
    BY <1>3, <2>3, <2>6, <2>7, <2>8 DEF RunnerIInv
<1>5. CASE ~ Handled(use)
  <2>1. call' = [call EXCEPT ![c] = "allowed"] /\ UNCHANGED <<result, pending, asked>>
    BY <1>5 DEF CanUseTool
  <2>2. TypeOK'
    BY <1>1, <2>1 DEF RunnerIInv, TypeOK
  <2>3. PendingIsAsked' /\ AnswersMatch'
    BY <1>1, <2>1 DEF RunnerIInv, TypeOK, PendingIsAsked, AnswersMatch, Asking
  <2>4. \A d \in Calls : call'[d] = "none" => ~ WasAsked(d)' /\ sent'[d] = NoAnswer
    BY <1>1, <2>1 DEF RunnerIInv, TypeOK, WasAsked
  <2> QED
    BY <1>3, <2>2, <2>3, <2>4 DEF RunnerIInv
<1> QED
  BY <1>4, <1>5

LEMMA NextPromptStep ==
  ASSUME RunnerIInv, NextPrompt
  PROVE  RunnerIInv'
<1>1. /\ ~ parked /\ ~ readerDone /\ yielded' = NoMessage
      /\ UNCHANGED <<phase, exitCode, stdin, closed, done, call, result, pending, asked,
                     accepted, sent, failed>>
  BY DEF NextPrompt, toolVars
<1>2. /\ buffer \in Seq(Prompts) /\ taken \in Seq(Prompts) /\ accepted \in Seq(Prompts)
      /\ taken \o buffer = accepted /\ done \in 0 .. Len(taken) /\ Len(taken) \in Nat
      /\ closed \in BOOLEAN
  BY LenProperties DEF RunnerIInv, TypeOK, PromptsInOrder
<1>3. CASE buffer # <<>>
  <2>1. /\ taken' = Append(taken, Head(buffer)) /\ buffer' = Tail(buffer)
        /\ UNCHANGED <<parked, readerDone>>
    BY <1>3 DEF NextPrompt
  <2>2. /\ Head(buffer) \in Prompts /\ Tail(buffer) \in Seq(Prompts)
        /\ taken' \in Seq(Prompts) /\ Len(taken') = Len(taken) + 1
    BY <1>2, <1>3, <2>1, HeadTailProperties, AppendProperties
  <2>3. taken' \o buffer' = accepted
    <3>1. taken' = taken \o <<Head(buffer)>> /\ <<Head(buffer)>> \in Seq(Prompts)
      BY <1>2, <2>1, <2>2, AppendIsConcat
    <3>2. taken' \o buffer' = taken \o (<<Head(buffer)>> \o Tail(buffer))
      <4>1. PICK u \in Seq(Prompts) : u = <<Head(buffer)>>
        BY <3>1
      <4>2. PICK s \in Seq(Prompts), t \in Seq(Prompts) : s = taken /\ t = Tail(buffer)
        BY <1>2, <2>2
      <4>3. (s \o u) \o t = s \o (u \o t)
        BY ConcatAssociative
      <4> QED
        BY <2>1, <3>1, <4>1, <4>2, <4>3
    <3>3. <<Head(buffer)>> \o Tail(buffer) = buffer
      BY <1>2, <1>3, ConcatSimplifications, HeadTailProperties
    <3> QED
      BY <1>2, <3>2, <3>3
  <2>4. TypeOK'
    <3>1. done' \in 0 .. Len(taken')
      BY <1>1, <1>2, <2>2
    <3> QED
      BY <1>1, <2>1, <2>2, <3>1 DEF RunnerIInv, TypeOK
  <2>5. PromptsInOrder'
    BY <1>1, <2>1, <2>3 DEF PromptsInOrder
  <2> QED
    BY <1>1, <2>1, <2>4, <2>5, QuestionsKept DEF RunnerIInv
<1>4. CASE buffer = <<>> /\ closed
  <2>1. readerDone' = TRUE /\ UNCHANGED <<taken, buffer, parked>>
    BY <1>4 DEF NextPrompt
  <2>2. TypeOK'
    BY <1>1, <2>1 DEF RunnerIInv, TypeOK
  <2>3. PromptsInOrder'
    BY <1>1, <1>2, <1>4, <2>1 DEF PromptsInOrder
  <2> QED
    BY <1>1, <1>4, <2>1, <2>2, <2>3, QuestionsKept DEF RunnerIInv
<1>5. CASE buffer = <<>> /\ ~ closed
  <2>1. parked' = TRUE /\ UNCHANGED <<taken, buffer, readerDone>>
    BY <1>5 DEF NextPrompt
  <2>2. TypeOK'
    BY <1>1, <2>1 DEF RunnerIInv, TypeOK
  <2>3. PromptsInOrder'
    BY <1>1, <1>2, <1>5, <2>1 DEF PromptsInOrder
  <2> QED
    BY <1>1, <2>1, <2>2, <2>3, QuestionsKept DEF RunnerIInv
<1> QED
  BY <1>2, <1>3, <1>4, <1>5

LEMMA RunnerStep == RunnerIInv /\ [RunnerNext]_runnerVars => RunnerIInv'
<1> SUFFICES ASSUME RunnerIInv, [RunnerNext]_runnerVars PROVE RunnerIInv'
  OBVIOUS
<1>1. TypeOK
  BY DEF RunnerIInv
<1>2. CASE Launch
  <2>1. /\ phase' \in {"query", "exited"} /\ exitCode' \in 0 .. 2
        /\ UNCHANGED <<stdin, buffer, closed, parked, taken, readerDone, done, call, result,
                       pending, asked, yielded, accepted, sent, failed>>
    BY <1>1, <1>2 DEF Launch, queueVars, sdkVars, toolVars, TypeOK
  <2>2. TypeOK'
    BY <1>1, <2>1 DEF TypeOK
  <2> QED
    BY <2>1, <2>2, PromptsKept, QuestionsKept DEF RunnerIInv
<1>3. CASE Dispatch
  <2>1. PICK f \in Frames : IsControlFrame(f) /\ (UserMessage(f) \/ AnswerQuestion(f) \/ Stop(f))
    BY <1>3 DEF Dispatch
  <2>2. CASE UserMessage(f)
    <3>1. f.content \in Prompts
      BY <2>1, <2>2, FrameCarries DEF UserMessage
    <3> QED
      BY <2>2, <3>1, UserMessageStep
  <2>3. CASE AnswerQuestion(f)
    <3>1. f.question_id \in Calls /\ f.answers \in Answers
      BY <2>1, <2>3, FrameCarries DEF AnswerQuestion
    <3> QED
      BY <2>3, <3>1, AnswerQuestionStep
  <2>4. CASE Stop(f)
    BY <2>4, StopStep
  <2> QED
    BY <2>1, <2>2, <2>3, <2>4
<1>4. ASSUME Close, phase' \in {"query", "draining"}, stdin' \in {"open", "eof"},
             exitCode' \in 0 .. 2, failed' \in BOOLEAN, yielded' = NoMessage,
             UNCHANGED <<taken, done, call, result, pending, asked, accepted, sent>>
      PROVE  RunnerIInv'
  <2>1. PromptsInOrder' /\ closed' /\ {closed', parked', readerDone'} \subseteq BOOLEAN
        /\ buffer' = buffer
    BY <1>4, CloseStep
  <2>2. TypeOK'
    BY <1>1, <1>4, <2>1 DEF TypeOK
  <2> QED
    BY <1>4, <2>1, <2>2, QuestionsKept DEF RunnerIInv
<1>5. CASE Eof
  <2>1. /\ phase' \in {"query", "draining"} /\ stdin' = "eof" /\ exitCode' \in 0 .. 2
        /\ failed' \in BOOLEAN /\ yielded' = NoMessage /\ Close
        /\ UNCHANGED <<taken, done, call, result, pending, asked, accepted, sent>>
    BY <1>1, <1>5 DEF Eof, Running, toolVars, TypeOK
  <2> QED
    BY <1>4, <2>1
<1>6. CASE QueryEnds
  <2>1. /\ phase' = "draining" /\ stdin' \in {"open", "eof"} /\ exitCode' \in 0 .. 2
        /\ failed' \in BOOLEAN /\ yielded' = NoMessage /\ Close
        /\ UNCHANGED <<taken, done, call, result, pending, asked, accepted, sent>>
    BY <1>1, <1>6 DEF QueryEnds, toolVars, TypeOK
  <2> QED
    BY <1>4, <2>1
<1>7. CASE QueryFails
  <2>1. /\ phase' = "draining" /\ stdin' \in {"open", "eof"} /\ exitCode' = 1
        /\ failed' = TRUE /\ yielded' = NoMessage /\ Close
        /\ UNCHANGED <<taken, done, call, result, pending, asked, accepted, sent>>
    BY <1>1, <1>7 DEF QueryFails, toolVars, TypeOK
  <2> QED
    BY <1>4, <2>1
<1>8. CASE TurnEnds
  <2>1. /\ done < Len(taken) /\ done' = done + 1 /\ yielded' = NoMessage
        /\ UNCHANGED <<phase, exitCode, stdin, buffer, closed, parked, taken, readerDone, call,
                       result, pending, asked, accepted, sent, failed>>
    BY <1>8 DEF TurnEnds, InTurn, queueVars, toolVars
  <2>2. TypeOK'
    <3>1. done' \in 0 .. Len(taken)
      BY <1>1, <2>1, LenProperties DEF TypeOK
    <3> QED
      BY <1>1, <2>1, <3>1 DEF TypeOK
  <2> QED
    BY <2>1, <2>2, PromptsKept, QuestionsKept DEF RunnerIInv
<1>9. CASE Exit
  <2>1. /\ phase' = "exited" /\ yielded' = NoMessage
        /\ UNCHANGED <<exitCode, stdin, buffer, closed, parked, taken, readerDone, done, call,
                       result, pending, asked, accepted, sent, failed>>
    BY <1>9 DEF Exit, queueVars, sdkVars, toolVars
  <2>2. TypeOK'
    BY <1>1, <2>1 DEF TypeOK
  <2> QED
    BY <2>1, <2>2, PromptsKept, QuestionsKept DEF RunnerIInv
<1>10. ASSUME NEW m \in Messages, Yield(m) PROVE RunnerIInv'
  <2>1. /\ yielded' = m
        /\ UNCHANGED <<phase, exitCode, stdin, buffer, closed, parked, taken, readerDone, done,
                       call, result, pending, asked, accepted, sent, failed>>
    BY <1>10 DEF Yield, queueVars, sdkVars, toolVars
  <2>2. TypeOK'
    BY <1>1, <2>1 DEF TypeOK
  <2> QED
    BY <2>1, <2>2, PromptsKept, QuestionsKept DEF RunnerIInv
<1>11. CASE UNCHANGED runnerVars
  <2>1. UNCHANGED <<phase, exitCode, stdin, buffer, closed, parked, taken, readerDone, done,
                    call, result, pending, asked, yielded, accepted, sent, failed>>
    BY <1>11 DEF runnerVars, queueVars, sdkVars, toolVars
  <2>2. TypeOK'
    BY <1>1, <2>1 DEF TypeOK
  <2> QED
    BY <2>1, <2>2, PromptsKept, QuestionsKept DEF RunnerIInv
<1> QED
  BY <1>2, <1>3, <1>5, <1>6, <1>7, <1>8, <1>9, <1>10, <1>11, NextPromptStep, CanUseToolStep
     DEF RunnerNext

LEMMA RunnerInvariant == RunnerSpec => []RunnerIInv
BY RunnerInitially, RunnerStep, PTL DEF RunnerSpec

\* The questions the browser can still answer are those the runner can still resolve,
\* and a call gets the first answer that was sent for its own question (permission
\* callback, onAnswerQuestion).
THEOREM RunnerCorrect == RunnerSpec => []RunnerInv
<1>1. RunnerIInv => RunnerInv
  BY DEF RunnerIInv, RunnerInv
<1> QED
  BY <1>1, RunnerInvariant, PTL

\* Every prompt that was taken in reaches the SDK, once and in order, and nobody is left
\* parked next to a prompt (AsyncQueue).
THEOREM PromptsCorrect == RunnerSpec => []PromptsInOrder
<1>1. RunnerIInv => PromptsInOrder
  BY DEF RunnerIInv
<1> QED
  BY <1>1, RunnerInvariant, PTL

\* MessagesTold: whatever query() yields is shown or leaves a warning (but for a signature, a
\* delta without a type, and what is no object), and the results a user turn wraps come out
\* one by one, in order (mapper, main loop).
THEOREM ToldCorrect == RunnerSpec => []MessagesTold
<1>1. RunnerIInv => MessagesTold
  <2> SUFFICES ASSUME RunnerIInv, yielded # NoMessage
               PROVE  /\ \/ MapSdkMessage(yielded) # <<>>
                         \/ Warns(yielded)
                         \/ ~ IsObject(yielded)
                         \/ /\ InnerType(yielded) = "content_block_delta"
                            /\ Field(Delta(yielded), "type", "") \in {"", "signature_delta"}
                      /\ ResultsKept
    BY Zenon DEF MessagesTold, Accounted, ResultsKept
  <2>1. yielded \in Messages
    BY DEF RunnerIInv, TypeOK
  <2>2. ResultsKept
    <3> DEFINE r == RawResults(BlocksOf(yielded))
               w == MapSdkMessage(yielded)
    <3> SUFFICES ASSUME IsUserTurn(yielded), r # <<>>
                 PROVE  /\ Len(w) = Len(r)
                        /\ \A i \in DOMAIN r : /\ w[i].type = "tool_result"
                                               /\ w[i].tool_use_id = CallOf(r[i])
      BY Zenon DEF ResultsKept, ContentOf, IsResult, CallOf, RawResults, BlocksOf, IsUserTurn
    <3> QED
      BY <2>1, ResultsTold
  <2> QED
    BY <2>1, <2>2, MessageTold
<1> QED
  BY <1>1, RunnerInvariant, PTL
=============================================================================
