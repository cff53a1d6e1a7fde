----------------------------- MODULE PanelProofs -----------------------------
(***************************************************************************)
(* What the theorems about the desktop's panels rest on.  For the page     *)
(* (module Desk): how a list changes when the wanted items of another are  *)
(* taken in order, the inductive invariant DeskIInv, and what a user's     *)
(* step and the page's last step keep of it.  For the panels of files and  *)
(* of the web: the invariants of the viewer and the walk that a link in a  *)
(* rendered file spells.  PagesProofs states the theorems.                 *)
(***************************************************************************)
EXTENDS Desk, Viewer, WebPanel, MarkdownLinks,
        FiniteSetTheorems, SequenceTheorems, WellFoundedInduction, TLAPS

-----------------------------------------------------------------------------
(* Lists *)

\* The naturals are well ordered: a non-empty set of them has a least element.
LEMMA LeastNat ==
  ASSUME NEW T \in SUBSET Nat, T # {}
  PROVE  \E n \in T : \A m \in T : n <= m
<1> DEFINE R == OpToRel(<, Nat)
<1>1. IsWellFoundedOn(R, Nat)
  BY NatLessThanWellFounded, Zenon
<1>2. \A m, n \in Nat : m < n => <<m, n>> \in R
  BY DEF OpToRel
<1> HIDE DEF R
<1>3. PICK n \in T : \A m \in T : ~ (<<m, n>> \in R)
  BY <1>1, WFMin
<1>4. \A m \in T : ~ (m < n)
  BY <1>2, <1>3
<1> QED
  BY <1>4

Stepping(g, n, V, a, F) ==
  g \in [0 .. n -> V] /\ g[0] = a /\ \A i \in 1 .. n : g[i] = F[<<i, g[i - 1]>>]

\* There is a function that goes from its first value step by step, as F says.
LEMMA StepByStep ==
  ASSUME NEW n \in Nat, NEW V, NEW a \in V, NEW F \in [(1 .. n) \X V -> V]
  PROVE  \E g : Stepping(g, n, V, a, F)
<1> USE DEF Stepping
<1> DEFINE Climbs(g, m) == Stepping(g, m, V, a, F)
           T == {m \in 0 .. n : ~ \E g : Climbs(g, m)}
<1>1. ASSUME T # {} PROVE FALSE
  <2>1. T \in SUBSET Nat
    OBVIOUS
  <2> HIDE DEF T
  <2>2. PICK m \in T : \A k \in T : m <= k
    BY <1>1, <2>1, LeastNat
  <2> USE DEF T
  <2>3. m \in 0 .. n /\ ~ \E g : Climbs(g, m)
    BY <2>2
  <2>4. m # 0
    <3>1. Climbs([i \in 0 .. 0 |-> a], 0)
      OBVIOUS
    <3> QED
      BY <2>3, <3>1
  <2>5. m - 1 \in 0 .. n /\ m - 1 \notin T
    <3> HIDE DEF T
    <3>1. m - 1 \in 0 .. n /\ ~ (m <= m - 1)
      BY <2>3, <2>4
    <3> QED
      BY <2>2, <3>1
  <2>6. PICK g : Climbs(g, m - 1)
    BY <2>5
  <2>7. PICK h : h = [i \in 0 .. m |-> IF i = m THEN F[<<m, g[m - 1]>>] ELSE g[i]]
    OBVIOUS
  <2>8. m \in 1 .. n /\ m - 1 \in 0 .. m - 1 /\ g[m - 1] \in V
    BY <2>3, <2>4, <2>6
  <2>9. F[<<m, g[m - 1]>>] \in V
    BY <2>8
  <2>10. h \in [0 .. m -> V] /\ h[0] = a
    BY <2>4, <2>6, <2>7, <2>8, <2>9
  <2>11. ASSUME NEW i \in 1 .. m PROVE h[i] = F[<<i, h[i - 1]>>]
    <3>1. CASE i = m
      <4> m - 1 \in 0 .. m /\ m - 1 # m /\ m \in 0 .. m
        BY <2>8
      <4> h[m - 1] = g[m - 1] /\ h[m] = F[<<m, g[m - 1]>>]
        BY <2>7
      <4> QED
        BY <3>1
    <3>2. CASE i # m
      BY <2>6, <2>7, <2>8, <3>2
    <3> QED
      BY <3>1, <3>2
  <2>12. Climbs(h, m)
    BY <2>10, <2>11
  <2> QED
    BY <2>3, <2>12
<1>2. n \in 0 .. n
  OBVIOUS
<1> QED
  BY <1>1, <1>2

\* List r has the entries that lie in S of the first k of s, at their places pos.
KeptAt(k, s, S, r, pos) ==
  /\ pos \in [1 .. Len(r) -> 1 .. k]
  /\ \A i \in 1 .. Len(r) : r[i] = s[pos[i]] /\ r[i] \in S
  /\ \A i, j \in 1 .. Len(r) : i < j => pos[i] < pos[j]
  /\ \A j \in 1 .. k : s[j] \in S => \E i \in 1 .. Len(r) : pos[i] = j

Filtering(f, E, s, S, n) ==
  /\ f \in [0 .. n -> Seq(E)] /\ f[0] = <<>> /\ f[n] = Among(s, S)
  /\ \A i \in 1 .. n : f[i] = IF s[i] \in S THEN Append(f[i - 1], s[i]) ELSE f[i - 1]

\* What filter keeps: step by step, the entries of the list that lie in the set.
LEMMA AmongSteps ==
  ASSUME NEW E, NEW s \in Seq(E), NEW S, NEW n \in Nat, n = Len(s)
  PROVE  \E f : Filtering(f, E, s, S, n)
<1> DEFINE Kept(f) == f = [i \in 0 .. n |-> IF i = 0 THEN <<>>
                                            ELSE IF s[i] \in S THEN Append(f[i - 1], s[i]) ELSE f[i - 1]]
           F == [p \in (1 .. n) \X Seq(E) |-> IF s[p[1]] \in S THEN Append(p[2], s[p[1]]) ELSE p[2]]
<1>1. \A i \in 1 .. n : s[i] \in E
  BY ElementOfSeq
<1>2. F \in [(1 .. n) \X Seq(E) -> Seq(E)]
  BY <1>1
<1>3. \A i \in 1 .. n, q \in Seq(E) : F[<<i, q>>] = IF s[i] \in S THEN Append(q, s[i]) ELSE q
  OBVIOUS
<1> HIDE DEF F
<1> PICK e \in Seq(E) : e = <<>>
  BY EmptySeq
<1>4. PICK g \in [0 .. n -> Seq(E)] : g[0] = e /\ \A i \in 1 .. n : g[i] = F[<<i, g[i - 1]>>]
  <2> PICK V : V = Seq(E)
    OBVIOUS
  <2>1. e \in V /\ F \in [(1 .. n) \X V -> V]
    BY <1>2
  <2>2. \E g : Stepping(g, n, V, e, F)
    BY <2>1, StepByStep
  <2> QED
    BY <2>2 DEF Stepping
<1>5. ASSUME NEW i \in 1 .. n
      PROVE  g[i] = IF s[i] \in S THEN Append(g[i - 1], s[i]) ELSE g[i - 1]
  <2> i - 1 \in 0 .. n
    OBVIOUS
  <2> g[i - 1] \in Seq(E)
    OBVIOUS
  <2> QED
    BY <1>3, <1>4
<1>6. Kept(g)
  <2>1. \A i \in 0 .. n : i = 0 \/ i \in 1 .. n
    OBVIOUS
  <2>2. ASSUME NEW i \in 0 .. n
        PROVE  g[i] = IF i = 0 THEN <<>>
                      ELSE IF s[i] \in S THEN Append(g[i - 1], s[i]) ELSE g[i - 1]
    BY <1>4, <1>5, <2>1, Zenon
  <2> QED
    BY <2>2, Zenon
<1>7. PICK f : f = CHOOSE h : Kept(h)
  OBVIOUS
<1>8. Kept(f)
  BY <1>6, <1>7
<1>9. Among(s, S) = f[n]
  BY <1>7 DEF Among
<1>10. f[0] = <<>>
  BY <1>8
<1>11. ASSUME NEW i \in 1 .. n
       PROVE  f[i] = IF s[i] \in S THEN Append(f[i - 1], s[i]) ELSE f[i - 1]
  <2> i \in 0 .. n /\ i # 0
    OBVIOUS
  <2> QED
    BY <1>8, Zenon
<1>12. f = [i \in 0 .. n |-> f[i]]
  BY <1>8
<1> HIDE DEF Kept
<1>13. ASSUME NEW i \in 0 .. n PROVE f[i] \in Seq(E)
  <2> DEFINE T == {j \in 0 .. n : f[j] \notin Seq(E)}
  <2>1. ASSUME T # {} PROVE FALSE
    <3>1. T \in SUBSET Nat
      OBVIOUS
    <3> HIDE DEF T
    <3>2. PICK k \in T : \A j \in T : k <= j
      BY <2>1, <3>1, LeastNat
    <3> USE DEF T
    <3>3. k # 0
      BY <1>10, <3>2
    <3>4. k \in 1 .. n /\ k - 1 \in 0 .. n /\ k - 1 \notin T
      BY <3>2, <3>3
    <3>5. f[k - 1] \in Seq(E) /\ s[k] \in E
      BY <1>1, <3>4
    <3>6. f[k] \in Seq(E)
      <4> Append(f[k - 1], s[k]) \in Seq(E)
        BY <3>5, AppendProperties
      <4> QED
        BY <1>11, <3>4, <3>5
    <3> QED
      BY <3>2, <3>6
  <2> QED
    BY <2>1
<1>14. f \in [0 .. n -> Seq(E)]
  BY <1>12, <1>13
<1> QED
  BY <1>9, <1>10, <1>11, <1>14, Zenon DEF Filtering

\* One more entry is looked at.
LEMMA KeptSkip ==
  ASSUME NEW k \in Nat \ {0}, NEW s, NEW S, NEW r, NEW pos, KeptAt(k - 1, s, S, r, pos), s[k] \notin S
  PROVE  KeptAt(k, s, S, r, pos)
<1>1. \A j \in 1 .. k : j \in 1 .. (k - 1) \/ j = k
  OBVIOUS
<1>2. \A j \in 1 .. (k - 1) : j \in 1 .. k
  OBVIOUS
<1> QED
  BY <1>1, <1>2 DEF KeptAt

LEMMA KeptMore ==
  ASSUME NEW E, NEW k \in Nat \ {0}, NEW s, NEW S, NEW r \in Seq(E), NEW pos,
         KeptAt(k - 1, s, S, r, pos), s[k] \in S, s[k] \in E
  PROVE  \E more : KeptAt(k, s, S, Append(r, s[k]), more)
<1> PICK m \in Nat : m = Len(r)
  BY LenProperties
<1> PICK a : a = Append(r, s[k])
  OBVIOUS
<1>1. Len(a) = m + 1 /\ a[m + 1] = s[k] /\ \A i \in 1 .. m : a[i] = r[i]
  BY AppendProperties
<1> PICK more : more = [i \in 1 .. (m + 1) |-> IF i = m + 1 THEN k ELSE pos[i]]
  OBVIOUS
<1>2. \A i \in 1 .. (m + 1) : i = m + 1 \/ (i \in 1 .. m /\ i # m + 1)
  OBVIOUS
<1>3. \A i \in 1 .. m : i \in 1 .. (m + 1) /\ i # m + 1 /\ pos[i] \in 1 .. (k - 1)
  <2> pos \in [1 .. m -> 1 .. (k - 1)]
    BY DEF KeptAt
  <2> QED
    OBVIOUS
<1>4. \A i \in 1 .. m : more[i] = pos[i]
  BY <1>3
<1>5. m + 1 \in 1 .. (m + 1) /\ more[m + 1] = k
  OBVIOUS
<1>6. \A i \in 1 .. (m + 1) : more[i] \in 1 .. k
  BY <1>2, <1>3, <1>4, <1>5
<1>7. more \in [1 .. (m + 1) -> 1 .. k]
  BY <1>6
<1>8. \A i \in 1 .. (m + 1) : a[i] = s[more[i]] /\ a[i] \in S
  BY <1>1, <1>2, <1>4, <1>5 DEF KeptAt
<1>9. \A i, j \in 1 .. (m + 1) : i < j => more[i] < more[j]
  <2> SUFFICES ASSUME NEW i \in 1 .. (m + 1), NEW j \in 1 .. (m + 1), i < j PROVE more[i] < more[j]
    OBVIOUS
  <2>1. i \in 1 .. m
    BY <1>2
  <2>2. CASE j = m + 1
    BY <1>3, <1>4, <1>5, <2>1, <2>2
  <2>3. CASE j \in 1 .. m
    BY <1>4, <2>1, <2>3 DEF KeptAt
  <2> QED
    BY <1>2, <2>2, <2>3
<1>10. ASSUME NEW j \in 1 .. k, s[j] \in S PROVE \E i \in 1 .. (m + 1) : more[i] = j
  <2>1. CASE j = k
    BY <1>5, <2>1
  <2>2. CASE j # k
    <3>1. j \in 1 .. (k - 1)
      BY <2>2
    <3>2. PICK i \in 1 .. m : pos[i] = j
      BY <1>10, <3>1 DEF KeptAt
    <3> QED
      BY <1>3, <1>4, <3>2
  <2> QED
    BY <2>1, <2>2
<1>11. KeptAt(k, s, S, a, more)
  BY <1>1, <1>7, <1>8, <1>9, <1>10 DEF KeptAt
<1> QED
  BY <1>11

\* Where the entries that are kept come from.
LEMMA AmongKeeps ==
  ASSUME NEW E, NEW s \in Seq(E), NEW S
  PROVE  Among(s, S) \in Seq(E) /\ \E pos : KeptAt(Len(s), s, S, Among(s, S), pos)
<1> PICK n \in Nat : n = Len(s)
  BY LenProperties
<1>0. \E f : Filtering(f, E, s, S, n)
  BY AmongSteps
<1> PICK f : Filtering(f, E, s, S, n)
  BY <1>0
<1>1. f \in [0 .. n -> Seq(E)] /\ f[n] = Among(s, S)
  BY DEF Filtering
<1>2. \A i \in 1 .. n : f[i] = IF s[i] \in S THEN Append(f[i - 1], s[i]) ELSE f[i - 1]
  BY DEF Filtering
<1> DEFINE Done(k) == \E pos : KeptAt(k, s, S, f[k], pos)
<1>3. Done(0)
  <2>1. Len(f[0]) = 0
    BY EmptySeq DEF Filtering
  <2>2. PICK pos : pos = [i \in 1 .. 0 |-> i]
    OBVIOUS
  <2>3. KeptAt(0, s, S, f[0], pos)
    BY <2>1, <2>2 DEF KeptAt
  <2> QED
    BY <2>3
<1>4. ASSUME NEW k \in 1 .. n, Done(k - 1) PROVE Done(k)
  <2> k \in Nat \ {0} /\ k - 1 \in 0 .. n
    OBVIOUS
  <2>1. f[k - 1] \in Seq(E) /\ s[k] \in E
    BY <1>1, ElementOfSeq
  <2> PICK r \in Seq(E) : r = f[k - 1]
    BY <2>1
  <2>2. PICK pos : KeptAt(k - 1, s, S, r, pos)
    BY <1>4
  <2>3. CASE s[k] \in S
    <3>1. f[k] = Append(r, s[k])
      BY <1>2, <2>3
    <3>2. \E more : KeptAt(k, s, S, Append(r, s[k]), more)
      BY <2>1, <2>2, <2>3, KeptMore
    <3> QED
      BY <3>1, <3>2
  <2>4. CASE s[k] \notin S
    <3>1. f[k] = r
      BY <1>2, <2>4
    <3>2. KeptAt(k, s, S, r, pos)
      BY <2>2, <2>4, KeptSkip
    <3> QED
      BY <3>1, <3>2
  <2> QED
    BY <2>3, <2>4
<1> HIDE DEF Done
<1> DEFINE T == {k \in 0 .. n : ~ Done(k)}
<1>5. ASSUME T # {} PROVE FALSE
  <2>1. T \in SUBSET Nat
    OBVIOUS
  <2> HIDE DEF T
  <2>2. PICK k \in T : \A j \in T : k <= j
    BY <1>5, <2>1, LeastNat
  <2> USE DEF T
  <2>3. k \in 1 .. n /\ k - 1 \in 0 .. n /\ k - 1 \notin T
    BY <1>3, <2>2
  <2> QED
    BY <1>4, <2>2, <2>3
<1>6. n \in 0 .. n
  OBVIOUS
<1>7. Done(n)
  BY <1>5, <1>6
<1> QED
  BY <1>1, <1>6, <1>7 DEF Done

\* What filter keeps of a list: the entries that lie in the set, each once if it was there
\* once.
Filtered(r, E, s, S) ==
  /\ r \in Seq(E) /\ Len(r) <= Len(s)
  /\ \A i \in 1 .. Len(r) : r[i] \in S /\ \E k \in 1 .. Len(s) : s[k] = r[i]
  /\ \A k \in 1 .. Len(s) : s[k] \in S => \E i \in 1 .. Len(r) : r[i] = s[k]
  /\ (\A i, j \in 1 .. Len(s) : s[i] = s[j] => i = j) =>
       \A i, j \in 1 .. Len(r) : r[i] = r[j] => i = j

LEMMA AmongProperties ==
  ASSUME NEW E, NEW s \in Seq(E), NEW S, NEW r, r = Among(s, S)
  PROVE  Filtered(r, E, s, S)
<1>1. r \in Seq(E)
  BY AmongKeeps
<1> PICK pos : KeptAt(Len(s), s, S, r, pos)
  BY AmongKeeps
<1> PICK m \in Nat, n \in Nat : m = Len(r) /\ n = Len(s)
  BY <1>1, LenProperties
<1>2. /\ pos \in [1 .. m -> 1 .. n]
      /\ \A i \in 1 .. m : r[i] = s[pos[i]] /\ r[i] \in S
      /\ \A i, j \in 1 .. m : i < j => pos[i] < pos[j]
      /\ \A k \in 1 .. n : s[k] \in S => \E i \in 1 .. m : pos[i] = k
  BY DEF KeptAt
<1>3. \A i, j \in 1 .. m : pos[i] = pos[j] => i = j
  BY SMTT(40), <1>2
<1>4. \A i \in 1 .. m : i <= pos[i]
  <2> DEFINE T == {i \in 1 .. m : pos[i] < i}
  <2>1. ASSUME T # {} PROVE FALSE
    <3>1. T \in SUBSET Nat
      OBVIOUS
    <3> HIDE DEF T
    <3>2. PICK i \in T : \A j \in T : i <= j
      BY <2>1, <3>1, LeastNat
    <3> USE DEF T
    <3>3. i \in 1 .. m /\ pos[i] < i /\ pos[i] \in 1 .. n
      BY <1>2, <3>2
    <3>4. i - 1 \in 1 .. m /\ i - 1 < i
      BY <3>3
    <3>5. i - 1 <= pos[i - 1] /\ pos[i - 1] < pos[i]
      BY <1>2, <3>2, <3>3, <3>4
    <3> QED
      BY <1>2, <3>3, <3>4, <3>5
  <2> QED
    BY <1>2, <2>1
<1>5. m <= n
  BY <1>2, <1>4
<1>6. \A i \in 1 .. m : r[i] \in S /\ \E k \in 1 .. n : s[k] = r[i]
  BY <1>2
<1>7. \A k \in 1 .. n : s[k] \in S => \E i \in 1 .. m : r[i] = s[k]
  BY <1>2
<1>8. ASSUME \A i, j \in 1 .. n : s[i] = s[j] => i = j, NEW i \in 1 .. m, NEW j \in 1 .. m, r[i] = r[j]
      PROVE  i = j
  BY <1>2, <1>3, <1>8
<1> QED
  BY <1>1, <1>5, <1>6, <1>7, <1>8 DEF Filtered

-----------------------------------------------------------------------------
(* Desk *)

IsGroups(g) ==
  /\ g \in Seq((SUBSET Panels) \ {{}})
  /\ \A i, j \in 1 .. Len(g) : i # j => g[i] \cap g[j] = {}

LEMMA InDocked ==
  ASSUME NEW E, NEW g \in Seq(E)
  PROVE  \A p : p \in Docked(g) <=> \E i \in 1 .. Len(g) : p \in g[i]
BY DEF Docked, Range

\* The groups of g that hold something, at their places pos.
Squeezed(w, g, pos) ==
  /\ pos \in [1 .. Len(w) -> 1 .. Len(g)]
  /\ \A i \in 1 .. Len(w) : w[i] = g[pos[i]] /\ w[i] # {}
  /\ \A i, j \in 1 .. Len(w) : i < j => pos[i] < pos[j]
  /\ \A k \in 1 .. Len(g) : g[k] # {} => \E i \in 1 .. Len(w) : pos[i] = k

LEMMA NonEmptyKeeps ==
  ASSUME NEW E, NEW g \in Seq(E), NEW w, w = NonEmpty(g)
  PROVE  w \in Seq(E) /\ \E pos : Squeezed(w, g, pos)
<1> PICK n \in Nat : n = Len(g)
  BY LenProperties
<1> PICK S : S = Range(g) \ {{}}
  OBVIOUS
<1>1. w = Among(g, S)
  BY DEF NonEmpty
<1>2. w \in Seq(E) /\ \E pos : KeptAt(n, g, S, w, pos)
  BY <1>1, AmongKeeps
<1>3. PICK pos : KeptAt(n, g, S, w, pos)
  BY <1>2
<1>4. \A k \in 1 .. n : g[k] \in S <=> g[k] # {}
  BY DEF Range
<1>5. \A i \in 1 .. Len(w) : w[i] = g[pos[i]] /\ w[i] # {}
  BY <1>3 DEF KeptAt
<1>6. \A k \in 1 .. n : g[k] # {} => \E i \in 1 .. Len(w) : pos[i] = k
  BY <1>3, <1>4 DEF KeptAt
<1>7. Squeezed(w, g, pos)
  BY <1>3, <1>5, <1>6 DEF KeptAt, Squeezed
<1> QED
  BY <1>2, <1>7

\* The groups of g without the panels of P, at their places pos.
Thinned(w, g, P, pos) ==
  /\ pos \in [1 .. Len(w) -> 1 .. Len(g)]
  /\ \A i \in 1 .. Len(w) : w[i] = g[pos[i]] \ P /\ w[i] # {}
  /\ \A i, j \in 1 .. Len(w) : i < j => pos[i] < pos[j]
  /\ \A k \in 1 .. Len(g) : g[k] \ P # {} => \E i \in 1 .. Len(w) : pos[i] = k

LEMMA WithoutThins ==
  ASSUME NEW g, IsGroups(g), NEW P, NEW w, w = Without(g, P)
  PROVE  IsGroups(w) /\ \E pos : Thinned(w, g, P, pos)
<1>0. g \in Seq((SUBSET Panels) \ {{}}) /\ \A i, j \in 1 .. Len(g) : i # j => g[i] \cap g[j] = {}
  BY DEF IsGroups
<1> PICK n \in Nat : n = Len(g)
  BY <1>0, LenProperties
<1> PICK t : t = [i \in DOMAIN g |-> g[i] \ P]
  OBVIOUS
<1>1. DOMAIN g = 1 .. n
  BY <1>0, LenProperties
<1>2. \A i \in 1 .. n : g[i] \in SUBSET Panels
  BY <1>0, ElementOfSeq
<1>3. t \in [1 .. n -> SUBSET Panels]
  BY <1>1, <1>2
<1>4. t \in Seq(SUBSET Panels) /\ Len(t) = n /\ \A i \in 1 .. n : t[i] = g[i] \ P
  BY <1>1, <1>3
<1>5. w = NonEmpty(t)
  BY DEF Without
<1>6. w \in Seq(SUBSET Panels) /\ \E pos : Squeezed(w, t, pos)
  BY <1>4, <1>5, NonEmptyKeeps
<1>7. PICK pos : Squeezed(w, t, pos)
  BY <1>6
<1> PICK m \in Nat : m = Len(w)
  BY <1>6, LenProperties
<1>8. /\ pos \in [1 .. m -> 1 .. n]
      /\ \A i \in 1 .. m : w[i] = g[pos[i]] \ P /\ w[i] # {}
      /\ \A i, j \in 1 .. m : i < j => pos[i] < pos[j]
      /\ \A k \in 1 .. n : g[k] \ P # {} => \E i \in 1 .. m : pos[i] = k
  BY <1>4, <1>7 DEF Squeezed
<1>9. Thinned(w, g, P, pos)
  BY <1>8 DEF Thinned
<1>10. w \in Seq((SUBSET Panels) \ {{}})
  <2>1. \A i \in 1 .. m : w[i] \in (SUBSET Panels) \ {{}}
    BY <1>6, <1>8, ElementOfSeq
  <2>2. w \in [1 .. m -> (SUBSET Panels) \ {{}}]
    BY <1>6, <2>1, LenProperties
  <2> QED
    BY <2>2
<1>11. ASSUME NEW i \in 1 .. m, NEW j \in 1 .. m, i # j PROVE w[i] \cap w[j] = {}
  <2>0. pos[i] \in 1 .. n /\ pos[j] \in 1 .. n
    <3>1. pos \in [1 .. m -> 1 .. n]
      BY <1>8
    <3> QED
      BY <1>11, <3>1
  <2>1. pos[i] # pos[j]
    <3>1. \A k, l \in 1 .. m : k < l => pos[k] < pos[l]
      BY <1>8
    <3>2. pos[i] < pos[j] \/ pos[j] < pos[i]
      BY <1>11, <3>1
    <3> QED
      BY <2>0, <3>2
  <2>2. g[pos[i]] \cap g[pos[j]] = {}
    BY <1>0, <2>0, <2>1
  <2> QED
    BY <1>8, <2>2
<1> QED
  BY <1>9, <1>10, <1>11 DEF IsGroups

LEMMA WithoutDocks ==
  ASSUME NEW g, IsGroups(g), NEW P, NEW w, w = Without(g, P)
  PROVE  IsGroups(w) /\ Docked(w) = Docked(g) \ P
<1>1. IsGroups(w) /\ \E pos : Thinned(w, g, P, pos)
  BY WithoutThins
<1>2. PICK pos : Thinned(w, g, P, pos)
  BY <1>1
<1>3. \A p : p \in Docked(w) <=> \E i \in 1 .. Len(w) : p \in w[i]
  BY <1>1, InDocked DEF IsGroups
<1>4. \A p : p \in Docked(g) <=> \E i \in 1 .. Len(g) : p \in g[i]
  BY InDocked DEF IsGroups
<1>5. ASSUME NEW p \in Docked(w) PROVE p \in Docked(g) \ P
  <2>1. PICK i \in 1 .. Len(w) : p \in w[i]
    BY <1>3
  <2> QED
    BY <1>2, <1>4, <2>1 DEF Thinned
<1>6. ASSUME NEW p \in Docked(g) \ P PROVE p \in Docked(w)
  <2>1. PICK k \in 1 .. Len(g) : p \in g[k]
    BY <1>4
  <2>2. PICK i \in 1 .. Len(w) : pos[i] = k
    BY <1>2, <2>1 DEF Thinned
  <2>3. p \in w[i]
    BY <1>2, <2>1, <2>2 DEF Thinned
  <2> QED
    BY <1>3, <2>3
<1> QED
  BY <1>1, <1>5, <1>6

\* A group that is added to, and a group of its own.
Extended(w, g, i, p) ==
  /\ w \in Seq((SUBSET Panels) \ {{}}) /\ Len(w) = Len(g)
  /\ \A k \in 1 .. Len(g) : w[k] = IF k = i THEN g[k] \cup {p} ELSE g[k]

Inserted(w, g, i, S) ==
  /\ w \in Seq((SUBSET Panels) \ {{}}) /\ Len(w) = Len(g) + 1 /\ i \in 1 .. Len(w)
  /\ \A k \in 1 .. Len(w) : w[k] = IF k < i THEN g[k] ELSE IF k = i THEN S ELSE g[k - 1]

LEMMA AddedTo ==
  ASSUME NEW g \in Seq((SUBSET Panels) \ {{}}), NEW p \in Panels, NEW i \in 1 .. Len(g),
         NEW w, w = [g EXCEPT ![i] = @ \cup {p}]
  PROVE  Extended(w, g, i, p)
<1> PICK n \in Nat : n = Len(g)
  BY LenProperties
<1>1. g \in [1 .. n -> (SUBSET Panels) \ {{}}]
  BY LenProperties
<1>2. \A k \in 1 .. n : g[k] \in SUBSET Panels /\ g[k] # {}
  BY <1>1
<1>3. \A k \in 1 .. n : w[k] = IF k = i THEN g[k] \cup {p} ELSE g[k]
  BY <1>1
<1>4. \A k \in 1 .. n : w[k] \in (SUBSET Panels) \ {{}}
  BY <1>2, <1>3
<1>5. w \in [1 .. n -> (SUBSET Panels) \ {{}}]
  BY <1>1, <1>4
<1>6. w \in Seq((SUBSET Panels) \ {{}}) /\ Len(w) = n
  BY <1>5
<1> QED
  BY <1>3, <1>6 DEF Extended

Concat(w, c, b, E) ==
  /\ w \in Seq(E) /\ Len(w) = Len(c) + Len(b)
  /\ \A k \in 1 .. (Len(c) + Len(b)) : w[k] = IF k <= Len(c) THEN c[k] ELSE b[k - Len(c)]

LEMMA Concats ==
  ASSUME NEW E, NEW c \in Seq(E), NEW b \in Seq(E) PROVE Concat(c \o b, c, b, E)
BY ConcatProperties DEF Concat

LEMMA InsertedAt ==
  ASSUME NEW g \in Seq((SUBSET Panels) \ {{}}), NEW S \in (SUBSET Panels) \ {{}},
         NEW i \in 1 .. (Len(g) + 1), NEW w, w = InsertAt(g, i, S)
  PROVE  Inserted(w, g, i, S)
<1> PICK n \in Nat : n = Len(g)
  BY LenProperties
<1> PICK E : E = (SUBSET Panels) \ {{}}
  OBVIOUS
<1> PICK a : a = SubSeq(g, 1, i - 1)
  OBVIOUS
<1> PICK b : b = SubSeq(g, i, n)
  OBVIOUS
<1>1. a \in Seq(E) /\ Len(a) = i - 1 /\ \A k \in 1 .. (i - 1) : a[k] = g[k]
  BY SubSeqProperties
<1>2. b \in Seq(E) /\ Len(b) = n - i + 1 /\ \A k \in 1 .. (n - i + 1) : b[k] = g[i + k - 1]
  BY SubSeqProperties
<1>3. w = a \o <<S>> \o b
  BY DEF InsertAt
<1> PICK c : c = a \o <<S>>
  OBVIOUS
<1>4. <<S>> \in Seq(E) /\ Len(<<S>>) = 1 /\ <<S>>[1] = S
  OBVIOUS
<1>5. c \in Seq(E) /\ Len(c) = i /\ \A k \in 1 .. i : c[k] = IF k <= i - 1 THEN a[k] ELSE <<S>>[k - (i - 1)]
  <2> PICK one : one = <<S>>
    OBVIOUS
  <2>1. c = a \o one /\ one \in Seq(E) /\ Len(one) = 1
    BY <1>4
  <2>2. /\ c \in Seq(E) /\ Len(c) = Len(a) + Len(one)
        /\ \A k \in 1 .. (Len(a) + Len(one)) :
             c[k] = IF k <= Len(a) THEN a[k] ELSE one[k - Len(a)]
    BY <1>1, <2>1, ConcatProperties
  <2>3. Len(a) + Len(one) = i /\ Len(a) = i - 1
    BY <1>1, <2>1
  <2> QED
    BY <2>2, <2>3
<1>6. \A k \in 1 .. i : c[k] = IF k < i THEN g[k] ELSE S
  <2> SUFFICES ASSUME NEW k \in 1 .. i PROVE c[k] = IF k < i THEN g[k] ELSE S
    OBVIOUS
  <2>1. CASE k < i
    <3>1. k <= i - 1 /\ k \in 1 .. (i - 1)
      BY <2>1
    <3> QED
      BY <1>1, <1>5, <2>1, <3>1
  <2>2. CASE ~ (k < i)
    <3>1. k = i /\ k - (i - 1) = 1 /\ ~ (k <= i - 1)
      BY <2>2
    <3> QED
      BY <1>4, <1>5, <2>2, <3>1
  <2> QED
    BY <2>1, <2>2
<1>7. w = c \o b
  BY <1>3
<1>8. i + (n - i + 1) = n + 1
  OBVIOUS
<1>9. w \in Seq(E) /\ Len(w) = n + 1 /\ \A k \in 1 .. (n + 1) : w[k] = IF k <= i THEN c[k] ELSE b[k - i]
  <2>1. Concat(w, c, b, E)
    BY <1>2, <1>5, <1>7, Concats
  <2>2. Len(c) = i /\ Len(c) + Len(b) = n + 1
    BY <1>2, <1>5, <1>8
  <2> QED
    BY <2>1, <2>2 DEF Concat
<1>10. \A k \in 1 .. (n + 1) : w[k] = IF k < i THEN g[k] ELSE IF k = i THEN S ELSE g[k - 1]
  <2> SUFFICES ASSUME NEW k \in 1 .. (n + 1)
               PROVE w[k] = IF k < i THEN g[k] ELSE IF k = i THEN S ELSE g[k - 1]
    OBVIOUS
  <2>1. CASE k <= i
    <3>1. k \in 1 .. i /\ (k < i \/ k = i)
      BY <2>1
    <3> QED
      BY <1>6, <1>9, <2>1, <3>1
  <2>2. CASE ~ (k <= i)
    <3>1. k - i \in 1 .. (n - i + 1) /\ i + (k - i) - 1 = k - 1 /\ ~ (k < i) /\ k # i
      BY <2>2
    <3>2. b[k - i] = g[k - 1]
      BY <1>2, <3>1
    <3> QED
      BY <1>9, <2>2, <3>1, <3>2
  <2> QED
    BY <2>1, <2>2
<1>11. w \in Seq((SUBSET Panels) \ {{}}) /\ Len(w) = n + 1 /\ i \in 1 .. (n + 1)
  BY <1>9
<1>12. Len(w) = Len(g) + 1
  BY <1>11
<1> QED
  BY <1>10, <1>11, <1>12 DEF Inserted

LEMMA ExtendedDocks ==
  ASSUME NEW g, IsGroups(g), NEW p \in Panels, p \notin Docked(g), NEW i \in 1 .. Len(g),
         NEW w, Extended(w, g, i, p)
  PROVE  IsGroups(w) /\ Docked(w) = Docked(g) \cup {p}
<1>1. /\ w \in Seq((SUBSET Panels) \ {{}}) /\ g \in Seq((SUBSET Panels) \ {{}})
      /\ \A k, j \in 1 .. Len(g) : k # j => g[k] \cap g[j] = {}
  BY DEF Extended, IsGroups
<1> PICK n \in Nat : n = Len(g)
  BY <1>1, LenProperties
<1>2. Len(w) = n /\ \A k \in 1 .. n : w[k] = IF k = i THEN g[k] \cup {p} ELSE g[k]
  BY DEF Extended
<1>3. \A x : x \in Docked(w) <=> \E k \in 1 .. n : x \in w[k]
  BY <1>1, <1>2, InDocked
<1>4. \A x : x \in Docked(g) <=> \E k \in 1 .. n : x \in g[k]
  BY <1>1, InDocked
<1>5. \A k \in 1 .. n : p \notin g[k]
  BY <1>4
<1>6. \A k, j \in 1 .. n : k # j => w[k] \cap w[j] = {}
  BY <1>1, <1>2, <1>5
<1>7. Docked(w) = Docked(g) \cup {p}
  BY <1>2, <1>3, <1>4
<1> QED
  BY <1>1, <1>2, <1>6, <1>7 DEF IsGroups

LEMMA InsertedDocks ==
  ASSUME NEW g, IsGroups(g), NEW S \in (SUBSET Panels) \ {{}}, S \cap Docked(g) = {},
         NEW i, NEW w, Inserted(w, g, i, S)
  PROVE  IsGroups(w) /\ Docked(w) = Docked(g) \cup S
<1>1. /\ w \in Seq((SUBSET Panels) \ {{}}) /\ g \in Seq((SUBSET Panels) \ {{}})
      /\ \A k, j \in 1 .. Len(g) : k # j => g[k] \cap g[j] = {}
  BY DEF Inserted, IsGroups
<1> PICK n \in Nat : n = Len(g)
  BY <1>1, LenProperties
<1>2. /\ Len(w) = n + 1 /\ i \in 1 .. (n + 1)
      /\ \A k \in 1 .. (n + 1) : w[k] = IF k < i THEN g[k] ELSE IF k = i THEN S ELSE g[k - 1]
  BY DEF Inserted
<1>3. \A x : x \in Docked(w) <=> \E k \in 1 .. (n + 1) : x \in w[k]
  BY <1>1, <1>2, InDocked
<1>4. \A x : x \in Docked(g) <=> \E k \in 1 .. n : x \in g[k]
  BY <1>1, InDocked
<1>5. \A k \in 1 .. n : S \cap g[k] = {}
  BY <1>4
<1>6. \A k \in 1 .. (n + 1) : (k < i /\ k \in 1 .. n) \/ k = i \/ (~ (k < i) /\ k # i /\ k - 1 \in 1 .. n)
  BY <1>2
<1>7. \A k \in 1 .. n : IF k < i THEN k \in 1 .. (n + 1) ELSE k + 1 \in 1 .. (n + 1) /\ ~ (k + 1 < i) /\ k + 1 # i /\ (k + 1) - 1 = k
  BY <1>2
<1>8. \A k \in 1 .. n : (k < i /\ k \in 1 .. (n + 1) /\ w[k] = g[k]) \/ (k + 1 \in 1 .. (n + 1) /\ w[k + 1] = g[k])
  BY <1>2, <1>7
<1>9. \A k, j \in 1 .. (n + 1) : k # j => w[k] \cap w[j] = {}
  <2> SUFFICES ASSUME NEW k \in 1 .. (n + 1), NEW j \in 1 .. (n + 1), k # j PROVE w[k] \cap w[j] = {}
    OBVIOUS
  <2>1. CASE k = i \/ j = i
    <3>1. (k = i /\ w[k] = S /\ \E h \in 1 .. n : w[j] = g[h]) \/ (j = i /\ w[j] = S /\ \E h \in 1 .. n : w[k] = g[h])
      BY <1>2, <1>6, <2>1
    <3> QED
      BY <1>5, <3>1
  <2>2. CASE k # i /\ j # i
    <3>1. PICK a \in 1 .. n : w[k] = g[a] /\ a = IF k < i THEN k ELSE k - 1
      BY <1>2, <1>6, <2>2
    <3>2. PICK b \in 1 .. n : w[j] = g[b] /\ b = IF j < i THEN j ELSE j - 1
      BY <1>2, <1>6, <2>2
    <3>3. a # b
      <4>1. a = k \/ (a = k - 1 /\ k > i)
        BY <1>2, <2>2, <3>1
      <4>2. b = j \/ (b = j - 1 /\ j > i)
        BY <1>2, <2>2, <3>2
      <4>3. (a = k => k < i) /\ (b = j => j < i)
        BY <1>2, <2>2, <3>1, <3>2
      <4> QED
        BY <1>2, <2>2, <4>1, <4>2, <4>3
    <3> QED
      BY <1>1, <3>1, <3>2, <3>3
  <2> QED
    BY <2>1, <2>2
<1>10. ASSUME NEW x PROVE x \in Docked(w) <=> x \in Docked(g) \/ x \in S
  <2>1. ASSUME NEW k \in 1 .. (n + 1), x \in w[k] PROVE x \in S \/ \E h \in 1 .. n : x \in g[h]
    BY <1>2, <1>6, <2>1
  <2>2. ASSUME NEW h \in 1 .. n, x \in g[h] PROVE \E k \in 1 .. (n + 1) : x \in w[k]
    BY <1>8, <2>2
  <2>3. w[i] = S
    BY <1>2
  <2> QED
    BY <1>2, <1>3, <1>4, <2>1, <2>2, <2>3
<1>11. Docked(w) = Docked(g) \cup S
  BY <1>10
<1> QED
  BY <1>1, <1>2, <1>9, <1>11 DEF IsGroups

LEMMA NonEmptyDocks ==
  ASSUME NEW t \in Seq(SUBSET Panels), \A i, j \in 1 .. Len(t) : i # j => t[i] \cap t[j] = {},
         NEW w, w = NonEmpty(t)
  PROVE  IsGroups(w) /\ Docked(w) = Docked(t)
<1>1. w \in Seq(SUBSET Panels) /\ \E pos : Squeezed(w, t, pos)
  BY NonEmptyKeeps
<1>2. PICK pos : Squeezed(w, t, pos)
  BY <1>1
<1> PICK n \in Nat : n = Len(t)
  BY LenProperties
<1> PICK m \in Nat : m = Len(w)
  BY <1>1, LenProperties
<1>3. /\ pos \in [1 .. m -> 1 .. n]
      /\ \A i \in 1 .. m : w[i] = t[pos[i]] /\ w[i] # {}
      /\ \A i, j \in 1 .. m : i < j => pos[i] < pos[j]
      /\ \A k \in 1 .. n : t[k] # {} => \E i \in 1 .. m : pos[i] = k
  BY <1>2 DEF Squeezed
<1>4. w \in Seq((SUBSET Panels) \ {{}})
  <2>1. \A i \in 1 .. m : w[i] \in (SUBSET Panels) \ {{}}
    BY <1>1, <1>3, ElementOfSeq
  <2>2. w \in [1 .. m -> (SUBSET Panels) \ {{}}]
    BY <1>1, <2>1, LenProperties
  <2> QED
    BY <2>2
<1>5. ASSUME NEW i \in 1 .. m, NEW j \in 1 .. m, i # j PROVE w[i] \cap w[j] = {}
  <2>1. pos[i] # pos[j] /\ pos[i] \in 1 .. n /\ pos[j] \in 1 .. n
    <3>1. pos[i] \in 1 .. n /\ pos[j] \in 1 .. n
      BY <1>3
    <3>2. i < j \/ j < i
      BY <1>5
    <3>3. pos[i] < pos[j] \/ pos[j] < pos[i]
      BY <1>3, <3>2
    <3> QED
      BY <3>1, <3>3
  <2>2. t[pos[i]] \cap t[pos[j]] = {}
    BY <2>1
  <2> QED
    BY <1>3, <2>2
<1>6. \A p : p \in Docked(w) <=> \E i \in 1 .. m : p \in w[i]
  BY <1>1, InDocked
<1>7. \A p : p \in Docked(t) <=> \E i \in 1 .. n : p \in t[i]
  BY InDocked
<1>8. ASSUME NEW p \in Docked(w) PROVE p \in Docked(t)
  <2>1. PICK i \in 1 .. m : p \in w[i]
    BY <1>6
  <2> QED
    BY <1>3, <1>7, <2>1
<1>9. ASSUME NEW p \in Docked(t) PROVE p \in Docked(w)
  <2>1. PICK k \in 1 .. n : p \in t[k]
    BY <1>7
  <2>2. PICK i \in 1 .. m : pos[i] = k
    BY <1>3, <2>1
  <2> QED
    BY <1>3, <1>6, <2>1, <2>2
<1> QED
  BY <1>4, <1>5, <1>8, <1>9 DEF IsGroups

LEMMA FirstIsPlace ==
  ASSUME NEW E, NEW g \in Seq(E), NEW kind, NEW i \in First(g, kind)
  PROVE  i \in 1 .. Len(g) /\ KindOf(g[i]) = kind /\ \A j \in 1 .. i - 1 : KindOf(g[j]) # kind
BY LenProperties DEF First

\* A panel that is placed joins a group or makes one.
LEMMA PlacedIs ==
  ASSUME NEW g, IsGroups(g), NEW p \in Panels, NEW kind, NEW w \in Placed(g, p, kind)
  PROVE  \/ \E i \in 1 .. Len(g) : Extended(w, g, i, p)
         \/ \E i \in 1 .. Len(g) + 1 : Inserted(w, g, i, {p})
<1>1. g \in Seq((SUBSET Panels) \ {{}}) /\ Len(g) \in Nat /\ DOMAIN g = 1 .. Len(g)
  BY LenProperties DEF IsGroups
<1>2. {p} \in (SUBSET Panels) \ {{}}
  OBVIOUS
<1> DEFINE other == First(g, IF kind = "agent" THEN "file" ELSE "agent")
<1>3. \/ \E i \in First(g, kind) : w = [g EXCEPT ![i] = @ \cup {p}]
      \/ \E i \in other : w = InsertAt(g, IF kind = "agent" THEN i ELSE i + 1, {p})
      \/ g = <<>> /\ w = <<{p}>>
      \/ \E i \in DOMAIN g : w = [g EXCEPT ![i] = @ \cup {p}]
  BY DEF Placed
<1>4. ASSUME NEW i \in First(g, kind), w = [g EXCEPT ![i] = @ \cup {p}]
      PROVE  \E k \in 1 .. Len(g) : Extended(w, g, k, p)
  <2>1. i \in 1 .. Len(g)
    BY <1>1, FirstIsPlace
  <2> QED
    BY <1>1, <1>4, <2>1, AddedTo
<1>5. ASSUME NEW i \in other, w = InsertAt(g, IF kind = "agent" THEN i ELSE i + 1, {p})
      PROVE  \E k \in 1 .. Len(g) + 1 : Inserted(w, g, k, {p})
  <2> PICK k : k = IF kind = "agent" THEN i ELSE i + 1
    OBVIOUS
  <2>1. i \in 1 .. Len(g)
    BY <1>1, FirstIsPlace
  <2>2. k \in 1 .. (Len(g) + 1)
    BY <1>1, <2>1
  <2>3. w = InsertAt(g, k, {p})
    BY <1>5
  <2> QED
    BY <1>1, <1>2, <2>2, <2>3, InsertedAt
<1>6. ASSUME g = <<>>, w = <<{p}>> PROVE \E k \in 1 .. Len(g) + 1 : Inserted(w, g, k, {p})
  <2>1. Len(g) = 0 /\ Len(w) = 1 /\ w[1] = {p} /\ w \in Seq((SUBSET Panels) \ {{}})
    BY <1>2, <1>6
  <2>2. Inserted(w, g, 1, {p})
    BY <2>1 DEF Inserted
  <2> QED
    BY <2>1, <2>2
<1>7. ASSUME NEW i \in DOMAIN g, w = [g EXCEPT ![i] = @ \cup {p}]
      PROVE  \E k \in 1 .. Len(g) : Extended(w, g, k, p)
  BY <1>1, <1>7, AddedTo
<1> QED
  BY <1>3, <1>4, <1>5, <1>6, <1>7

LEMMA PlacedDocks ==
  ASSUME NEW g, IsGroups(g), NEW p \in Panels, p \notin Docked(g), NEW kind,
         NEW w \in Placed(g, p, kind)
  PROVE  IsGroups(w) /\ Docked(w) = Docked(g) \cup {p}
<1>1. \/ \E i \in 1 .. Len(g) : Extended(w, g, i, p)
      \/ \E i \in 1 .. Len(g) + 1 : Inserted(w, g, i, {p})
  BY PlacedIs
<1>2. ASSUME NEW i \in 1 .. Len(g), Extended(w, g, i, p)
      PROVE  IsGroups(w) /\ Docked(w) = Docked(g) \cup {p}
  BY <1>2, ExtendedDocks
<1>3. ASSUME NEW i, Inserted(w, g, i, {p})
      PROVE  IsGroups(w) /\ Docked(w) = Docked(g) \cup {p}
  <2>1. {p} \in (SUBSET Panels) \ {{}} /\ {p} \cap Docked(g) = {}
    OBVIOUS
  <2> QED
    BY <1>3, <2>1, InsertedDocks
<1> QED
  BY <1>1, <1>2, <1>3

LEMMA RetiredDocks ==
  ASSUME NEW g, IsGroups(g), NEW f, NEW w, w = Retired(g, f)
  PROVE  /\ IsGroups(w)
         /\ Docked(w) = Docked(g) \/ Docked(w) = Docked(g) \ {Placeholder}
<1>1. w = g \/ w = Without(g, {Placeholder})
  BY DEF Retired
<1> QED
  BY <1>1, WithoutDocks

\* A page that keeps the split has a file side if it has an agent.
HasSides(g) ==
  /\ Docked(g) \cap Convs # {} => Docked(g) \ Convs # {}
  /\ Placeholder \in Docked(g) => Docked(g) \cap Convs # {}

LEMMA SplitDocks ==
  ASSUME NEW g, IsGroups(g), NEW w \in Split(g)
  PROVE  /\ IsGroups(w) /\ HasSides(w)
         /\ \A p \in Panels \ {Placeholder} : p \in Docked(w) <=> p \in Docked(g)
<1>1. Placeholder \in Panels /\ Placeholder \notin Convs /\ (Files \cup Urls) \cap Convs = {}
  BY DeskAssumption DEF Panels
<1>2. \/ Docked(g) \cap Convs = {} /\ w = Without(g, {Placeholder})
      \/ /\ Docked(g) \cap Convs # {} /\ w = g
         /\ Docked(g) \cap (Files \cup Urls) # {} \/ Placeholder \in Docked(g)
      \/ /\ Docked(g) \cap Convs # {} /\ Placeholder \notin Docked(g)
         /\ w \in Placed(g, Placeholder, "file")
  BY DEF Split
<1>3. CASE Docked(g) \cap Convs = {} /\ w = Without(g, {Placeholder})
  <2>1. IsGroups(w) /\ Docked(w) = Docked(g) \ {Placeholder}
    BY <1>3, WithoutDocks
  <2> QED
    BY <1>3, <2>1 DEF HasSides
<1>4. CASE /\ Docked(g) \cap Convs # {} /\ w = g
           /\ Docked(g) \cap (Files \cup Urls) # {} \/ Placeholder \in Docked(g)
  BY <1>1, <1>4 DEF HasSides
<1>5. CASE /\ Docked(g) \cap Convs # {} /\ Placeholder \notin Docked(g)
           /\ w \in Placed(g, Placeholder, "file")
  <2>1. IsGroups(w) /\ Docked(w) = Docked(g) \cup {Placeholder}
    BY <1>1, <1>5, PlacedDocks
  <2> QED
    BY <1>1, <1>5, <2>1 DEF HasSides
<1> QED
  BY <1>2, <1>3, <1>4, <1>5

\* A panel that is dragged: where it was stays without it.
Moved(there, i, p) == [k \in DOMAIN there |-> IF k = i THEN there[k] ELSE there[k] \ {p}]

\* Sets of panels that share none.
Disjoint(t) ==
  /\ t \in Seq(SUBSET Panels) /\ \A i, j \in 1 .. Len(t) : i # j => t[i] \cap t[j] = {}

LEMMA IsSeq == ASSUME NEW S, NEW n \in Nat, NEW t \in [1 .. n -> S] PROVE t \in Seq(S) /\ Len(t) = n
OBVIOUS

LEMMA DraggedOnto ==
  ASSUME NEW g, IsGroups(g), NEW p \in Docked(g), p \in Panels, NEW i \in 1 .. Len(g)
  PROVE  LET t == Moved([g EXCEPT ![i] = @ \cup {p}], i, p) IN Disjoint(t) /\ Docked(t) = Docked(g)
<1> PICK there : there = [g EXCEPT ![i] = @ \cup {p}]
  OBVIOUS
<1> PICK t : t = Moved(there, i, p)
  OBVIOUS
<1>1. /\ g \in Seq((SUBSET Panels) \ {{}})
      /\ \A k, j \in 1 .. Len(g) : k # j => g[k] \cap g[j] = {}
  BY DEF IsGroups
<1> PICK n \in Nat : n = Len(g)
  BY <1>1, LenProperties
<1>2. Extended(there, g, i, p)
  BY <1>1, AddedTo
<1>3. there \in Seq((SUBSET Panels) \ {{}}) /\ Len(there) = n
      /\ \A k \in 1 .. n : there[k] = IF k = i THEN g[k] \cup {p} ELSE g[k]
  BY <1>2 DEF Extended
<1>4. DOMAIN there = 1 .. n
  BY <1>3, LenProperties
<1>5. \A k \in 1 .. n : g[k] \in SUBSET Panels
  BY <1>1, ElementOfSeq
<1>6. \A k \in 1 .. n : t[k] = IF k = i THEN g[k] \cup {p} ELSE g[k] \ {p}
  BY <1>3, <1>4 DEF Moved
<1>7. \A k \in 1 .. n : t[k] \in SUBSET Panels
  BY <1>5, <1>6
<1>8. t \in [1 .. n -> SUBSET Panels]
  BY <1>4, <1>7 DEF Moved
<1>9. t \in Seq(SUBSET Panels) /\ Len(t) = n
  BY <1>8, IsSeq
<1>10. \A k, j \in 1 .. n : k # j => t[k] \cap t[j] = {}
  BY <1>1, <1>6
<1>11. \A x : x \in Docked(t) <=> \E k \in 1 .. n : x \in t[k]
  BY <1>9, InDocked
<1>12. \A x : x \in Docked(g) <=> \E k \in 1 .. n : x \in g[k]
  BY <1>1, InDocked
<1>13. ASSUME NEW x \in Docked(t) PROVE x \in Docked(g)
  <2>1. PICK k \in 1 .. n : x \in t[k]
    BY <1>11
  <2>2. x = p \/ x \in g[k]
    BY <1>6, <2>1
  <2> QED
    BY <1>12, <2>2
<1>14. ASSUME NEW x \in Docked(g) PROVE x \in Docked(t)
  <2>1. CASE x = p
    BY <1>6, <1>11, <2>1
  <2>2. CASE x # p
    BY <1>6, <1>11, <1>12, <2>2
  <2> QED
    BY <2>1, <2>2
<1> QED
  BY <1>9, <1>10, <1>13, <1>14 DEF Disjoint

LEMMA DraggedApart ==
  ASSUME NEW g, IsGroups(g), NEW p \in Docked(g), p \in Panels, NEW i \in 1 .. Len(g)
  PROVE  LET t == Moved(InsertAt(g, i, {p}), i, p) IN Disjoint(t) /\ Docked(t) = Docked(g)
<1> PICK there : there = InsertAt(g, i, {p})
  OBVIOUS
<1> PICK t : t = Moved(there, i, p)
  OBVIOUS
<1>1. /\ g \in Seq((SUBSET Panels) \ {{}})
      /\ \A k, j \in 1 .. Len(g) : k # j => g[k] \cap g[j] = {}
  BY DEF IsGroups
<1> PICK n \in Nat : n = Len(g)
  BY <1>1, LenProperties
<1>2. Inserted(there, g, i, {p})
  <2>1. {p} \in (SUBSET Panels) \ {{}} /\ i \in 1 .. (Len(g) + 1)
    BY <1>1
  <2> QED
    BY <1>1, <2>1, InsertedAt
<1>3. /\ there \in Seq((SUBSET Panels) \ {{}}) /\ Len(there) = n + 1 /\ i \in 1 .. (n + 1)
      /\ \A k \in 1 .. (n + 1) : there[k] = IF k < i THEN g[k] ELSE IF k = i THEN {p} ELSE g[k - 1]
  BY <1>2 DEF Inserted
<1>4. DOMAIN there = 1 .. (n + 1)
  BY <1>3, LenProperties
<1>5. \A k \in 1 .. (n + 1) : there[k] \in SUBSET Panels
  <2>1. there \in [1 .. (n + 1) -> (SUBSET Panels) \ {{}}]
    BY <1>3, LenProperties
  <2> QED
    BY <2>1
<1>6. \A k \in 1 .. (n + 1) : t[k] = IF k = i THEN there[k] ELSE there[k] \ {p}
  BY <1>4 DEF Moved
<1>7. \A k \in 1 .. (n + 1) : t[k] \in SUBSET Panels
  BY <1>5, <1>6
<1>8. t \in [1 .. (n + 1) -> SUBSET Panels]
  BY <1>4, <1>7 DEF Moved
<1>9. t \in Seq(SUBSET Panels) /\ Len(t) = n + 1
  <2> PICK m \in Nat : m = n + 1
    OBVIOUS
  <2>1. t \in [1 .. m -> SUBSET Panels]
    BY <1>8
  <2> QED
    BY <2>1, IsSeq
<1>10. t[i] = {p}
  <2>1. i \in 1 .. (n + 1) /\ ~ (i < i)
    BY <1>3
  <2>2. there[i] = {p}
    BY <1>3, <2>1
  <2> QED
    BY <1>6, <2>1, <2>2
<1>11. ASSUME NEW k \in 1 .. (n + 1), k < i PROVE k \in 1 .. n /\ t[k] = g[k] \ {p}
  <2>1. k \in 1 .. n /\ k # i
    BY <1>11
  <2> QED
    BY <1>3, <1>6, <1>11, <2>1
<1>12. ASSUME NEW k \in 1 .. (n + 1), i < k PROVE k - 1 \in 1 .. n /\ t[k] = g[k - 1] \ {p}
  <2>1. k - 1 \in 1 .. n /\ k # i /\ ~ (k < i)
    BY <1>12
  <2> QED
    BY <1>3, <1>6, <2>1
<1>13. ASSUME NEW k \in 1 .. (n + 1), NEW j \in 1 .. (n + 1), k < j PROVE t[k] \cap t[j] = {}
  <2>1. CASE k < i
    <3>1. k \in 1 .. n /\ t[k] = g[k] \ {p}
      BY <1>11, <2>1
    <3>2. CASE j < i
      <4>1. j \in 1 .. n /\ t[j] = g[j] \ {p}
        BY <1>11, <3>2
      <4>2. k # j
        BY <1>13
      <4> QED
        BY <1>1, <3>1, <4>1, <4>2
    <3>3. CASE j = i
      BY <1>10, <3>1, <3>3
    <3>4. CASE i < j
      <4>1. j - 1 \in 1 .. n /\ t[j] = g[j - 1] \ {p}
        BY <1>12, <3>4
      <4>2. k # j - 1
        BY <2>1, <3>4
      <4> QED
        BY <1>1, <3>1, <4>1, <4>2
    <3>5. j < i \/ j = i \/ i < j
      OBVIOUS
    <3> QED
      BY <3>2, <3>3, <3>4, <3>5
  <2>2. CASE k = i
    <3>1. j - 1 \in 1 .. n /\ t[j] = g[j - 1] \ {p}
      BY <1>13, <1>12, <2>2
    <3> QED
      BY <1>10, <2>2, <3>1
  <2>3. CASE i < k
    <3>1. k - 1 \in 1 .. n /\ t[k] = g[k - 1] \ {p}
      BY <1>12, <2>3
    <3>2. i < j
      BY <1>13, <2>3
    <3>3. j - 1 \in 1 .. n /\ t[j] = g[j - 1] \ {p}
      BY <1>12, <3>2
    <3>4. k - 1 # j - 1
      BY <1>13
    <3> QED
      BY <1>1, <3>1, <3>3, <3>4
  <2>4. k < i \/ k = i \/ i < k
    OBVIOUS
  <2> QED
    BY <2>1, <2>2, <2>3, <2>4
<1>14. \A k, j \in 1 .. (n + 1) : k # j => t[k] \cap t[j] = {}
  <2> SUFFICES ASSUME NEW k \in 1 .. (n + 1), NEW j \in 1 .. (n + 1), k # j PROVE t[k] \cap t[j] = {}
    OBVIOUS
  <2>1. k < j \/ j < k
    OBVIOUS
  <2> QED
    BY <1>13, <2>1
<1>15. \A x : x \in Docked(t) <=> \E k \in 1 .. (n + 1) : x \in t[k]
  BY <1>9, InDocked
<1>16. \A x : x \in Docked(g) <=> \E k \in 1 .. n : x \in g[k]
  BY <1>1, InDocked
<1>17. ASSUME NEW x \in Docked(t) PROVE x \in Docked(g)
  <2>1. PICK k \in 1 .. (n + 1) : x \in t[k]
    BY <1>15
  <2>2. CASE k < i
    BY <1>16, <1>11, <2>1, <2>2
  <2>3. CASE k = i
    BY <1>10, <2>1, <2>3
  <2>4. CASE i < k
    BY <1>16, <1>12, <2>1, <2>4
  <2>5. k < i \/ k = i \/ i < k
    OBVIOUS
  <2> QED
    BY <2>2, <2>3, <2>4, <2>5
<1>18. ASSUME NEW x \in Docked(g) PROVE x \in Docked(t)
  <2>1. CASE x = p
    BY <1>3, <1>10, <1>15, <2>1
  <2>2. CASE x # p
    <3>1. PICK k \in 1 .. n : x \in g[k]
      BY <1>16
    <3>2. CASE k < i
      <4>1. k \in 1 .. (n + 1)
        OBVIOUS
      <4>2. t[k] = g[k] \ {p}
        BY <1>11, <3>2, <4>1
      <4> QED
        BY <1>15, <2>2, <3>1, <4>1, <4>2
    <3>3. CASE ~ (k < i)
      <4>1. k + 1 \in 1 .. (n + 1) /\ i < k + 1 /\ (k + 1) - 1 = k
        BY <3>3
      <4>2. t[k + 1] = g[k] \ {p}
        BY <1>12, <4>1
      <4> QED
        BY <1>15, <2>2, <3>1, <4>1, <4>2
    <3> QED
      BY <3>2, <3>3
  <2> QED
    BY <2>1, <2>2
<1> QED
  BY <1>9, <1>14, <1>17, <1>18 DEF Disjoint

LEMMA DragDocks ==
  ASSUME NEW g, IsGroups(g), NEW p \in Docked(g), p \in Panels, NEW i \in 1 .. Len(g), NEW own,
         NEW there, there = IF own THEN InsertAt(g, i, {p}) ELSE [g EXCEPT ![i] = @ \cup {p}],
         NEW w, w = NonEmpty(Moved(there, i, p))
  PROVE  IsGroups(w) /\ Docked(w) = Docked(g)
<1> PICK t : t = Moved(there, i, p)
  OBVIOUS
<1>1. Disjoint(t) /\ Docked(t) = Docked(g)
  <2>1. CASE own
    <3>1. there = InsertAt(g, i, {p})
      BY <2>1
    <3> QED
      BY <3>1, DraggedApart
  <2>2. CASE ~ own
    <3>1. there = [g EXCEPT ![i] = @ \cup {p}]
      BY <2>2
    <3> QED
      BY <3>1, DraggedOnto
  <2> QED
    BY <2>1, <2>2
<1> QED
  BY <1>1, NonEmptyDocks DEF Disjoint

\* A layout: groups, and the agents of the files in them.
OwnersFit(g, o) == o \in [Docked(g) \cap Files -> Convs \cup {NoConv}]
Layouts ==
  [groups : Seq((SUBSET Panels) \ {{}}), owner : UNION {[S -> Convs \cup {NoConv}] : S \in SUBSET Files}]
IsLayout(l) ==
  /\ l \in Layouts
  /\ IsGroups(l.groups) /\ OwnersFit(l.groups, l.owner)
  /\ Docked(l.groups) \cap Convs \subseteq DOMAIN born

\* A list the server gave at some time: a session keeps its parent.
FromServer(ids) ==
  /\ ids \in ConvMaps /\ DOMAIN ids \subseteq DOMAIN born
  /\ \A c \in DOMAIN ids : ids[c] = born[c]

ServerOK == born \in ConvMaps /\ FromServer(sessions) /\ IsLayout(saved)
ListsOK ==
  /\ FromServer(list) /\ FromServer(poll.ids) /\ poll.served \in BOOLEAN
  /\ {loadedOnce, connected} \subseteq BOOLEAN
DockOK ==
  /\ IsGroups(groups) /\ OwnersFit(groups, owner)
  /\ phase \in {"restoring", "ready"} /\ saving \in BOOLEAN
  /\ Docked(groups) \cap Convs \subseteq DOMAIN born
  /\ override \in [DOMAIN override -> BOOLEAN]
  /\ wanted \subseteq DOMAIN born
PostsOK ==
  /\ posts \in Seq(Layouts) /\ \A i \in 1 .. Len(posts) : IsLayout(posts[i])
  /\ newestLayout \in Whereabouts /\ (newestLayout = "sent" => posts # <<>>)

\* The running request: it makes a session there never was, and was answered with
\* what the server had.
OpOK ==
  /\ op \in [kind : {"none", "create", "delete"}, id : Convs \cup {NoConv},
             stage : {"none", "posted", "refresh", "refreshed"}, ids : ConvMaps]
  /\ op.kind = "none" <=> op.stage = "none"
  /\ op.kind # "none" => op.id \in Convs
  /\ op.kind = "create" /\ op.stage = "posted" =>
       op.id \notin DOMAIN born /\ op.ids \in [{op.id} -> Convs \cup {NoConv}]
  /\ op.kind = "create" /\ op.stage # "posted" => op.id \in DOMAIN born
  /\ op.stage = "refreshed" => FromServer(op.ids)

\* While the layout is restored the page saves nothing, and a list that has arrived or
\* is about to has every session that lives of the layouts there are: the server's, the
\* fetched one and those the page before sent.
Laid ==
  Docked(saved.groups) \cup Docked(fetched.layout.groups)
    \cup UNION {Docked(posts[i].groups) : i \in 1 .. Len(posts)}
Covers(ids) == Laid \cap DOMAIN sessions \subseteq DOMAIN ids
RestoringOK ==
  /\ fetched.ids \subseteq DOMAIN born /\ IsLayout(fetched.layout)
  /\ phase = "restoring" =>
       /\ ~ saving /\ newestLayout # "sent" /\ wanted = {}
       /\ newestLayout = "stored" => fetched.layout = saved
       /\ loadedOnce => Covers(list)
       /\ poll.served => Covers(poll.ids)
       /\ op.stage = "refreshed" => Covers(op.ids)

\* The tabs are docked, and unless a save is due or the last one was lost, in the layout
\* saved last.
Newest == IF newestLayout = "sent" THEN posts[Len(posts)] ELSE saved
TabsHeld ==
  phase = "ready" =>
    /\ wanted \cap DOMAIN sessions \subseteq Docked(groups)
    /\ ~ saving /\ newestLayout \in {"sent", "stored"} =>
         wanted \cap DOMAIN sessions \subseteq Docked(Newest.groups)

\* What is docked when a deletion runs is listed, or the deletion did not know it.
DeleteKept ==
  op.kind = "delete" =>
    /\ Docked(groups) \cap Convs \subseteq DOMAIN list \cup reopened
    /\ Docked(groups) \cap Family(op.id, list) \subseteq reopened

DeskRest ==
  /\ ServerOK /\ ListsOK /\ DockOK /\ PostsOK /\ RestoringOK /\ TabsHeld
  /\ PanelsHaveSessions /\ SplitKept
DeskIInv == left \in DeskBudgetType /\ DeskRest /\ OpOK /\ DeleteKept

\* What an event of the page leaves: g was to be docked, ids are listed, next is
\* the phase.
Redocked(g, ids, once, up, next) ==
  /\ list' = ids /\ loadedOnce' = once /\ connected' = up /\ phase' = next
  /\ IsGroups(groups') /\ OwnersFit(groups', owner')
  /\ override' \in [DOMAIN override' -> BOOLEAN] /\ saving' \in BOOLEAN
  /\ Docked(groups') \cap Convs \subseteq Docked(g)
  /\ next = "ready" =>
       /\ HasSides(groups')
       /\ \A c \in Convs \cap Docked(g) : (once /\ up => c \in DOMAIN ids) => c \in Docked(groups')
       /\ once /\ up => /\ Docked(groups') \cap Convs \subseteq DOMAIN ids
                        /\ Range(owner') \subseteq DOMAIN ids \cup {NoConv}
  /\ next = "restoring" => saving' = saving
  /\ ~ saving' => ~ saving /\ (phase = "ready" => groups' = groups)

TornRight(torn, g, o, S, once, up) ==
  /\ \A c \in Convs : c \in torn <=> once /\ up /\ c \in Docked(g) /\ c \notin S
  /\ once /\ up => \A f \in DOMAIN o \ torn : o[f] \in S \cup {NoConv}

LEMMA TornIs ==
  ASSUME NEW g, NEW o, DOMAIN o \subseteq Files, NEW S, NEW once, NEW up
  PROVE  TornRight(TornDown(g, o, S, once, up), g, o, S, once, up)
<1>1. \A c \in Convs : c \notin DOMAIN o
  BY DeskAssumption
<1> QED
  BY <1>1 DEF TornDown, TornRight

LEMMA RangeIn == ASSUME NEW f, NEW S, \A x \in DOMAIN f : f[x] \in S PROVE Range(f) \subseteq S
BY DEF Range

\* The agents of the files that are left.
LEMMA OwnersLeft ==
  ASSUME NEW g, NEW o, OwnersFit(g, o), NEW w,
         Docked(w) \cap Files \subseteq Docked(g),
         NEW S, S = Docked(w) \cap Files, NEW r, r = Restrict(o, S)
  PROVE  OwnersFit(w, r) /\ \A f \in S : f \in DOMAIN o /\ r[f] = o[f]
BY DEF OwnersFit, Restrict

LEMMA EmptyMap == DOMAIN <<>> = {} /\ <<>> \in ConvMaps /\ \A S : <<>> \in [{} -> S]
<1>1. DOMAIN <<>> = {}
  OBVIOUS
<1>2. \A S : <<>> \in [{} -> S]
  BY <1>1
<1>3. <<>> \in ConvMaps
  BY <1>2 DEF ConvMaps
<1> QED
  BY <1>1, <1>2, <1>3

LEMMA Commits ==
  ASSUME DockOK, NEW g, IsGroups(g), NEW o, OwnersFit(g, o), NEW ids, NEW once, NEW up,
         NEW next \in {"restoring", "ready"}, phase = "ready" => next = "ready",
         Commit(g, o, ids, once, up, next)
  PROVE  /\ Redocked(g, ids, once, up, next)
         /\ once /\ up => Docked(groups') \cap Convs \subseteq DOMAIN ids
<1> PICK seen0 : seen0 = IF next = "ready" THEN o ELSE <<>>
  OBVIOUS
<1> PICK torn : torn = TornDown(g, seen0, DOMAIN ids, once, up)
  OBVIOUS
<1> PICK g1 : g1 = Without(g, torn)
  OBVIOUS
<1> PICK o1 : o1 = Restrict(o, DOMAIN o \cap Docked(g1))
  OBVIOUS
<1>1. PICK g2 \in IF next = "ready" THEN Split(g1) ELSE {g1} :
        /\ list' = ids /\ loadedOnce' = once /\ connected' = up
        /\ phase' = next /\ groups' = g2 /\ owner' = o1
        /\ saving' = (saving \/ (phase = "ready" /\ [groups |-> g2, owner |-> o1]
                                                      # [groups |-> groups, owner |-> owner])
                             \/ (next = "ready" /\ phase # "ready" /\ g2 # g))
        /\ Discard(AutoExpand(ids, IF next = "ready" THEN g2 ELSE <<>>, IF next = "ready" THEN o1 ELSE <<>>))
  BY DEF Commit
<1>2. DOMAIN o = Docked(g) \cap Files
  BY DEF OwnersFit
<1>3. DOMAIN seen0 \subseteq Files
  BY <1>2, EmptyMap
<1>4. /\ \A c \in Convs : c \in torn <=> once /\ up /\ c \in Docked(g) /\ c \notin DOMAIN ids
      /\ once /\ up => \A f \in DOMAIN seen0 \ torn : seen0[f] \in DOMAIN ids \cup {NoConv}
  <2>1. TornRight(torn, g, seen0, DOMAIN ids, once, up)
    BY <1>3, TornIs
  <2> QED
    BY <2>1 DEF TornRight
<1>5. IsGroups(g1) /\ Docked(g1) = Docked(g) \ torn
  BY WithoutDocks
<1>6. DOMAIN o \cap Docked(g1) = Docked(g1) \cap Files
  BY <1>2, <1>5
<1>7. OwnersFit(g1, o1) /\ \A f \in Docked(g1) \cap Files : f \in DOMAIN o /\ o1[f] = o[f]
  BY <1>5, <1>6, OwnersLeft
<1>8. Placeholder \notin Convs /\ Placeholder \notin Files /\ Convs \subseteq Panels /\ Files \subseteq Panels
  BY DeskAssumption DEF Panels
<1>9. /\ IsGroups(g2) /\ (next = "ready" => HasSides(g2))
      /\ \A p \in Convs \cup Files : p \in Docked(g2) <=> p \in Docked(g1)
  <2>1. CASE next = "ready"
    <3>1. /\ IsGroups(g2) /\ HasSides(g2)
          /\ \A p \in Panels \ {Placeholder} : p \in Docked(g2) <=> p \in Docked(g1)
      BY <1>1, <1>5, <2>1, SplitDocks
    <3> QED
      BY <1>8, <3>1
  <2>2. CASE next # "ready"
    BY <1>1, <1>5, <2>2
  <2> QED
    BY <2>1, <2>2
<1>10. OwnersFit(g2, o1)
  <2>1. Docked(g2) \cap Files = Docked(g1) \cap Files
    BY <1>9
  <2> QED
    BY <1>7, <2>1 DEF OwnersFit
<1>11. \A c \in Convs : c \in Docked(g2) <=> c \in Docked(g) /\ (once /\ up => c \in DOMAIN ids)
  BY <1>4, <1>5, <1>9
<1>12. next = "ready" /\ once /\ up => Range(o1) \subseteq DOMAIN ids \cup {NoConv}
  <2> HAVE next = "ready" /\ once /\ up
  <2>1. ASSUME NEW f \in DOMAIN o1 PROVE o1[f] \in DOMAIN ids \cup {NoConv}
    <3>1. f \in Docked(g1) \cap Files
      BY <1>7 DEF OwnersFit
    <3>2. f \in DOMAIN o /\ f \notin torn /\ o1[f] = o[f]
      BY <1>5, <1>7, <3>1
    <3> QED
      BY <1>4, <3>2
  <2> QED
    BY ZenonT(40), <2>1, RangeIn
<1>13. override' \in [DOMAIN override' -> BOOLEAN]
  <2>1. PICK S : S \subseteq DOMAIN override /\ override' = Restrict(override, S)
    BY <1>1 DEF Discard
  <2>2. override \in [DOMAIN override -> BOOLEAN]
    BY DEF DockOK
  <2> QED
    BY <2>1, <2>2 DEF Restrict
<1>14. saving' \in BOOLEAN /\ (~ saving' => ~ saving /\ (phase = "ready" => g2 = groups))
  BY <1>1
<1>15. next = "restoring" => saving' = saving
  <2>1. saving \in BOOLEAN
    BY DEF DockOK
  <2> QED
    BY <1>1, <2>1
<1> QED
  BY <1>1, <1>9, <1>10, <1>11, <1>12, <1>13, <1>14, <1>15 DEF Redocked

LEMMA Docks ==
  ASSUME DockOK, SplitKept, NEW g, IsGroups(g), NEW o, OwnersFit(g, o), Dock(g, o)
  PROVE  Redocked(g, list, loadedOnce, connected, phase)
<1>1. phase \in {"restoring", "ready"}
  BY DEF DockOK
<1>2. CASE phase = "ready"
  <2>1. Commit(g, o, list, loadedOnce, connected, phase)
    BY <1>2 DEF Dock
  <2> QED
    BY <1>1, <2>1, Commits
<1>3. CASE phase # "ready"
  <2>1. groups' = g /\ owner' = o /\ UNCHANGED <<list, loadedOnce, connected, phase, saving, override>>
    BY <1>3 DEF Dock, listVars
  <2> QED
    BY <1>1, <1>3, <2>1 DEF Redocked, DockOK
<1> QED
  BY <1>2, <1>3

\* What the events of the page do to the user's tabs.
TabsFollow(g, ids, once, up, next) ==
  /\ wanted' \subseteq DOMAIN born
  /\ next = "restoring" => wanted' = {}
  /\ next = "ready" =>
       /\ wanted' \cap DOMAIN sessions \subseteq Docked(g)
       /\ once /\ up => wanted' \cap DOMAIN sessions \subseteq DOMAIN ids
  /\ phase = "ready" /\ groups' = groups => wanted' \subseteq wanted
  /\ phase = "restoring" /\ next = "ready" /\ newestLayout = "stored" =>
       wanted' \cap DOMAIN sessions \subseteq Docked(saved.groups)

\* The answers on their way are as they were, or given up.
AnswersStay ==
  /\ UNCHANGED <<sessions, born, saved, fetched, posts, newestLayout>>
  /\ poll' = poll \/ poll' = Unserved
  /\ op' = op \/ op'.stage # "refreshed"

LEMMA FromServerStays == ASSUME NEW ids, FromServer(ids), UNCHANGED born PROVE FromServer(ids)'
BY DEF FromServer

LEMMA LayoutStays == ASSUME NEW l, IsLayout(l), UNCHANGED born PROVE IsLayout(l)'
BY DEF IsLayout

LEMMA NoneIsFromServer == FromServer(<<>>)
BY EmptyMap DEF FromServer

LEMMA DockedConvs == ASSUME NEW g, IsGroups(g) PROVE Docked(g) \subseteq Panels
<1>1. g \in Seq((SUBSET Panels) \ {{}})
  BY DEF IsGroups
<1>2. \A p : p \in Docked(g) <=> \E i \in 1 .. Len(g) : p \in g[i]
  BY <1>1, InDocked
<1>3. \A i \in 1 .. Len(g) : g[i] \in SUBSET Panels
  BY <1>1, ElementOfSeq
<1> QED
  BY <1>2, <1>3

LEMMA RedockKeeps ==
  ASSUME DeskRest, AnswersStay,
         NEW g, NEW ids, FromServer(ids), NEW once \in BOOLEAN, NEW up \in BOOLEAN,
         NEW next \in {"restoring", "ready"}, phase = "ready" => next = "ready",
         Docked(g) \cap Convs \subseteq DOMAIN born,
         next = "restoring" /\ once => Covers(ids),
         Redocked(g, ids, once, up, next), TabsFollow(g, ids, once, up, next)
  PROVE  DeskRest'
<1> USE DEF DeskRest
<1>1. UNCHANGED <<sessions, born, saved, fetched, posts, newestLayout>>
  BY DEF AnswersStay
<1>2. /\ list' = ids /\ loadedOnce' = once /\ connected' = up /\ phase' = next
      /\ IsGroups(groups') /\ OwnersFit(groups', owner')
      /\ override' \in [DOMAIN override' -> BOOLEAN] /\ saving' \in BOOLEAN
      /\ Docked(groups') \cap Convs \subseteq Docked(g)
  BY DEF Redocked
<1>3. next = "ready" =>
        /\ HasSides(groups')
        /\ \A c \in Convs \cap Docked(g) : (once /\ up => c \in DOMAIN ids) => c \in Docked(groups')
        /\ once /\ up => /\ Docked(groups') \cap Convs \subseteq DOMAIN ids
                         /\ Range(owner') \subseteq DOMAIN ids \cup {NoConv}
  BY DEF Redocked
<1>4. /\ next = "restoring" => saving' = saving
      /\ ~ saving' => ~ saving /\ (phase = "ready" => groups' = groups)
  BY DEF Redocked
<1>5. wanted' \subseteq DOMAIN born /\ wanted' \subseteq Convs
  BY DEF TabsFollow, ServerOK, ConvMaps
<1>6. ServerOK'
  <2>1. born \in ConvMaps /\ FromServer(sessions) /\ IsLayout(saved)
    BY DEF ServerOK
  <2>2. FromServer(sessions)' /\ IsLayout(saved)'
    BY <1>1, <2>1 DEF FromServer, IsLayout
  <2> QED
    BY <1>1, <2>1, <2>2 DEF ServerOK
<1>7. ListsOK'
  <2>1. FromServer(ids)'
    BY <1>1, FromServerStays
  <2>2. FromServer(poll.ids)' /\ poll'.served \in BOOLEAN
    <3>1. CASE poll' = poll
      BY <1>1, <3>1 DEF ListsOK, FromServer
    <3>2. CASE poll' = Unserved
      <4>1. poll'.ids = <<>> /\ poll'.served = FALSE
        BY <3>2 DEF Unserved
      <4>2. FromServer(<<>>)'
        BY <1>1, NoneIsFromServer, FromServerStays
      <4> QED
        BY <4>1, <4>2 DEF FromServer
    <3> QED
      BY <3>1, <3>2 DEF AnswersStay
  <2>3. FromServer(list)'
    BY <1>2, <2>1 DEF FromServer
  <2> QED
    BY <1>2, <2>2, <2>3 DEF ListsOK
<1>8. DockOK'
  <2>1. OwnersFit(groups, owner)' /\ IsGroups(groups)'
    BY <1>2 DEF OwnersFit
  <2>2. Docked(groups') \cap Convs \subseteq DOMAIN born'
    BY <1>1, <1>2
  <2> QED
    BY <1>1, <1>2, <1>5, <2>1, <2>2 DEF DockOK
<1>9. PostsOK'
  BY <1>1, LayoutStays DEF PostsOK
<1>10. RestoringOK'
  <2>1. fetched'.ids \subseteq DOMAIN born' /\ IsLayout(fetched.layout)'
    BY <1>1, LayoutStays DEF RestoringOK, IsLayout
  <2>2. ASSUME phase' = "restoring"
        PROVE  /\ ~ saving' /\ newestLayout' # "sent" /\ wanted' = {}
               /\ newestLayout' = "stored" => fetched'.layout = saved'
               /\ loadedOnce' => Covers(list)'
               /\ poll'.served => Covers(poll.ids)'
               /\ op'.stage = "refreshed" => Covers(op.ids)'
    <3>1. phase = "restoring" /\ next = "restoring"
      BY <1>2, <2>2 DEF DockOK
    <3>2. /\ ~ saving /\ newestLayout # "sent"
          /\ newestLayout = "stored" => fetched.layout = saved
          /\ poll.served => Covers(poll.ids)
          /\ op.stage = "refreshed" => Covers(op.ids)
      BY <3>1 DEF RestoringOK
    <3>3. ~ saving' /\ wanted' = {} /\ newestLayout' # "sent"
      BY <1>1, <1>4, <3>1, <3>2 DEF TabsFollow
    <3>4. loadedOnce' => Covers(list)'
      BY <1>1, <1>2, <3>1 DEF Covers, Laid
    <3>5. poll'.served => Covers(poll.ids)'
      <4>1. ~ Unserved.served
        BY DEF Unserved
      <4> QED
        BY <1>1, <3>2, <4>1 DEF AnswersStay, Covers, Laid
    <3>6. op'.stage = "refreshed" => Covers(op.ids)'
      BY <1>1, <3>2 DEF AnswersStay, Covers, Laid
    <3> QED
      BY <1>1, <3>2, <3>3, <3>4, <3>5, <3>6
  <2> QED
    BY <2>1, <2>2 DEF RestoringOK
<1>11. TabsHeld'
  <2> SUFFICES ASSUME next = "ready"
               PROVE  /\ wanted' \cap DOMAIN sessions' \subseteq Docked(groups')
                      /\ ~ saving' /\ newestLayout' \in {"sent", "stored"} =>
                           wanted' \cap DOMAIN sessions' \subseteq Docked(Newest'.groups)
    BY <1>2 DEF TabsHeld
  <2>1. wanted' \cap DOMAIN sessions \subseteq Docked(g)
        /\ (once /\ up => wanted' \cap DOMAIN sessions \subseteq DOMAIN ids)
    BY DEF TabsFollow
  <2>2. \A c \in Convs \cap Docked(g) : (once /\ up => c \in DOMAIN ids) => c \in Docked(groups')
    BY <1>3
  <2>3. \A c \in wanted' \cap DOMAIN sessions : c \in Docked(groups')
    BY <1>5, <2>1, <2>2
  <2>4. Newest' = Newest
    BY <1>1 DEF Newest
  <2>5. ASSUME ~ saving', newestLayout \in {"sent", "stored"}
        PROVE  wanted' \cap DOMAIN sessions \subseteq Docked(Newest.groups)
    <3>1. ~ saving /\ (phase = "ready" => groups' = groups)
      BY <1>4, <2>5
    <3>2. CASE phase = "ready"
      <4>1. wanted' \subseteq wanted
        BY <3>1, <3>2 DEF TabsFollow
      <4>2. wanted \cap DOMAIN sessions \subseteq Docked(Newest.groups)
        BY <2>5, <3>1, <3>2 DEF TabsHeld
      <4> QED
        BY <4>1, <4>2
    <3>3. CASE phase = "restoring"
      <4>1. newestLayout = "stored" /\ Newest = saved
        BY <2>5, <3>3 DEF RestoringOK, Newest
      <4>2. wanted' \cap DOMAIN sessions \subseteq Docked(saved.groups)
        BY <1>2, <3>3, <4>1 DEF TabsFollow
      <4> QED
        BY <4>1, <4>2
    <3> QED
      BY <3>2, <3>3 DEF DockOK
  <2> QED
    BY <1>1, <2>3, <2>4, <2>5
<1>12. PanelsHaveSessions'
  BY <1>2, <1>3 DEF PanelsHaveSessions
<1>13. SplitKept'
  BY <1>2, <1>3 DEF SplitKept, HasSides
<1> QED
  BY <1>6, <1>7, <1>8, <1>9, <1>10, <1>11, <1>12, <1>13

LEMMA AffordKeeps ==
  ASSUME left \in DeskBudgetType, NEW what,
         what \in {"create", "delete", "others", "open", "files", "close", "drag", "toggle", "fail", "reload"},
         Afford(what)
  PROVE  left' \in DeskBudgetType
BY DEF Afford, DeskBudgetType

\* What the server has, and what it made since.
Grows ==
  /\ born' \in ConvMaps /\ DOMAIN born \subseteq DOMAIN born'
  /\ \A c \in DOMAIN born : born'[c] = born[c]
  /\ DOMAIN sessions' \cap DOMAIN born \subseteq DOMAIN sessions
  /\ FromServer(sessions)'

\* The page stays as it is, but for rows the user toggles; what the server answers
\* it has.
PageWaits ==
  /\ UNCHANGED <<saved, list, loadedOnce, connected, phase, groups, owner, saving, fetched, posts, newestLayout, wanted>>
  /\ override' \in [DOMAIN override' -> BOOLEAN]
  /\ poll' = poll \/ (poll'.served \in BOOLEAN /\ poll'.ids = sessions')
  /\ op' = op \/ op'.stage # "refreshed" \/ op'.ids = sessions'

LEMMA GrownFrom == ASSUME NEW ids, FromServer(ids), Grows PROVE FromServer(ids)'
BY DEF FromServer, Grows

LEMMA GrownLayout == ASSUME NEW l, IsLayout(l), Grows PROVE IsLayout(l)'
BY DEF IsLayout, Grows

\* The sessions of a layout were there.
LEMMA LaidWereBorn ==
  ASSUME IsLayout(saved), IsLayout(fetched.layout), \A i \in 1 .. Len(posts) : IsLayout(posts[i])
  PROVE  Laid \cap Convs \subseteq DOMAIN born
BY DEF Laid, IsLayout

LEMMA GrownCovers ==
  ASSUME NEW ids, Covers(ids), Laid \cap Convs \subseteq DOMAIN born, Laid' = Laid,
         FromServer(sessions), Grows
  PROVE  Covers(ids)'
<1>1. \A c \in DOMAIN sessions' : c \in Convs
  BY DEF Grows, FromServer, ConvMaps
<1>2. \A c \in Laid \cap DOMAIN sessions' : c \in DOMAIN sessions
  BY <1>1 DEF Grows
<1> QED
  BY <1>2 DEF Covers

LEMMA WaitKeeps == ASSUME DeskRest, Grows, PageWaits PROVE DeskRest'
<1> USE DEF DeskRest
<1>1. /\ UNCHANGED <<saved, list, loadedOnce, connected, phase, groups, owner, saving, fetched, posts, newestLayout, wanted>>
      /\ override' \in [DOMAIN override' -> BOOLEAN]
      /\ poll' = poll \/ (poll'.served \in BOOLEAN /\ poll'.ids = sessions')
      /\ op' = op \/ op'.stage # "refreshed" \/ op'.ids = sessions'
  BY DEF PageWaits
<1>2. DOMAIN born \subseteq DOMAIN born' /\ born' \in ConvMaps /\ FromServer(sessions)'
  BY DEF Grows
<1>3. ServerOK'
  <2>1. IsLayout(saved) /\ (IsLayout(saved))'
    BY <1>1, GrownLayout DEF ServerOK, IsLayout
  <2> QED
    BY <1>2, <2>1 DEF ServerOK
<1>4. ListsOK'
  <2>1. FromServer(list)'
    <3>1. FromServer(list)
      BY DEF ListsOK
    <3> QED
      BY <1>1, <3>1 DEF FromServer, Grows
  <2>2. FromServer(poll.ids)' /\ poll'.served \in BOOLEAN
    <3>1. CASE poll' = poll
      <4>1. FromServer(poll.ids) /\ poll.served \in BOOLEAN
        BY DEF ListsOK
      <4> QED
        BY <3>1, <4>1 DEF FromServer, Grows
    <3>2. CASE poll'.served \in BOOLEAN /\ poll'.ids = sessions'
      BY <1>2, <3>2 DEF FromServer
    <3> QED
      BY <1>1, <3>1, <3>2
  <2> QED
    BY <1>1, <2>1, <2>2 DEF ListsOK
<1>5. DockOK'
  <2>1. OwnersFit(groups, owner)' /\ IsGroups(groups)'
    BY <1>1 DEF DockOK, OwnersFit, IsGroups
  <2> QED
    BY <1>1, <1>2, <2>1 DEF DockOK
<1>6. PostsOK'
  <2>1. \A i \in 1 .. Len(posts) : IsLayout(posts[i]) /\ (IsLayout(posts[i]))'
    BY <1>1, GrownLayout DEF PostsOK, IsLayout, Grows
  <2> QED
    BY <1>1, <2>1 DEF PostsOK
<1>7. RestoringOK'
  <2>1. fetched'.ids \subseteq DOMAIN born' /\ IsLayout(fetched.layout)'
    <3>1. IsLayout(fetched.layout) /\ (IsLayout(fetched.layout))'
      BY <1>1, GrownLayout DEF RestoringOK, IsLayout
    <3> QED
      BY <1>1, <1>2, <3>1 DEF RestoringOK
  <2>2. ASSUME NEW ids, Covers(ids) PROVE Covers(ids)'
    <3>1. Laid \cap Convs \subseteq DOMAIN born
      BY LaidWereBorn DEF ServerOK, RestoringOK, PostsOK
    <3>2. Laid' = Laid
      BY <1>1 DEF Laid
    <3> QED
      BY <2>2, <3>1, <3>2, GrownCovers DEF ServerOK
  <2>3. Covers(sessions)'
    BY DEF Covers
  <2>4. ASSUME phase = "restoring"
        PROVE  /\ ~ saving' /\ newestLayout' # "sent" /\ wanted' = {}
               /\ newestLayout' = "stored" => fetched'.layout = saved'
               /\ loadedOnce' => Covers(list)'
               /\ poll'.served => Covers(poll.ids)'
               /\ op'.stage = "refreshed" => Covers(op.ids)'
    <3>1. /\ ~ saving /\ newestLayout # "sent" /\ wanted = {}
          /\ newestLayout = "stored" => fetched.layout = saved
          /\ loadedOnce => Covers(list)
          /\ poll.served => Covers(poll.ids)
          /\ op.stage = "refreshed" => Covers(op.ids)
      BY <2>4 DEF RestoringOK
    <3>2. loadedOnce' => Covers(list)'
      BY <1>1, <2>2, <3>1 DEF Covers
    <3>3. poll'.served => Covers(poll.ids)'
      BY <1>1, <2>2, <2>3, <3>1 DEF Covers
    <3>4. op'.stage = "refreshed" => Covers(op.ids)'
      BY <1>1, <2>2, <2>3, <3>1 DEF Covers
    <3> QED
      BY <1>1, <3>1, <3>2, <3>3, <3>4
  <2> QED
    BY <1>1, <2>1, <2>4 DEF RestoringOK
<1>8. TabsHeld'
  <2>1. Newest' = Newest
    BY <1>1 DEF Newest
  <2>2. wanted \subseteq DOMAIN born
    BY DEF DockOK
  <2>3. wanted' \cap DOMAIN sessions' \subseteq wanted \cap DOMAIN sessions
    BY <1>1, <2>2 DEF Grows
  <2> QED
    BY <1>1, <2>1, <2>3 DEF TabsHeld
<1>9. PanelsHaveSessions' /\ SplitKept'
  BY <1>1 DEF PanelsHaveSessions, SplitKept
<1> QED
  BY <1>3, <1>4, <1>5, <1>6, <1>7, <1>8, <1>9

\* The server makes a session there never was.
LEMMA Making ==
  ASSUME ServerOK, NEW id \in Convs, id \notin DOMAIN born, NEW task \in Convs \cup {NoConv},
         sessions' = Put(sessions, id, task), born' = Put(born, id, task)
  PROVE  Grows /\ id \in DOMAIN born'
<1>1. born \in ConvMaps /\ sessions \in ConvMaps /\ DOMAIN sessions \subseteq DOMAIN born
      /\ \A c \in DOMAIN sessions : sessions[c] = born[c]
  BY DEF ServerOK, FromServer
<1>2. ASSUME NEW ids \in ConvMaps
      PROVE  /\ Put(ids, id, task) \in ConvMaps /\ DOMAIN Put(ids, id, task) = {id} \cup DOMAIN ids
             /\ Put(ids, id, task)[id] = task
             /\ \A c \in DOMAIN ids \ {id} : Put(ids, id, task)[c] = ids[c]
  <2> PICK m : m = Put(ids, id, task)
    OBVIOUS
  <2>1. m = [c \in DOMAIN ids \cup {id} |-> IF c = id THEN task ELSE ids[c]]
    BY DEF Put
  <2>2. PICK S \in SUBSET Convs : ids \in [S -> Convs \cup {NoConv}]
    BY DEF ConvMaps
  <2>3. m \in [S \cup {id} -> Convs \cup {NoConv}]
    BY <2>1, <2>2
  <2>4. m \in ConvMaps
    BY <2>3 DEF ConvMaps
  <2> QED
    BY <2>1, <2>4
<1>3. /\ born' \in ConvMaps /\ DOMAIN born' = {id} \cup DOMAIN born
      /\ born'[id] = task /\ \A c \in DOMAIN born : born'[c] = born[c]
  BY <1>1, <1>2
<1>4. /\ sessions' \in ConvMaps /\ DOMAIN sessions' = {id} \cup DOMAIN sessions
      /\ sessions'[id] = task /\ \A c \in DOMAIN sessions : sessions'[c] = sessions[c]
  BY <1>1, <1>2
<1>5. FromServer(sessions)'
  BY <1>1, <1>3, <1>4 DEF FromServer
<1> QED
  BY <1>3, <1>4, <1>5 DEF Grows

LEMMA Removing ==
  ASSUME ServerOK, UNCHANGED born, NEW S, sessions' = Restrict(sessions, DOMAIN sessions \ S)
  PROVE  Grows
<1>1. born \in ConvMaps /\ sessions \in ConvMaps /\ DOMAIN sessions \subseteq DOMAIN born
      /\ \A c \in DOMAIN sessions : sessions[c] = born[c]
  BY DEF ServerOK, FromServer
<1>2. /\ DOMAIN sessions' = DOMAIN sessions \ S
      /\ \A c \in DOMAIN sessions' : sessions'[c] = sessions[c]
      /\ sessions' \in ConvMaps
  BY <1>1 DEF Restrict, ConvMaps
<1> QED
  BY <1>1, <1>2 DEF Grows, FromServer

LEMMA Staying == ASSUME ServerOK, UNCHANGED <<sessions, born>> PROVE Grows
BY DEF ServerOK, Grows, FromServer

LEMMA OpEnds == op' = NoOp => OpOK' /\ DeleteKept' /\ op'.stage # "refreshed"
<1>1. /\ NoOp \in [kind : {"none", "create", "delete"}, id : Convs \cup {NoConv},
                    stage : {"none", "posted", "refresh", "refreshed"}, ids : ConvMaps]
      /\ NoOp.kind = "none" /\ NoOp.stage = "none"
  BY EmptyMap DEF NoOp
<1> QED
  BY <1>1 DEF OpOK, DeleteKept

LEMMA OpWaits ==
  ASSUME OpOK, UNCHANGED op, Grows,
         op.kind = "create" /\ op.stage = "posted" => op.id \notin DOMAIN born'
  PROVE  OpOK'
<1>1. op.stage = "refreshed" => FromServer(op.ids) /\ FromServer(op.ids)'
  BY GrownFrom DEF OpOK, FromServer, Grows
<1>2. DOMAIN born \subseteq DOMAIN born'
  BY DEF Grows
<1> QED
  BY <1>1, <1>2 DEF OpOK

LEMMA DeleteWaits ==
  ASSUME DeleteKept, UNCHANGED <<groups, list, reopened>>, op'.kind = "delete" => op.kind = "delete" /\ op'.id = op.id
  PROVE  DeleteKept'
BY DEF DeleteKept, Family

LEMMA ServePollKeeps == ASSUME DeskIInv, ServePoll PROVE DeskIInv'
<1>1. /\ poll' = Answer(sessions)
      /\ UNCHANGED <<left, sessions, born, saved, list, loadedOnce, connected, phase, groups, owner, saving, override,
                     op, fetched, posts, newestLayout, wanted, reopened>>
  BY DEF ServePoll, serverVars, listVars, dockVars, asked, postVars
<1>2. Grows
  BY <1>1, Staying DEF DeskIInv, DeskRest
<1>3. PageWaits
  BY <1>1 DEF PageWaits, Answer, DeskIInv, DeskRest, DockOK
<1>4. OpOK'
  BY <1>1, <1>2, OpWaits DEF DeskIInv, OpOK
<1>5. DeleteKept'
  BY <1>1, DeleteWaits DEF DeskIInv
<1>6. DeskRest'
  BY <1>2, <1>3, WaitKeeps DEF DeskIInv
<1> QED
  BY <1>1, <1>4, <1>5, <1>6 DEF DeskIInv

LEMMA FoldKeeps == ASSUME DeskIInv, NEW row \in Convs, Fold(row) PROVE DeskIInv'
<1>1. /\ Afford("toggle") /\ override' = Put(override, row, ~ Expanded(row))
      /\ UNCHANGED <<sessions, born, saved, list, loadedOnce, connected, phase, groups, owner, saving,
                     poll, op, fetched, posts, newestLayout, wanted, reopened>>
  BY DEF Fold, serverVars, listVars, asked, postVars
<1>2. Grows
  BY <1>1, Staying DEF DeskIInv, DeskRest
<1>3. override' \in [DOMAIN override' -> BOOLEAN]
  <2>1. override \in [DOMAIN override -> BOOLEAN]
    BY DEF DeskIInv, DeskRest, DockOK
  <2> PICK b \in BOOLEAN : b = ~ Expanded(row)
    OBVIOUS
  <2>2. override' = Put(override, row, b)
    BY <1>1
  <2> QED
    BY <2>1, <2>2 DEF Put
<1>4. PageWaits
  BY <1>1, <1>3 DEF PageWaits
<1>5. OpOK'
  BY <1>1, <1>2, OpWaits DEF DeskIInv, OpOK
<1>6. DeleteKept'
  BY <1>1, DeleteWaits DEF DeskIInv
<1>7. DeskRest'
  BY <1>2, <1>4, WaitKeeps DEF DeskIInv
<1>8. left' \in DeskBudgetType
  BY <1>1, AffordKeeps DEF DeskIInv
<1> QED
  BY <1>5, <1>6, <1>7, <1>8 DEF DeskIInv

LEMMA CreateKeeps ==
  ASSUME DeskIInv, NEW id \in Convs, NEW task \in Convs \cup {NoConv}, Create(id, task)
  PROVE  DeskIInv'
<1>1. /\ Afford("create") /\ id \notin DOMAIN born
      /\ op' = [kind |-> "create", id |-> id, stage |-> "posted", ids |-> [c \in {id} |-> task]]
      /\ UNCHANGED <<sessions, born, saved, list, loadedOnce, connected, phase, groups, owner, saving, override,
                     poll, fetched, posts, newestLayout, wanted, reopened>>
  BY DEF Create, serverVars, listVars, dockVars, asked, postVars
<1>2. Grows
  BY <1>1, Staying DEF DeskIInv, DeskRest
<1>3. PageWaits
  BY <1>1 DEF PageWaits, DeskIInv, DeskRest, DockOK
<1>4. OpOK'
  <2> PICK ids : ids = [c \in {id} |-> task]
    OBVIOUS
  <2>1. ids \in ConvMaps /\ ids \in [{id} -> Convs \cup {NoConv}]
    BY DEF ConvMaps
  <2>2. op' = [kind |-> "create", id |-> id, stage |-> "posted", ids |-> ids]
    BY <1>1
  <2> QED
    BY <1>1, <2>1, <2>2 DEF OpOK
<1>5. DeleteKept'
  BY <1>1 DEF DeleteKept
<1>6. DeskRest'
  BY <1>2, <1>3, WaitKeeps DEF DeskIInv
<1>7. left' \in DeskBudgetType
  BY <1>1, AffordKeeps DEF DeskIInv
<1> QED
  BY <1>4, <1>5, <1>6, <1>7 DEF DeskIInv

LEMMA OpFailsKeeps == ASSUME DeskIInv, OpFails PROVE DeskIInv'
<1>1. /\ Afford("fail") /\ op' = NoOp
      /\ UNCHANGED <<sessions, born, saved, list, loadedOnce, connected, phase, groups, owner, saving, override,
                     poll, fetched, posts, newestLayout, wanted, reopened>>
  BY DEF OpFails, serverVars, listVars, dockVars, asked, postVars
<1>2. Grows
  BY <1>1, Staying DEF DeskIInv, DeskRest
<1>3. OpOK' /\ DeleteKept' /\ op'.stage # "refreshed"
  BY <1>1, OpEnds
<1>4. PageWaits
  BY <1>1, <1>3 DEF PageWaits, DeskIInv, DeskRest, DockOK
<1>5. DeskRest'
  BY <1>2, <1>4, WaitKeeps DEF DeskIInv
<1>6. left' \in DeskBudgetType
  BY <1>1, AffordKeeps DEF DeskIInv
<1> QED
  BY <1>3, <1>5, <1>6 DEF DeskIInv

LEMMA ServeRefreshKeeps == ASSUME DeskIInv, ServeRefresh PROVE DeskIInv'
<1>1. /\ op.stage = "refresh" /\ op' = [op EXCEPT !.stage = "refreshed", !.ids = sessions]
      /\ UNCHANGED <<left, sessions, born, saved, list, loadedOnce, connected, phase, groups, owner, saving, override,
                     poll, fetched, posts, newestLayout, wanted, reopened>>
  BY DEF ServeRefresh, serverVars, listVars, dockVars, asked, postVars
<1>2. OpOK
  BY DEF DeskIInv
<1>3. /\ op \in [kind : {"none", "create", "delete"}, id : Convs \cup {NoConv},
                  stage : {"none", "posted", "refresh", "refreshed"}, ids : ConvMaps]
      /\ op.kind \in {"create", "delete"} /\ op.id \in Convs
  BY <1>1, <1>2 DEF OpOK
<1>4. /\ op'.kind = op.kind /\ op'.id = op.id /\ op'.stage = "refreshed" /\ op'.ids = sessions'
      /\ op' \in [kind : {"none", "create", "delete"}, id : Convs \cup {NoConv},
                  stage : {"none", "posted", "refresh", "refreshed"}, ids : ConvMaps]
  <2>1. sessions \in ConvMaps
    BY DEF DeskIInv, DeskRest, ServerOK, FromServer
  <2> QED
    BY <1>1, <1>3, <2>1
<1>5. Grows
  BY <1>1, Staying DEF DeskIInv, DeskRest
<1>6. PageWaits
  BY <1>1, <1>4 DEF PageWaits, DeskIInv, DeskRest, DockOK
<1>7. OpOK'
  <2>1. FromServer(sessions)'
    BY <1>5 DEF Grows
  <2>2. FromServer(op.ids)'
    BY <1>4, <2>1 DEF FromServer
  <2>3. op.kind = "create" => op.id \in DOMAIN born
    BY <1>1, <1>2 DEF OpOK
  <2> QED
    BY <1>1, <1>3, <1>4, <2>2, <2>3 DEF OpOK
<1>8. DeleteKept'
  BY <1>1, <1>4, DeleteWaits DEF DeskIInv
<1>9. DeskRest'
  BY <1>5, <1>6, WaitKeeps DEF DeskIInv
<1> QED
  BY <1>1, <1>7, <1>8, <1>9 DEF DeskIInv

LEMMA ServeOpKeeps == ASSUME DeskIInv, ServeOp PROVE DeskIInv'
<1> DEFINE refused == \/ op.kind = "create" /\ op.ids[op.id] # NoConv
                            /\ op.ids[op.id] \notin DOMAIN sessions
                      \/ op.kind = "delete" /\ op.id \notin DOMAIN sessions
<1>1. /\ op.stage = "posted"
      /\ op' = IF refused THEN NoOp ELSE [op EXCEPT !.stage = "refresh"]
      /\ UNCHANGED <<left, saved, list, loadedOnce, connected, phase, groups, owner, saving, override,
                     poll, fetched, posts, newestLayout, wanted, reopened>>
  BY DEF ServeOp, listVars, dockVars, asked, postVars
<1>2. \/ refused /\ UNCHANGED <<sessions, born>>
      \/ /\ ~ refused /\ op.kind = "create"
         /\ sessions' = Put(sessions, op.id, op.ids[op.id]) /\ born' = Put(born, op.id, op.ids[op.id])
      \/ /\ ~ refused /\ op.kind = "delete"
         /\ sessions' = Restrict(sessions, DOMAIN sessions \ Family(op.id, sessions))
         /\ UNCHANGED born
  BY DEF ServeOp
<1>3. OpOK /\ ServerOK /\ DockOK
  BY DEF DeskIInv, DeskRest
<1>4. /\ op \in [kind : {"none", "create", "delete"}, id : Convs \cup {NoConv},
                  stage : {"none", "posted", "refresh", "refreshed"}, ids : ConvMaps]
      /\ op.id \in Convs
  BY <1>1, <1>3 DEF OpOK
<1>5. Grows /\ (~ refused /\ op.kind = "create" => op.id \in DOMAIN born')
  <2>1. CASE refused /\ UNCHANGED <<sessions, born>>
    BY <1>3, <2>1, Staying
  <2>2. CASE /\ ~ refused /\ op.kind = "create"
             /\ sessions' = Put(sessions, op.id, op.ids[op.id]) /\ born' = Put(born, op.id, op.ids[op.id])
    <3>1. op.id \notin DOMAIN born /\ op.ids[op.id] \in Convs \cup {NoConv}
      BY <1>1, <1>3, <2>2 DEF OpOK
    <3> QED
      BY <1>3, <1>4, <2>2, <3>1, Making
  <2>3. CASE /\ ~ refused /\ op.kind = "delete"
             /\ sessions' = Restrict(sessions, DOMAIN sessions \ Family(op.id, sessions))
             /\ UNCHANGED born
    BY <1>3, <2>3, Removing
  <2> QED
    BY <1>2, <2>1, <2>2, <2>3
<1>6. OpOK' /\ DeleteKept' /\ op'.stage # "refreshed"
  <2>1. CASE refused
    <3>1. op' = NoOp
      BY <1>1, <2>1
    <3> QED
      BY <3>1, OpEnds
  <2>2. CASE ~ refused
    <3>1. op' = [op EXCEPT !.stage = "refresh"]
      BY <1>1, <2>2
    <3>2. /\ op'.kind = op.kind /\ op'.id = op.id /\ op'.stage = "refresh"
          /\ op' \in [kind : {"none", "create", "delete"}, id : Convs \cup {NoConv},
                      stage : {"none", "posted", "refresh", "refreshed"}, ids : ConvMaps]
      BY <1>4, <3>1
    <3>3. OpOK'
      BY <1>1, <1>3, <1>4, <1>5, <2>2, <3>2 DEF OpOK
    <3>4. DeleteKept'
      BY <1>1, <3>2, DeleteWaits DEF DeskIInv
    <3> QED
      BY <3>2, <3>3, <3>4
  <2> QED
    BY <2>1, <2>2
<1>7. PageWaits
  BY <1>1, <1>3, <1>6 DEF PageWaits, DockOK
<1>8. DeskRest'
  BY <1>5, <1>7, WaitKeeps DEF DeskIInv
<1> QED
  BY <1>1, <1>6, <1>8 DEF DeskIInv

LEMMA OtherCreatesKeeps ==
  ASSUME DeskIInv, NEW id \in Convs, NEW task \in Convs \cup {NoConv}, OtherCreates(id, task)
  PROVE  DeskIInv'
<1>1. /\ Afford("others") /\ id \notin DOMAIN born /\ op.id # id
      /\ sessions' = Put(sessions, id, task) /\ born' = Put(born, id, task)
      /\ UNCHANGED <<saved, list, loadedOnce, connected, phase, groups, owner, saving, override,
                     poll, op, fetched, posts, newestLayout, wanted, reopened>>
  BY DEF OtherCreates, listVars, dockVars, asked, postVars
<1>2. OpOK /\ ServerOK /\ DockOK
  BY DEF DeskIInv, DeskRest
<1>3. Grows
  BY <1>1, <1>2, Making
<1>4. PageWaits
  BY <1>1, <1>2 DEF PageWaits, DockOK
<1>5. OpOK'
  <2>1. DOMAIN born' = DOMAIN born \cup {id}
    BY <1>1 DEF Put
  <2>2. op.kind = "create" /\ op.stage = "posted" => op.id \notin DOMAIN born'
    BY <1>1, <1>2, <2>1 DEF OpOK
  <2> QED
    BY <1>1, <1>2, <1>3, <2>2, OpWaits
<1>6. DeleteKept'
  BY <1>1, DeleteWaits DEF DeskIInv
<1>7. DeskRest'
  BY <1>3, <1>4, WaitKeeps DEF DeskIInv
<1>8. left' \in DeskBudgetType
  BY <1>1, AffordKeeps DEF DeskIInv
<1> QED
  BY <1>5, <1>6, <1>7, <1>8 DEF DeskIInv

LEMMA OtherDeletesKeeps == ASSUME DeskIInv, NEW id \in Convs, OtherDeletes(id) PROVE DeskIInv'
<1>1. /\ Afford("others")
      /\ sessions' = Restrict(sessions, DOMAIN sessions \ Family(id, sessions))
      /\ UNCHANGED <<born, saved, list, loadedOnce, connected, phase, groups, owner, saving, override,
                     poll, op, fetched, posts, newestLayout, wanted, reopened>>
  BY DEF OtherDeletes, listVars, dockVars, asked, postVars
<1>2. OpOK /\ ServerOK /\ DockOK
  BY DEF DeskIInv, DeskRest
<1>3. Grows
  BY <1>1, <1>2, Removing
<1>4. PageWaits
  BY <1>1, <1>2 DEF PageWaits, DockOK
<1>5. OpOK'
  BY <1>1, <1>2, <1>3, OpWaits DEF OpOK
<1>6. DeleteKept'
  BY <1>1, DeleteWaits DEF DeskIInv
<1>7. DeskRest'
  BY <1>3, <1>4, WaitKeeps DEF DeskIInv
<1>8. left' \in DeskBudgetType
  BY <1>1, AffordKeeps DEF DeskIInv
<1> QED
  BY <1>5, <1>6, <1>7, <1>8 DEF DeskIInv

LEMMA ServeRestoreKeeps == ASSUME DeskIInv, ServeRestore PROVE DeskIInv'
<1>1. /\ fetched' = [served |-> TRUE, layout |-> saved, ids |-> DOMAIN sessions]
      /\ UNCHANGED <<left, sessions, born, saved, list, loadedOnce, connected, phase, groups, owner, saving, override,
                     poll, op, posts, wanted, reopened>>
      /\ phase = "restoring" /\ newestLayout' = "stored"
  BY DEF ServeRestore, serverVars, listVars, dockVars, asked, postVars
<1> USE DEF DeskIInv, DeskRest
<1>2. ServerOK' /\ ListsOK' /\ DockOK' /\ OpOK'
  BY <1>1 DEF ServerOK, ListsOK, DockOK, OpOK, FromServer, IsLayout, IsGroups, OwnersFit
<1>3. PostsOK'
  BY <1>1 DEF PostsOK, IsLayout, Whereabouts
<1>4. RestoringOK'
  <2>1. fetched'.layout = saved' /\ fetched'.ids \subseteq DOMAIN born' /\ IsLayout(fetched.layout)'
    BY <1>1 DEF ServerOK, FromServer, IsLayout
  <2>2. Laid' \subseteq Laid
    BY <1>1, <2>1 DEF Laid
  <2>3. \A ids : Covers(ids) => Laid' \cap DOMAIN sessions \subseteq DOMAIN ids
    BY <2>2 DEF Covers
  <2> QED
    BY <1>1, <2>1, <2>3 DEF RestoringOK, Covers
<1>5. TabsHeld' /\ PanelsHaveSessions' /\ SplitKept' /\ DeleteKept'
  BY <1>1 DEF TabsHeld, PanelsHaveSessions, SplitKept, DeleteKept, Family
<1> QED
  BY <1>1, <1>2, <1>3, <1>4, <1>5

LEMMA LastPosted == ASSUME NEW E, NEW s \in Seq(E), NEW e \in E
                    PROVE /\ Append(s, e) \in Seq(E) /\ Len(Append(s, e)) = Len(s) + 1 /\ Append(s, e) # <<>>
                          /\ Append(s, e)[Len(s) + 1] = e /\ \A i \in 1 .. Len(s) : Append(s, e)[i] = s[i]
BY AppendProperties

LEMMA DockedIsLayout == ASSUME DockOK PROVE IsLayout([groups |-> groups, owner |-> owner])
<1>1. groups \in Seq((SUBSET Panels) \ {{}}) /\ owner \in [Docked(groups) \cap Files -> Convs \cup {NoConv}]
  BY DEF DockOK, IsGroups, OwnersFit
<1>2. owner \in UNION {[S -> Convs \cup {NoConv}] : S \in SUBSET Files}
  BY <1>1
<1> PICK l : l = [groups |-> groups, owner |-> owner]
  OBVIOUS
<1>3. l \in Layouts /\ l.groups = groups /\ l.owner = owner
  BY <1>1, <1>2 DEF Layouts
<1> QED
  BY <1>3 DEF IsLayout, DockOK

LEMMA SaveTimerKeeps == ASSUME DeskIInv, SaveTimer PROVE DeskIInv'
<1> PICK l : l = [groups |-> groups, owner |-> owner]
  OBVIOUS
<1>1. /\ saving /\ saving' = FALSE /\ posts' = Append(posts, l) /\ newestLayout' = "sent"
      /\ UNCHANGED <<left, sessions, born, saved, list, loadedOnce, connected, phase, groups, owner, override,
                     poll, op, fetched, wanted, reopened>>
  BY DEF SaveTimer, serverVars, listVars, asked, postVars
<1> USE DEF DeskIInv, DeskRest
<1>2. IsLayout(l) /\ l \in Layouts /\ l.groups = groups
  BY DockedIsLayout DEF IsLayout
<1>3. phase = "ready"
  BY <1>1 DEF RestoringOK, DockOK
<1>4. ServerOK' /\ ListsOK' /\ DockOK' /\ OpOK'
  BY <1>1 DEF ServerOK, ListsOK, DockOK, OpOK, FromServer, IsLayout, IsGroups, OwnersFit
<1>5. /\ posts \in Seq(Layouts) /\ posts' \in Seq(Layouts) /\ Len(posts') = Len(posts) + 1 /\ posts' # <<>>
      /\ posts'[Len(posts) + 1] = l /\ \A i \in 1 .. Len(posts) : posts'[i] = posts[i]
  BY <1>1, <1>2, LastPosted DEF PostsOK
<1>6. PostsOK'
  <2>1. \A i \in 1 .. Len(posts) : IsLayout(posts[i])
    BY DEF PostsOK
  <2>2. \A i \in 1 .. Len(posts') : IsLayout(posts'[i])
    <3> SUFFICES ASSUME NEW i \in 1 .. Len(posts') PROVE IsLayout(posts'[i])
      OBVIOUS
    <3>1. i \in 1 .. Len(posts) \/ i = Len(posts) + 1
      BY <1>5, LenProperties
    <3> QED
      BY <1>2, <1>5, <2>1, <3>1
  <2> QED
    BY <1>1, <1>5, <2>2 DEF PostsOK, IsLayout, Whereabouts
<1>7. RestoringOK'
  BY <1>1, <1>3 DEF RestoringOK, IsLayout
<1>8. TabsHeld'
  <2>1. Newest' = l
    BY <1>1, <1>5 DEF Newest
  <2> QED
    BY <1>1, <1>2, <2>1 DEF TabsHeld
<1>9. PanelsHaveSessions' /\ SplitKept' /\ DeleteKept'
  BY <1>1 DEF PanelsHaveSessions, SplitKept, DeleteKept, Family
<1> QED
  BY <1>1, <1>4, <1>6, <1>7, <1>8, <1>9

\* A list without its k-th entry.
ClosedUp(r, s, k, n) ==
  Len(r) = n - 1 /\ \A i \in 1 .. (n - 1) : r[i] = IF i < k THEN s[i] ELSE s[i + 1]

LEMMA RemovedAt ==
  ASSUME NEW E, NEW s \in Seq(E), NEW n \in Nat, n = Len(s), NEW k \in 1 .. n, NEW r, r = RemoveAt(s, k)
  PROVE  r \in Seq(E) /\ ClosedUp(r, s, k, n)
<1> PICK a : a = SubSeq(s, 1, k - 1)
  OBVIOUS
<1> PICK b : b = SubSeq(s, k + 1, n)
  OBVIOUS
<1>1. a \in Seq(E) /\ Len(a) = k - 1 /\ \A i \in 1 .. (k - 1) : a[i] = s[i]
  BY SubSeqProperties
<1>2. b \in Seq(E) /\ Len(b) = n - k /\ \A i \in 1 .. (n - k) : b[i] = s[k + i]
  BY SubSeqProperties
<1>3. r = a \o b
  BY DEF RemoveAt
<1>4. /\ r \in Seq(E) /\ Len(r) = n - 1
      /\ \A i \in 1 .. (n - 1) : r[i] = IF i <= k - 1 THEN a[i] ELSE b[i - (k - 1)]
  <2>0. a \in Seq(E) /\ b \in Seq(E)
    BY <1>1, <1>2
  <2>1. /\ a \o b \in Seq(E) /\ Len(a \o b) = Len(a) + Len(b)
        /\ \A i \in 1 .. Len(a) + Len(b) : (a \o b)[i] = IF i <= Len(a) THEN a[i] ELSE b[i - Len(a)]
    BY ONLY <2>0, ConcatProperties
  <2>2. (k - 1) + (n - k) = n - 1
    OBVIOUS
  <2> QED
    BY <1>1, <1>2, <1>3, <2>1, <2>2
<1>5. ASSUME NEW i \in 1 .. (n - 1) PROVE r[i] = IF i < k THEN s[i] ELSE s[i + 1]
  <2>1. CASE i < k
    <3>1. i \in 1 .. (k - 1) /\ i <= k - 1
      BY <2>1
    <3> QED
      BY <1>1, <1>4, <2>1, <3>1
  <2>2. CASE ~ (i < k)
    <3>1. i - (k - 1) \in 1 .. (n - k) /\ k + (i - (k - 1)) = i + 1 /\ ~ (i <= k - 1)
      BY <2>2
    <3> QED
      BY <1>2, <1>4, <2>2, <3>1
  <2> QED
    BY <2>1, <2>2
<1> QED
  BY <1>4, <1>5 DEF ClosedUp

\* The last of a list is the last of what is left of it.
LEMMA LastStays ==
  ASSUME NEW s, NEW n \in Nat, n = Len(s), NEW k \in 1 .. n, k # n, NEW r, ClosedUp(r, s, k, n)
  PROVE  r # <<>> /\ r[Len(r)] = s[n]
<1>1. Len(r) = n - 1 /\ n - 1 \in 1 .. (n - 1) /\ ~ (n - 1 < k) /\ (n - 1) + 1 = n
  BY DEF ClosedUp
<1> QED
  BY <1>1 DEF ClosedUp

\* What is left of the saves on their way, of the k-th arrived, or failed.
PostGone(k) ==
  /\ posts' = RemoveAt(posts, k) /\ k \in 1 .. Len(posts)
  /\ saved' \in {saved, posts[k]}
  /\ UNCHANGED <<sessions, born, list, loadedOnce, connected, phase, groups, owner, saving, override,
                 poll, op, fetched, wanted, reopened>>
  /\ newestLayout' \in Whereabouts
  /\ newestLayout' = "sent" => newestLayout = "sent" /\ k # Len(posts)
  /\ newestLayout' = "stored" =>
       \/ newestLayout = "stored" /\ saved' = saved
       \/ newestLayout = "sent" /\ k = Len(posts) /\ saved' = posts[k]

LEMMA PostGoneKeeps == ASSUME DeskIInv, NEW k, PostGone(k), left' \in DeskBudgetType PROVE DeskIInv'
<1>1. /\ posts' = RemoveAt(posts, k) /\ k \in 1 .. Len(posts) /\ saved' \in {saved, posts[k]}
      /\ UNCHANGED <<sessions, born, list, loadedOnce, connected, phase, groups, owner, saving, override,
                     poll, op, fetched, wanted, reopened>>
      /\ newestLayout' \in Whereabouts
      /\ newestLayout' = "sent" => newestLayout = "sent" /\ k # Len(posts)
      /\ newestLayout' = "stored" =>
           \/ newestLayout = "stored" /\ saved' = saved
           \/ newestLayout = "sent" /\ k = Len(posts) /\ saved' = posts[k]
  BY DEF PostGone
<1> USE DEF DeskIInv, DeskRest
<1>2. posts \in Seq(Layouts) /\ \A i \in 1 .. Len(posts) : IsLayout(posts[i])
  BY DEF PostsOK
<1> PICK n \in Nat : n = Len(posts)
  BY <1>2, LenProperties
<1>3. posts' \in Seq(Layouts) /\ ClosedUp(posts', posts, k, n)
  BY <1>1, <1>2, RemovedAt
<1>4. Len(posts') = n - 1 /\ n # 0
      /\ \A i \in 1 .. (n - 1) : \E j \in 1 .. n : posts'[i] = posts[j]
  <2> PICK new, old : new = posts' /\ old = posts
    OBVIOUS
  <2>0. Len(new) = n - 1 /\ \A i \in 1 .. (n - 1) : new[i] = IF i < k THEN old[i] ELSE old[i + 1]
    BY <1>3 DEF ClosedUp
  <2>1. ASSUME NEW i \in 1 .. (n - 1) PROVE \E j \in 1 .. n : new[i] = old[j]
    <3>1. i \in 1 .. n /\ i + 1 \in 1 .. n
      OBVIOUS
    <3> QED
      BY <2>0, <3>1
  <2>2. n # 0
    BY <1>1
  <2> QED
    BY <2>0, <2>1, <2>2
<1>5. IsLayout(saved')
  BY <1>1, <1>2 DEF ServerOK
<1>6. ServerOK' /\ ListsOK' /\ DockOK' /\ OpOK'
  <2>1. IsLayout(saved)'
    BY <1>1, <1>5 DEF IsLayout
  <2> QED
    BY <1>1, <2>1 DEF ServerOK, ListsOK, DockOK, OpOK, FromServer, IsGroups, OwnersFit
<1>7. newestLayout' = "sent" => newestLayout = "sent" /\ posts' # <<>> /\ posts'[Len(posts')] = posts[n]
  BY <1>1, <1>3, LastStays
<1>8. PostsOK'
  <2>1. \A i \in 1 .. Len(posts') : IsLayout(posts'[i])
    BY <1>2, <1>4
  <2> QED
    BY <1>1, <1>3, <1>7, <2>1 DEF PostsOK, IsLayout
<1>9. RestoringOK'
  <2>1. Laid' \subseteq Laid
    <3>1. Docked(saved'.groups) \subseteq Laid
      BY <1>1 DEF Laid
    <3>2. \A i \in 1 .. Len(posts') : Docked(posts'[i].groups) \subseteq Laid
      BY <1>4 DEF Laid
    <3> QED
      BY <1>1, <3>1, <3>2 DEF Laid
  <2>2. \A ids : Covers(ids) => Laid' \cap DOMAIN sessions \subseteq DOMAIN ids
    BY <2>1 DEF Covers
  <2>3. fetched.ids \subseteq DOMAIN born /\ IsLayout(fetched.layout)'
    BY <1>1 DEF RestoringOK, IsLayout
  <2>4. ASSUME phase = "restoring"
        PROVE  newestLayout' # "sent" /\ (newestLayout' = "stored" => fetched.layout = saved')
    BY <1>1, <2>4 DEF RestoringOK
  <2> QED
    BY <1>1, <2>2, <2>3, <2>4 DEF RestoringOK, Covers
<1>10. TabsHeld'
  <2>1. newestLayout' \in {"sent", "stored"} => newestLayout \in {"sent", "stored"} /\ Newest' = Newest
    BY <1>1, <1>7 DEF Newest
  <2> QED
    BY <1>1, <2>1 DEF TabsHeld
<1>11. PanelsHaveSessions' /\ SplitKept' /\ DeleteKept'
  BY <1>1 DEF PanelsHaveSessions, SplitKept, DeleteKept, Family
<1> QED
  BY <1>6, <1>8, <1>9, <1>10, <1>11

LEMMA PostDomain == ASSUME DeskIInv PROVE DOMAIN posts = 1 .. Len(posts) /\ newestLayout \in Whereabouts
BY LenProperties DEF DeskIInv, DeskRest, PostsOK

LEMMA PostArrivesKeeps == ASSUME DeskIInv, NEW k \in DOMAIN posts, PostArrives(k) PROVE DeskIInv'
<1>1. PostGone(k)
  <2>1. newestLayout' = AfterArrival(newestLayout, posts, k)
    BY DEF PostArrives
  <2>2. /\ newestLayout' = "sent" => newestLayout = "sent" /\ k # Len(posts)
        /\ newestLayout' = "stored" => newestLayout = "sent" /\ k = Len(posts)
        /\ newestLayout' \in Whereabouts
    BY <2>1, PostDomain DEF AfterArrival, Whereabouts
  <2> QED
    BY <2>2, PostDomain DEF PostArrives, PostGone, listVars, dockVars, asked
<1>2. left' \in DeskBudgetType
  BY DEF PostArrives, DeskIInv
<1> QED
  BY <1>1, <1>2, PostGoneKeeps

LEMMA PostFailsKeeps == ASSUME DeskIInv, NEW k \in DOMAIN posts, PostFails(k) PROVE DeskIInv'
<1>1. PostGone(k)
  <2>1. newestLayout' = AfterFailure(newestLayout, posts, k)
    BY DEF PostFails
  <2>2. /\ newestLayout' = "sent" => newestLayout = "sent" /\ k # Len(posts)
        /\ newestLayout' = "stored" => newestLayout = "stored"
        /\ newestLayout' \in Whereabouts
    BY <2>1, PostDomain DEF AfterFailure, Whereabouts
  <2> QED
    BY <2>2, PostDomain DEF PostFails, PostGone, serverVars, listVars, dockVars, asked, postVars
<1>2. left' \in DeskBudgetType
  BY AffordKeeps DEF PostFails, DeskIInv
<1> QED
  BY <1>1, <1>2, PostGoneKeeps

\* A page that starts.
NewPage ==
  /\ list = <<>> /\ loadedOnce = FALSE /\ connected = TRUE /\ poll = Unserved /\ op = NoOp
  /\ phase = "restoring" /\ fetched = [served |-> FALSE, layout |-> NoLayout, ids |-> {}]
  /\ groups = <<>> /\ owner = <<>> /\ saving = FALSE /\ override = <<>>
  /\ wanted = {} /\ reopened = {} /\ newestLayout = "none"

LEMMA NoGroups == IsGroups(<<>>) /\ Docked(<<>>) = {} /\ OwnersFit(<<>>, <<>>)
<1>1. Docked(<<>>) = {} /\ IsGroups(<<>>)
  <2>1. <<>> \in Seq((SUBSET Panels) \ {{}}) /\ Len(<<>>) = 0
    OBVIOUS
  <2>2. \A p : p \in Docked(<<>>) <=> \E i \in 1 .. Len(<<>>) : p \in <<>>[i]
    BY <2>1, InDocked
  <2> QED
    BY <2>1, <2>2 DEF IsGroups
<1>2. Docked(<<>>) \cap Files = {}
  BY <1>1
<1> QED
  BY <1>1, <1>2, EmptyMap DEF OwnersFit

LEMMA EmptyIsLayout == IsLayout(NoLayout) /\ Docked(NoLayout.groups) = {}
<1>1. <<>> \in UNION {[S -> Convs \cup {NoConv}] : S \in SUBSET Files}
  BY EmptyMap
<1>2. NoLayout \in Layouts /\ NoLayout.groups = <<>> /\ NoLayout.owner = <<>>
  BY <1>1 DEF NoLayout, Layouts
<1> QED
  BY <1>2, NoGroups DEF IsLayout

\* Layouts of the page before may still be on their way.
LEMMA NewPageHolds == ServerOK /\ PostsOK /\ NewPage => DeskRest /\ OpOK /\ DeleteKept
<1> SUFFICES ASSUME ServerOK, PostsOK, NewPage PROVE DeskRest /\ OpOK /\ DeleteKept
  OBVIOUS
<1>1. poll.served = FALSE /\ poll.ids = <<>>
  BY DEF NewPage, Unserved
<1>2. ListsOK
  BY <1>1, NoneIsFromServer DEF ListsOK, NewPage
<1>3. DockOK
  BY NoGroups, EmptyMap DEF DockOK, NewPage
<1>4. PostsOK
  OBVIOUS
<1>5. /\ op \in [kind : {"none", "create", "delete"}, id : Convs \cup {NoConv},
                  stage : {"none", "posted", "refresh", "refreshed"}, ids : ConvMaps]
      /\ op.kind = "none" /\ op.stage = "none"
  BY EmptyMap DEF NewPage, NoOp
<1>6. OpOK /\ DeleteKept
  BY <1>5 DEF OpOK, DeleteKept
<1>7. fetched.ids = {} /\ fetched.served = FALSE /\ IsLayout(fetched.layout)
  BY EmptyIsLayout DEF NewPage
<1>8. RestoringOK
  BY <1>1, <1>5, <1>7 DEF RestoringOK, NewPage
<1>9. TabsHeld /\ PanelsHaveSessions /\ SplitKept
  BY DEF TabsHeld, PanelsHaveSessions, SplitKept, NewPage
<1> QED
  BY <1>2, <1>3, <1>4, <1>6, <1>8, <1>9 DEF DeskRest

LEMMA ReloadKeeps == ASSUME DeskIInv, Reload PROVE DeskIInv'
<1>1. /\ Afford("reload") /\ NewPage' /\ UNCHANGED <<sessions, born, saved>>
      /\ posts' \in {posts, <<>>} /\ newestLayout' = "none"
  BY DEF Reload, NewPage, serverVars, postVars
<1>2. ServerOK'
  BY <1>1 DEF DeskIInv, DeskRest, ServerOK, FromServer, IsLayout
<1>3. PostsOK'
  <2>0. posts \in Seq(Layouts) /\ \A i \in 1 .. Len(posts) : IsLayout(posts[i])
    BY DEF DeskIInv, DeskRest, PostsOK
  <2>1. posts' \in Seq(Layouts) /\ \A i \in 1 .. Len(posts') : IsLayout(posts'[i])
    <3>1. CASE posts' = posts
      BY <2>0, <3>1
    <3>2. CASE posts' = <<>>
      BY <3>2
    <3> QED
      BY <1>1, <3>1, <3>2
  <2> QED
    BY <1>1, <2>1 DEF PostsOK, IsLayout, Whereabouts
<1>4. (ServerOK /\ PostsOK /\ NewPage => DeskRest /\ OpOK /\ DeleteKept)'
  BY NewPageHolds, PTL
<1>5. left' \in DeskBudgetType
  BY <1>1, AffordKeeps DEF DeskIInv
<1> QED
  BY <1>1, <1>2, <1>3, <1>4, <1>5 DEF DeskIInv

LEMMA DeskInitially == DeskInit => DeskIInv
<1> SUFFICES ASSUME DeskInit PROVE DeskIInv
  OBVIOUS
<1>1. left \in DeskBudgetType /\ NewPage /\ sessions \in ConvMaps /\ born = sessions /\ saved = NoLayout
  BY DeskAssumption, DeskBudgetsAssumption DEF DeskInit, NewPage
<1>2. ServerOK
  BY <1>1, EmptyIsLayout DEF ServerOK, FromServer
<1>3. PostsOK
  BY DEF DeskInit, PostsOK, Whereabouts
<1> QED
  BY <1>1, <1>2, <1>3, NewPageHolds DEF DeskIInv

LEMMA DeleteStays ==
  ASSUME DeleteKept, OpOK, NEW ids, FromServer(list), FromServer(ids), list' = ids, UNCHANGED op,
         reopened \subseteq reopened',
         Docked(groups') \cap Convs \subseteq Docked(groups) \cup reopened',
         Docked(groups') \cap Convs \subseteq DOMAIN ids \/ ids = list
  PROVE  DeleteKept'
<1> SUFFICES ASSUME op.kind = "delete"
             PROVE  /\ Docked(groups') \cap Convs \subseteq DOMAIN ids \cup reopened'
                    /\ Docked(groups') \cap Family(op.id, ids) \subseteq reopened'
  BY DEF DeleteKept, Family
<1>1. /\ Docked(groups) \cap Convs \subseteq DOMAIN list \cup reopened
      /\ Docked(groups) \cap Family(op.id, list) \subseteq reopened
  BY DEF DeleteKept
<1>2. Docked(groups') \cap Convs \subseteq DOMAIN ids \cup reopened'
  BY <1>1
<1>3. op.id \in Convs /\ DOMAIN ids \subseteq Convs
  BY DEF OpOK, FromServer, ConvMaps
<1>4. ASSUME NEW c \in Docked(groups') \cap Family(op.id, ids) PROVE c \in reopened'
  <2>1. c \in Convs
    BY <1>3, <1>4 DEF Family
  <2>2. CASE c \in Docked(groups) /\ c = op.id
    BY <1>1, <2>2 DEF Family
  <2>3. CASE c \in Docked(groups) /\ c # op.id
    <3>1. c \in DOMAIN ids /\ ids[c] = op.id
      BY <1>4, <2>3 DEF Family
    <3>2. CASE c \in DOMAIN list
      <4>1. list[c] = op.id
        BY <3>1, <3>2 DEF FromServer
      <4> QED
        BY <1>1, <2>3, <3>2, <4>1 DEF Family
    <3>3. CASE c \notin DOMAIN list
      BY <1>1, <2>1, <2>3, <3>3
    <3> QED
      BY <3>2, <3>3
  <2> QED
    BY <1>4, <2>1, <2>2, <2>3
<1> QED
  BY <1>2, <1>4

\* What every event of the page starts from.
LEMMA DeskFacts ==
  ASSUME DeskIInv
  PROVE  /\ DeskRest /\ OpOK /\ DeleteKept /\ ServerOK /\ ListsOK /\ DockOK /\ RestoringOK /\ TabsHeld
         /\ SplitKept /\ left \in DeskBudgetType
         /\ IsGroups(groups) /\ OwnersFit(groups, owner) /\ Docked(groups) \cap Convs \subseteq DOMAIN born
         /\ phase \in {"restoring", "ready"} /\ saving \in BOOLEAN /\ wanted \subseteq DOMAIN born
         /\ FromServer(list) /\ FromServer(poll.ids) /\ loadedOnce \in BOOLEAN /\ connected \in BOOLEAN
         /\ DOMAIN born \subseteq Convs /\ DOMAIN list \subseteq DOMAIN born
         /\ phase = "restoring" => wanted = {} /\ (loadedOnce => Covers(list))
         /\ phase = "ready" => wanted \cap DOMAIN sessions \subseteq Docked(groups)
         /\ phase = "ready" /\ loadedOnce /\ connected => Docked(groups) \cap Convs \subseteq DOMAIN list
<1>1. /\ DeskRest /\ OpOK /\ DeleteKept /\ ServerOK /\ ListsOK /\ DockOK /\ RestoringOK /\ TabsHeld
      /\ SplitKept /\ left \in DeskBudgetType /\ PanelsHaveSessions
  BY DEF DeskIInv, DeskRest
<1>2. born \in ConvMaps /\ FromServer(list)
  BY <1>1 DEF ServerOK, ListsOK
<1>3. DOMAIN born \subseteq Convs /\ DOMAIN list \subseteq DOMAIN born
  BY <1>2 DEF FromServer, ConvMaps
<1>4. /\ phase = "restoring" => wanted = {} /\ (loadedOnce => Covers(list))
      /\ phase = "ready" => wanted \cap DOMAIN sessions \subseteq Docked(groups)
      /\ phase = "ready" /\ loadedOnce /\ connected => Docked(groups) \cap Convs \subseteq DOMAIN list
  BY <1>1 DEF RestoringOK, TabsHeld, PanelsHaveSessions
<1> QED
  BY <1>1, <1>2, <1>3, <1>4 DEF DockOK, ListsOK

LEMMA PollAnswersKeeps == ASSUME DeskIInv, PollAnswers PROVE DeskIInv'
<1> PICK ids : ids = poll.ids
  OBVIOUS
<1>1. /\ poll.served /\ Commit(groups, owner, ids, TRUE, TRUE, phase)
      /\ wanted' = wanted \cap DOMAIN ids /\ poll' = Unserved
      /\ UNCHANGED <<left, sessions, born, saved, op, fetched, posts, newestLayout, reopened>>
  BY DEF PollAnswers, Apply, serverVars, postVars
<1>2. /\ DeskRest /\ DockOK /\ IsGroups(groups) /\ OwnersFit(groups, owner) /\ phase \in {"restoring", "ready"}
      /\ FromServer(ids) /\ FromServer(list) /\ Docked(groups) \cap Convs \subseteq DOMAIN born
  BY DeskFacts
<1>3. Redocked(groups, ids, TRUE, TRUE, phase) /\ Docked(groups') \cap Convs \subseteq DOMAIN ids
  BY <1>1, <1>2, Commits
<1>4. TabsFollow(groups, ids, TRUE, TRUE, phase)
  <2>1. wanted \subseteq DOMAIN born /\ (phase = "restoring" => wanted = {})
        /\ (phase = "ready" => wanted \cap DOMAIN sessions \subseteq Docked(groups))
    BY DeskFacts
  <2> QED
    BY <1>1, <2>1 DEF TabsFollow
<1>5. AnswersStay
  BY <1>1 DEF AnswersStay
<1>6. phase = "restoring" => Covers(ids)
  BY <1>1, DeskFacts DEF RestoringOK
<1>7. DeskRest'
  BY <1>2, <1>3, <1>4, <1>5, <1>6, RedockKeeps
<1>8. DeleteKept'
  <2>1. list' = ids /\ Docked(groups') \cap Convs \subseteq Docked(groups)
    BY <1>3 DEF Redocked
  <2> QED
    BY <1>1, <1>2, <1>3, <2>1, DeskFacts, DeleteStays
<1>9. OpOK'
  <2>1. Grows
    BY <1>1, DeskFacts, Staying
  <2> QED
    BY <1>1, <2>1, OpWaits, DeskFacts DEF OpOK
<1> QED
  BY <1>1, <1>7, <1>8, <1>9, DeskFacts DEF DeskIInv

LEMMA PollFailsKeeps == ASSUME DeskIInv, PollFails PROVE DeskIInv'
<1>1. /\ Afford("fail") /\ Commit(groups, owner, list, loadedOnce, FALSE, phase)
      /\ poll' = Unserved
      /\ UNCHANGED <<sessions, born, saved, op, fetched, posts, newestLayout, wanted, reopened>>
  BY DEF PollFails, Offline, serverVars, asked, postVars
<1>2. /\ DeskRest /\ DockOK /\ IsGroups(groups) /\ OwnersFit(groups, owner) /\ phase \in {"restoring", "ready"}
      /\ FromServer(list) /\ Docked(groups) \cap Convs \subseteq DOMAIN born /\ loadedOnce \in BOOLEAN
  BY DeskFacts
<1>3. Redocked(groups, list, loadedOnce, FALSE, phase)
  BY <1>1, <1>2, Commits
<1>4. TabsFollow(groups, list, loadedOnce, FALSE, phase)
  <2>1. wanted \subseteq DOMAIN born /\ (phase = "restoring" => wanted = {})
        /\ (phase = "ready" => wanted \cap DOMAIN sessions \subseteq Docked(groups))
    BY DeskFacts
  <2> QED
    BY <1>1, <2>1 DEF TabsFollow
<1>5. AnswersStay
  BY <1>1 DEF AnswersStay
<1>6. phase = "restoring" /\ loadedOnce => Covers(list)
  BY DeskFacts
<1>7. DeskRest'
  BY <1>2, <1>3, <1>4, <1>5, <1>6, RedockKeeps
<1>8. DeleteKept'
  <2>1. list' = list /\ Docked(groups') \cap Convs \subseteq Docked(groups)
    BY <1>3 DEF Redocked
  <2> QED
    BY <1>1, <1>2, <2>1, DeskFacts, DeleteStays
<1>9. OpOK'
  <2>1. Grows
    BY <1>1, DeskFacts, Staying
  <2> QED
    BY <1>1, <2>1, OpWaits, DeskFacts DEF OpOK
<1>10. left' \in DeskBudgetType
  BY <1>1, AffordKeeps, DeskFacts
<1> QED
  BY <1>7, <1>8, <1>9, <1>10 DEF DeskIInv

\* The layout without the sessions that are gone.
LEMMA Sanitized ==
  ASSUME NEW l, IsLayout(l), NEW ids, NEW s, s = SanitizeLayout(l, ids, Convs)
  PROVE  /\ IsGroups(s.groups) /\ Docked(s.groups) \subseteq Docked(l.groups)
         /\ \A c \in Convs : c \in Docked(s.groups) <=> c \in Docked(l.groups) /\ c \in ids
         /\ s.owner = l.owner
<1>1. l \in Layouts /\ IsGroups(l.groups)
  BY DEF IsLayout
<1> PICK gone : gone = {p \in Docked(l.groups) : ~ KeepPanel(p, ids, Convs, l.owner)}
  OBVIOUS
<1>2. s = [l EXCEPT !.groups = Without(l.groups, gone)]
  BY DEF SanitizeLayout
<1>3. s.groups = Without(l.groups, gone) /\ s.owner = l.owner
  BY <1>1, <1>2 DEF Layouts
<1>4. IsGroups(s.groups) /\ Docked(s.groups) = Docked(l.groups) \ gone
  BY <1>1, <1>3, WithoutDocks
<1>5. \A c \in Convs : c \in gone <=> c \in Docked(l.groups) /\ c \notin ids
  BY DEF KeepPanel
<1> QED
  BY <1>3, <1>4, <1>5

LEMMA RestoreKeeps == ASSUME DeskIInv, Restore PROVE DeskIInv'
<1> PICK layout : layout = SanitizeLayout(fetched.layout, fetched.ids, Convs)
  OBVIOUS
<1> PICK some \in BOOLEAN : some = (Docked(layout.groups) # {})
  OBVIOUS
<1> PICK g : g = IF some THEN layout.groups ELSE groups
  OBVIOUS
<1> PICK o : o = IF some THEN Restrict(layout.owner, DOMAIN layout.owner \cap Docked(g)) ELSE owner
  OBVIOUS
<1> PICK restored : restored = Docked(fetched.layout.groups) \cap fetched.ids
  OBVIOUS
<1>1. /\ phase = "restoring" /\ fetched.served
      /\ Commit(g, o, list, loadedOnce, connected, "ready")
      /\ wanted' = IF some THEN restored ELSE wanted
      /\ reopened' = reopened \cup restored
      /\ UNCHANGED <<left, sessions, born, saved, poll, op, fetched, posts, newestLayout>>
  BY DEF Restore, serverVars, postVars
<1>2. /\ DeskRest /\ DockOK /\ IsGroups(groups) /\ OwnersFit(groups, owner)
      /\ FromServer(list) /\ Docked(groups) \cap Convs \subseteq DOMAIN born
      /\ loadedOnce \in BOOLEAN /\ connected \in BOOLEAN /\ DOMAIN born \subseteq Convs
      /\ wanted = {} /\ (loadedOnce => Covers(list))
  BY <1>1, DeskFacts
<1> PICK old : old = fetched.layout
  OBVIOUS
<1>3. /\ IsLayout(old) /\ fetched.ids \subseteq DOMAIN born
      /\ newestLayout = "stored" => old = saved
      /\ Docked(old.groups) \subseteq Laid
  BY <1>1, DeskFacts DEF RestoringOK, Laid
<1>4. /\ IsGroups(layout.groups) /\ Docked(layout.groups) \subseteq Docked(old.groups)
      /\ \A c \in Convs : c \in Docked(layout.groups) <=> c \in Docked(old.groups) /\ c \in fetched.ids
      /\ layout.owner = old.owner
  BY <1>3, Sanitized
<1>5. IsGroups(g) /\ OwnersFit(g, o)
  <2>1. CASE some
    <3>1. g = layout.groups /\ o = Restrict(old.owner, DOMAIN old.owner \cap Docked(g))
      BY <1>4, <2>1
    <3>2. OwnersFit(old.groups, old.owner)
      BY <1>3 DEF IsLayout
    <3>3. DOMAIN old.owner \cap Docked(g) = Docked(g) \cap Files
      BY <1>4, <3>1, <3>2 DEF OwnersFit
    <3>4. o = Restrict(old.owner, Docked(g) \cap Files) /\ Docked(g) \cap Files \subseteq Docked(old.groups)
      BY <1>4, <3>1, <3>3
    <3>5. OwnersFit(g, Restrict(old.owner, Docked(g) \cap Files))
      BY <3>2, <3>4, OwnersLeft
    <3> QED
      BY <1>4, <3>1, <3>4, <3>5
  <2>2. CASE ~ some
    BY <1>2, <2>2
  <2> QED
    BY <2>1, <2>2
<1>6. /\ Docked(g) \cap Convs \subseteq DOMAIN born
      /\ some => Docked(g) \cap Convs = restored /\ restored \subseteq Docked(old.groups)
      /\ ~ some => g = groups
      /\ restored \subseteq DOMAIN born
  BY <1>2, <1>3, <1>4
<1>7. Redocked(g, list, loadedOnce, connected, "ready")
  BY <1>1, <1>2, <1>5, Commits
<1>8. TabsFollow(g, list, loadedOnce, connected, "ready")
  <2>1. CASE some
    BY <1>1, <1>2, <1>3, <1>6, <2>1 DEF TabsFollow, Covers
  <2>2. CASE ~ some
    BY <1>1, <1>2, <2>2 DEF TabsFollow
  <2> QED
    BY <2>1, <2>2
<1>9. AnswersStay
  BY <1>1 DEF AnswersStay
<1>10. DeskRest'
  BY <1>2, <1>6, <1>7, <1>8, <1>9, RedockKeeps
<1>11. DeleteKept'
  <2>1. list' = list /\ Docked(groups') \cap Convs \subseteq Docked(g)
    BY <1>7 DEF Redocked
  <2>2. Docked(groups') \cap Convs \subseteq Docked(groups) \cup reopened'
    BY <1>1, <1>6, <2>1
  <2> QED
    BY <1>1, <1>2, <2>1, <2>2, DeskFacts, DeleteStays
<1>12. OpOK'
  <2>1. Grows
    BY <1>1, DeskFacts, Staying
  <2> QED
    BY <1>1, <2>1, OpWaits, DeskFacts DEF OpOK
<1> QED
  BY <1>1, <1>10, <1>11, <1>12, DeskFacts DEF DeskIInv

LEMMA RestoreFailsKeeps == ASSUME DeskIInv, RestoreFails PROVE DeskIInv'
<1>1. /\ Afford("fail") /\ phase = "restoring" /\ Commit(groups, owner, list, loadedOnce, connected, "ready")
      /\ wanted' = {}
      /\ UNCHANGED <<sessions, born, saved, poll, op, fetched, posts, newestLayout, reopened>>
  BY DEF RestoreFails, serverVars, postVars
<1>2. /\ DeskRest /\ DockOK /\ IsGroups(groups) /\ OwnersFit(groups, owner)
      /\ FromServer(list) /\ Docked(groups) \cap Convs \subseteq DOMAIN born
      /\ loadedOnce \in BOOLEAN /\ connected \in BOOLEAN
  BY DeskFacts
<1>3. Redocked(groups, list, loadedOnce, connected, "ready")
  BY <1>1, <1>2, Commits
<1>4. TabsFollow(groups, list, loadedOnce, connected, "ready")
  BY <1>1 DEF TabsFollow
<1>5. AnswersStay
  BY <1>1 DEF AnswersStay
<1>6. DeskRest'
  BY <1>2, <1>3, <1>4, <1>5, RedockKeeps
<1>7. DeleteKept'
  <2>1. list' = list /\ Docked(groups') \cap Convs \subseteq Docked(groups)
    BY <1>3 DEF Redocked
  <2> QED
    BY <1>1, <1>2, <2>1, DeskFacts, DeleteStays
<1>8. OpOK'
  <2>1. Grows
    BY <1>1, DeskFacts, Staying
  <2> QED
    BY <1>1, <2>1, OpWaits, DeskFacts DEF OpOK
<1>9. left' \in DeskBudgetType
  BY <1>1, AffordKeeps, DeskFacts
<1> QED
  BY <1>6, <1>7, <1>8, <1>9 DEF DeskIInv

\* An event that changes panels only, g of which are to be docked.
Shifts(g) ==
  /\ Redocked(g, list, loadedOnce, connected, phase) /\ TabsFollow(g, list, loadedOnce, connected, phase)
  /\ UNCHANGED <<sessions, born, saved, fetched, posts, newestLayout, poll>>
  /\ Docked(g) \cap Convs \subseteq DOMAIN born

LEMMA ShiftKeeps == ASSUME DeskIInv, NEW g, Shifts(g), op' = op \/ op'.stage # "refreshed" PROVE DeskRest'
<1>1. AnswersStay
  BY DEF AnswersStay, Shifts
<1>2. /\ DeskRest /\ FromServer(list) /\ loadedOnce \in BOOLEAN /\ connected \in BOOLEAN
      /\ phase \in {"restoring", "ready"} /\ (phase = "restoring" /\ loadedOnce => Covers(list))
  BY DeskFacts
<1> QED
  BY <1>1, <1>2, RedockKeeps DEF Shifts

LEMMA ShiftRest ==
  ASSUME DeskIInv, NEW g, Shifts(g), UNCHANGED op, reopened \subseteq reopened',
         Docked(g) \cap Convs \subseteq Docked(groups) \cup reopened', left' \in DeskBudgetType
  PROVE  DeskIInv'
<1>1. DeskRest'
  BY ShiftKeeps
<1>2. list' = list /\ Docked(groups') \cap Convs \subseteq Docked(g) /\ UNCHANGED <<sessions, born>>
  BY DEF Shifts, Redocked
<1>3. DeleteKept'
  BY <1>2, DeskFacts, DeleteStays
<1>4. OpOK'
  <2>1. Grows
    BY <1>2, DeskFacts, Staying
  <2> QED
    BY <1>2, <2>1, OpWaits, DeskFacts DEF OpOK
<1> QED
  BY <1>1, <1>3, <1>4 DEF DeskIInv

LEMMA PanelKinds ==
  /\ Convs \subseteq Panels /\ Files \subseteq Panels /\ Urls \subseteq Panels /\ Placeholder \in Panels
  /\ Placeholder \notin Convs /\ Placeholder \notin Files /\ Placeholder \notin Urls
  /\ Convs \cap Files = {} /\ Convs \cap Urls = {} /\ Files \cap Urls = {}
BY DeskAssumption DEF Panels

LEMMA OpenTabKeeps == ASSUME DeskIInv, NEW c \in Convs, OpenTab(c) PROVE DeskIInv'
<1>1. PICK g \in Placed(groups, c, "agent") : Dock(g, owner)
  BY DEF OpenTab
<1>2. /\ Afford("open") /\ c \in DOMAIN list /\ c \notin Docked(groups)
      /\ wanted' = IF phase = "ready" THEN wanted \cup {c} ELSE wanted
      /\ reopened' = reopened \cup {c}
      /\ UNCHANGED <<sessions, born, saved, poll, op, fetched, posts, newestLayout>>
  BY DEF OpenTab, serverVars, postVars
<1>3. /\ DockOK /\ SplitKept /\ IsGroups(groups) /\ OwnersFit(groups, owner) /\ Docked(groups) \cap Convs \subseteq DOMAIN born
      /\ DOMAIN list \subseteq DOMAIN born
  BY DeskFacts
<1>4. IsGroups(g) /\ Docked(g) = Docked(groups) \cup {c}
  BY <1>2, <1>3, PanelKinds, PlacedDocks
<1>5. OwnersFit(g, owner)
  <2>1. Docked(g) \cap Files = Docked(groups) \cap Files
    BY <1>4, PanelKinds
  <2> QED
    BY <1>3, <2>1 DEF OwnersFit
<1>6. Redocked(g, list, loadedOnce, connected, phase)
  BY <1>1, <1>3, <1>4, <1>5, Docks
<1>7. TabsFollow(g, list, loadedOnce, connected, phase)
  <2>1. /\ wanted \subseteq DOMAIN born /\ (phase = "restoring" => wanted = {})
        /\ (phase = "ready" => wanted \cap DOMAIN sessions \subseteq Docked(groups))
        /\ (phase = "ready" /\ loadedOnce /\ connected => Docked(groups) \cap Convs \subseteq DOMAIN list)
        /\ DOMAIN born \subseteq Convs
    BY DeskFacts
  <2>2. phase = "ready" => c \in Docked(groups')
    BY <1>2, <1>4, <1>6 DEF Redocked
  <2>3. ~ (phase = "ready" /\ groups' = groups)
    BY <1>2, <2>2
  <2>4. phase = "ready" => /\ wanted' \cap DOMAIN sessions \subseteq Docked(g)
                           /\ loadedOnce /\ connected => wanted' \cap DOMAIN sessions \subseteq DOMAIN list
    BY <1>2, <1>4, <2>1
  <2> QED
    BY <1>2, <1>3, <2>1, <2>3, <2>4 DEF TabsFollow
<1>8. Shifts(g)
  BY <1>2, <1>3, <1>4, <1>6, <1>7 DEF Shifts
<1>9. left' \in DeskBudgetType
  BY <1>2, AffordKeeps, DeskFacts
<1> QED
  BY <1>2, <1>4, <1>8, <1>9, ShiftRest

\* The tabs the user has open stay where panels come, or others go.
LEMMA TabsStayOpen ==
  ASSUME DeskIInv, NEW g, wanted' \subseteq wanted,
         Docked(groups) \cap wanted' \subseteq Docked(g)
  PROVE  TabsFollow(g, list, loadedOnce, connected, phase)
<1>1. /\ wanted \subseteq DOMAIN born /\ (phase = "restoring" => wanted = {})
      /\ (phase = "ready" => wanted \cap DOMAIN sessions \subseteq Docked(groups))
      /\ (phase = "ready" /\ loadedOnce /\ connected => Docked(groups) \cap Convs \subseteq DOMAIN list)
      /\ DOMAIN born \subseteq Convs
  BY DeskFacts
<1> QED
  BY <1>1 DEF TabsFollow

LEMMA OpenFileKeeps == ASSUME DeskIInv, NEW f \in Files \cup Urls, OpenFile(f) PROVE DeskIInv'
<1>1. PICK h \in Placed(groups, f, "file"), a \in IF f \in Urls \/ list = <<>> THEN {NoConv} ELSE DOMAIN list :
        Dock(Retired(h, f), IF f \in Urls THEN owner ELSE Put(owner, f, a))
  BY DEF OpenFile
<1>2. /\ Afford("files") /\ f \notin Docked(groups)
      /\ UNCHANGED <<sessions, born, saved, poll, op, fetched, posts, newestLayout, wanted, reopened>>
  BY DEF OpenFile, serverVars, asked, postVars
<1> PICK g : g = Retired(h, f)
  OBVIOUS
<1> PICK o : o = IF f \in Urls THEN owner ELSE Put(owner, f, a)
  OBVIOUS
<1>3. /\ DockOK /\ SplitKept /\ IsGroups(groups) /\ OwnersFit(groups, owner) /\ Docked(groups) \cap Convs \subseteq DOMAIN born
      /\ DOMAIN list \subseteq DOMAIN born /\ DOMAIN born \subseteq Convs
  BY DeskFacts
<1>4. IsGroups(h) /\ Docked(h) = Docked(groups) \cup {f}
  BY <1>2, <1>3, PanelKinds, PlacedDocks
<1>5. IsGroups(g) /\ (Docked(g) = Docked(h) \/ Docked(g) = Docked(h) \ {Placeholder})
  BY <1>4, RetiredDocks
<1>6. \A p \in Convs : p \in Docked(g) <=> p \in Docked(groups)
  BY <1>4, <1>5, PanelKinds
<1>7. OwnersFit(g, o)
  <2>1. Docked(g) \cap Files = (Docked(groups) \cap Files) \cup ({f} \cap Files)
    BY <1>4, <1>5, PanelKinds
  <2>2. owner \in [Docked(groups) \cap Files -> Convs \cup {NoConv}]
    BY <1>3 DEF OwnersFit
  <2>3. CASE f \in Urls
    <3>1. Docked(g) \cap Files = Docked(groups) \cap Files
      BY <2>1, <2>3, PanelKinds
    <3> QED
      BY <2>2, <2>3, <3>1 DEF OwnersFit
  <2>4. CASE f \notin Urls
    <3>1. f \in Files /\ a \in Convs \cup {NoConv} /\ o = Put(owner, f, a)
      BY <1>3, <2>4
    <3>2. Docked(g) \cap Files = (Docked(groups) \cap Files) \cup {f}
      BY <2>1, <3>1
    <3>3. o \in [(Docked(groups) \cap Files) \cup {f} -> Convs \cup {NoConv}]
      BY <2>2, <3>1 DEF Put
    <3> QED
      BY <3>2, <3>3 DEF OwnersFit
  <2> QED
    BY <2>3, <2>4
<1>8. Redocked(g, list, loadedOnce, connected, phase)
  BY <1>1, <1>3, <1>5, <1>7, Docks
<1>9. TabsFollow(g, list, loadedOnce, connected, phase)
  <2>1. wanted \subseteq Convs
    BY <1>3, DeskFacts
  <2> QED
    BY <1>2, <1>6, <2>1, TabsStayOpen
<1>10. Shifts(g)
  BY <1>2, <1>3, <1>6, <1>8, <1>9 DEF Shifts
<1>11. left' \in DeskBudgetType
  BY <1>2, AffordKeeps, DeskFacts
<1>12. Docked(g) \cap Convs \subseteq Docked(groups) \cup reopened' /\ reopened \subseteq reopened'
  BY <1>2, <1>6
<1> QED
  BY <1>2, <1>10, <1>11, <1>12, ShiftRest

LEMMA ClosePanelKeeps == ASSUME DeskIInv, NEW p, ClosePanel(p) PROVE DeskIInv'
<1> PICK g : g = Without(groups, {p})
  OBVIOUS
<1> PICK o : o = Restrict(owner, DOMAIN owner \ {p})
  OBVIOUS
<1>1. /\ Afford("close") /\ Dock(g, o) /\ wanted' = wanted \ {p}
      /\ UNCHANGED <<reopened, sessions, born, saved, poll, op, fetched, posts, newestLayout>>
  BY DEF ClosePanel, serverVars, postVars
<1>2. /\ DockOK /\ SplitKept /\ IsGroups(groups) /\ OwnersFit(groups, owner) /\ Docked(groups) \cap Convs \subseteq DOMAIN born
  BY DeskFacts
<1>3. IsGroups(g) /\ Docked(g) = Docked(groups) \ {p}
  BY <1>2, WithoutDocks
<1>4. OwnersFit(g, o)
  <2>1. DOMAIN owner \ {p} = Docked(g) \cap Files
    BY <1>2, <1>3 DEF OwnersFit
  <2>2. OwnersFit(g, Restrict(owner, Docked(g) \cap Files))
    BY <1>2, <1>3, OwnersLeft
  <2> QED
    BY <2>1, <2>2
<1>5. Redocked(g, list, loadedOnce, connected, phase)
  BY <1>1, <1>2, <1>3, <1>4, Docks
<1>6. TabsFollow(g, list, loadedOnce, connected, phase)
  BY <1>1, <1>3, TabsStayOpen
<1>7. Shifts(g)
  BY <1>1, <1>2, <1>3, <1>5, <1>6 DEF Shifts
<1>8. left' \in DeskBudgetType
  BY <1>1, AffordKeeps, DeskFacts
<1> QED
  BY <1>1, <1>3, <1>7, <1>8, ShiftRest

LEMMA DragKeeps ==
  ASSUME DeskIInv, NEW p \in Panels, NEW i \in DOMAIN groups, NEW own \in BOOLEAN, Drag(p, i, own)
  PROVE  DeskIInv'
<1> PICK there : there = IF own THEN InsertAt(groups, i, {p}) ELSE [groups EXCEPT ![i] = @ \cup {p}]
  OBVIOUS
<1> PICK g : g = NonEmpty(Moved(there, i, p))
  OBVIOUS
<1>1. /\ Afford("drag") /\ p \in Docked(groups) /\ Dock(g, owner)
      /\ UNCHANGED <<sessions, born, saved, poll, op, fetched, posts, newestLayout, wanted, reopened>>
  BY DEF Drag, serverVars, asked, postVars, Moved
<1>2. /\ DockOK /\ SplitKept /\ IsGroups(groups) /\ OwnersFit(groups, owner) /\ Docked(groups) \cap Convs \subseteq DOMAIN born
  BY DeskFacts
<1>3. i \in 1 .. Len(groups)
  BY <1>2, LenProperties DEF IsGroups
<1>4. IsGroups(g) /\ Docked(g) = Docked(groups)
  BY <1>1, <1>2, <1>3, DragDocks
<1>5. OwnersFit(g, owner)
  BY <1>2, <1>4 DEF OwnersFit
<1>6. Redocked(g, list, loadedOnce, connected, phase)
  BY <1>1, <1>2, <1>4, <1>5, Docks
<1>7. TabsFollow(g, list, loadedOnce, connected, phase)
  BY <1>1, <1>4, TabsStayOpen
<1>8. Shifts(g)
  BY <1>1, <1>2, <1>4, <1>6, <1>7 DEF Shifts
<1>9. left' \in DeskBudgetType
  BY <1>1, AffordKeeps, DeskFacts
<1> QED
  BY <1>1, <1>4, <1>8, <1>9, ShiftRest

LEMMA ConfirmDeleteKeeps == ASSUME DeskIInv, NEW id \in Convs, ConfirmDelete(id) PROVE DeskIInv'
<1> PICK closing : closing = PanelIdsClosedByDelete(id, list, KnownOwner(owner))
  OBVIOUS
<1> PICK g : g = Without(groups, closing)
  OBVIOUS
<1> PICK o : o = Restrict(owner, DOMAIN owner \ closing)
  OBVIOUS
<1>1. /\ Afford("delete") /\ Dock(g, o) /\ wanted' = wanted \ closing
      /\ op' = [kind |-> "delete", id |-> id, stage |-> "posted", ids |-> <<>>]
      /\ reopened' = (Docked(groups) \cap Convs) \ DOMAIN list
      /\ UNCHANGED <<sessions, born, saved, poll, fetched, posts, newestLayout>>
  BY DEF ConfirmDelete, Start, serverVars, postVars
<1>2. /\ DockOK /\ SplitKept /\ IsGroups(groups) /\ OwnersFit(groups, owner) /\ Docked(groups) \cap Convs \subseteq DOMAIN born
  BY DeskFacts
<1>3. IsGroups(g) /\ Docked(g) = Docked(groups) \ closing
  BY <1>2, WithoutDocks
<1>4. OwnersFit(g, o)
  <2>1. DOMAIN owner \ closing = Docked(g) \cap Files
    BY <1>2, <1>3 DEF OwnersFit
  <2>2. OwnersFit(g, Restrict(owner, Docked(g) \cap Files))
    BY <1>2, <1>3, OwnersLeft
  <2> QED
    BY <2>1, <2>2
<1>5. Redocked(g, list, loadedOnce, connected, phase)
  BY <1>1, <1>2, <1>3, <1>4, Docks
<1>6. TabsFollow(g, list, loadedOnce, connected, phase)
  BY <1>1, <1>3, TabsStayOpen
<1>7. Shifts(g)
  BY <1>1, <1>2, <1>3, <1>5, <1>6 DEF Shifts
<1>8. left' \in DeskBudgetType
  BY <1>1, AffordKeeps, DeskFacts
<1>9. op'.stage = "posted" /\ op'.kind = "delete" /\ op'.id = id /\ op' \in
        [kind : {"none", "create", "delete"}, id : Convs \cup {NoConv},
         stage : {"none", "posted", "refresh", "refreshed"}, ids : ConvMaps]
  BY <1>1, EmptyMap
<1>10. OpOK'
  BY <1>9 DEF OpOK
<1>11. DeskRest'
  BY <1>7, <1>9, ShiftKeeps
<1>12. DeleteKept'
  <2>1. list' = list /\ Docked(groups') \cap Convs \subseteq Docked(g)
    BY <1>5 DEF Redocked
  <2>2. Family(id, list) \subseteq closing /\ Family(id, list) \subseteq Convs
    <3>1. DOMAIN list \subseteq Convs
      BY DeskFacts
    <3> QED
      BY <3>1 DEF Family, PanelIdsClosedByDelete
  <2>3. Docked(groups') \cap Family(id, list) = {}
    BY <1>3, <2>1, <2>2
  <2>4. Docked(groups') \cap Convs \subseteq DOMAIN list \cup reopened'
    BY <1>1, <1>3, <2>1
  <2> QED
    BY <1>9, <2>1, <2>3, <2>4 DEF DeleteKept, Family
<1> QED
  BY <1>8, <1>10, <1>11, <1>12 DEF DeskIInv

LEMMA EndOpKeeps ==
  ASSUME DeskIInv, NEW ids, NEW up \in BOOLEAN, EndOp(ids, up), FromServer(ids),
         op.stage \in {"refresh", "refreshed"}, up /\ phase = "restoring" => Covers(ids),
         ~ up => ids = list
  PROVE  DeskRest' /\ OpOK' /\ DeleteKept'
<1> PICK once \in BOOLEAN : once = (loadedOnce \/ up)
  OBVIOUS
<1>1. /\ op' = NoOp
      /\ UNCHANGED <<sessions, born, saved, poll, fetched, posts, newestLayout>>
  BY DEF EndOp, serverVars, postVars
<1>2. OpOK' /\ DeleteKept' /\ op'.stage # "refreshed"
  BY <1>1, OpEnds
<1>3. AnswersStay
  BY <1>1, <1>2 DEF AnswersStay
<1>4. /\ DeskRest /\ DockOK /\ IsGroups(groups) /\ OwnersFit(groups, owner) /\ phase \in {"restoring", "ready"}
      /\ Docked(groups) \cap Convs \subseteq DOMAIN born /\ loadedOnce \in BOOLEAN
      /\ DOMAIN born \subseteq Convs
      /\ wanted \subseteq DOMAIN born /\ (phase = "restoring" => wanted = {} /\ (loadedOnce => Covers(list)))
      /\ (phase = "ready" => wanted \cap DOMAIN sessions \subseteq Docked(groups))
  BY DeskFacts
<1>5. phase = "restoring" /\ once => Covers(ids)
  BY <1>4
<1>6. CASE op.kind = "create" /\ op.id \notin Docked(groups)
  <2>1. PICK g \in Placed(groups, op.id, "agent") : Commit(g, owner, ids, once, up, phase)
    BY <1>6 DEF EndOp
  <2>2. wanted' = IF phase = "ready" /\ (~ up \/ op.id \in DOMAIN ids)
                  THEN (IF up THEN wanted \cap DOMAIN ids ELSE wanted) \cup {op.id}
                  ELSE IF up THEN wanted \cap DOMAIN ids ELSE wanted
    BY <1>6 DEF EndOp
  <2>3. op.id \in DOMAIN born /\ op.id \in Convs
    BY <1>6, DeskFacts DEF OpOK
  <2>4. IsGroups(g) /\ Docked(g) = Docked(groups) \cup {op.id}
    BY <1>4, <1>6, <2>3, PanelKinds, PlacedDocks
  <2>5. OwnersFit(g, owner)
    <3>1. Docked(g) \cap Files = Docked(groups) \cap Files
      BY <2>3, <2>4, PanelKinds
    <3> QED
      BY <1>4, <3>1 DEF OwnersFit
  <2>6. Redocked(g, ids, once, up, phase)
    BY <1>4, <2>1, <2>4, <2>5, Commits
  <2>7. TabsFollow(g, ids, once, up, phase)
    <3>1. wanted' \subseteq DOMAIN born /\ (phase = "restoring" => wanted' = {})
      BY <1>4, <2>2, <2>3
    <3>2. phase = "ready" => /\ wanted' \cap DOMAIN sessions \subseteq Docked(g)
                             /\ once /\ up => wanted' \cap DOMAIN sessions \subseteq DOMAIN ids
      BY <1>4, <2>2, <2>4
    <3>3. ASSUME phase = "ready", groups' = groups PROVE wanted' \subseteq wanted
      <4>1. ~ (~ up \/ op.id \in DOMAIN ids)
        BY <1>6, <2>3, <2>4, <2>6, <3>3 DEF Redocked
      <4> QED
        BY <2>2, <4>1
    <3> QED
      BY <1>4, <3>1, <3>2, <3>3 DEF TabsFollow
  <2>8. Docked(g) \cap Convs \subseteq DOMAIN born
    BY <1>4, <2>3, <2>4
  <2>9. DeskRest'
    BY <1>3, <1>4, <1>5, <2>6, <2>7, <2>8, RedockKeeps
  <2> QED
    BY <1>2, <2>9
<1>7. CASE ~ (op.kind = "create" /\ op.id \notin Docked(groups))
  <2>1. Commit(groups, owner, ids, once, up, phase) /\ wanted' = IF up THEN wanted \cap DOMAIN ids ELSE wanted
    BY <1>7 DEF EndOp
  <2>2. Redocked(groups, ids, once, up, phase)
    BY <1>4, <2>1, Commits
  <2>3. TabsFollow(groups, ids, once, up, phase)
    BY <1>4, <2>1 DEF TabsFollow
  <2>4. DeskRest'
    BY <1>3, <1>4, <1>5, <2>2, <2>3, RedockKeeps
  <2> QED
    BY <1>2, <2>4
<1> QED
  BY <1>6, <1>7

LEMMA RefreshedKeeps == ASSUME DeskIInv, Refreshed PROVE DeskIInv'
<1>1. op.stage = "refreshed" /\ EndOp(op.ids, TRUE) /\ UNCHANGED left
  BY DEF Refreshed
<1>2. FromServer(op.ids) /\ (phase = "restoring" => Covers(op.ids))
  BY <1>1, DeskFacts DEF OpOK, RestoringOK
<1>3. DeskRest' /\ OpOK' /\ DeleteKept'
  BY <1>1, <1>2, EndOpKeeps
<1> QED
  BY <1>1, <1>3, DeskFacts DEF DeskIInv

LEMMA RefreshFailsKeeps == ASSUME DeskIInv, RefreshFails PROVE DeskIInv'
<1>1. Afford("fail") /\ op.stage \in {"refresh", "refreshed"} /\ EndOp(list, FALSE)
  BY DEF RefreshFails
<1>2. FromServer(list)
  BY DeskFacts
<1>3. DeskRest' /\ OpOK' /\ DeleteKept'
  BY <1>1, <1>2, EndOpKeeps
<1>4. left' \in DeskBudgetType
  BY <1>1, AffordKeeps, DeskFacts
<1> QED
  BY <1>3, <1>4 DEF DeskIInv

LEMMA DeskIdle == ASSUME DeskIInv, UNCHANGED deskVars PROVE DeskIInv'
<1>1. UNCHANGED <<left, sessions, born, saved, list, loadedOnce, connected, phase, groups, owner, saving, override,
                  poll, op, fetched, posts, newestLayout, wanted, reopened>>
  BY DEF deskVars, serverVars, listVars, dockVars, asked, postVars
<1>2. Grows
  BY <1>1, DeskFacts, Staying
<1>3. PageWaits
  BY <1>1, DeskFacts DEF PageWaits, DockOK
<1>4. DeskRest'
  BY <1>2, <1>3, DeskFacts, WaitKeeps
<1>5. OpOK' /\ DeleteKept'
  BY <1>1, <1>2, DeskFacts, OpWaits, DeleteWaits DEF OpOK
<1> QED
  BY <1>1, <1>4, <1>5, DeskFacts DEF DeskIInv

LEMMA DeskStep == DeskIInv /\ [DeskNext]_deskVars => DeskIInv'
<1> SUFFICES ASSUME DeskIInv, [DeskNext]_deskVars PROVE DeskIInv'
  OBVIOUS
<1>1. CASE ServePoll \/ PollAnswers \/ PollFails
  BY <1>1, ServePollKeeps, PollAnswersKeeps, PollFailsKeeps
<1>2. CASE \/ ServeRestore \/ Restore \/ RestoreFails \/ SaveTimer \/ Reload
           \/ \E k \in DOMAIN posts : PostArrives(k) \/ PostFails(k)
  BY <1>2, ServeRestoreKeeps, RestoreKeeps, RestoreFailsKeeps, SaveTimerKeeps, PostArrivesKeeps, PostFailsKeeps,
     ReloadKeeps
<1>3. ASSUME NEW c \in Convs, OpenTab(c) \/ Fold(c) \/ ConfirmDelete(c) \/ OtherDeletes(c) PROVE DeskIInv'
  BY <1>3, OpenTabKeeps, FoldKeeps, ConfirmDeleteKeeps, OtherDeletesKeeps
<1>4. ASSUME NEW f \in Files \cup Urls, OpenFile(f) PROVE DeskIInv'
  BY <1>4, OpenFileKeeps
<1>5. ASSUME NEW p \in Panels, ClosePanel(p) \/ \E i \in DOMAIN groups, own \in BOOLEAN : Drag(p, i, own)
      PROVE  DeskIInv'
  BY <1>5, ClosePanelKeeps, DragKeeps
<1>6. ASSUME NEW c \in Convs, NEW p \in Convs \cup {NoConv}, Create(c, p) \/ OtherCreates(c, p) PROVE DeskIInv'
  BY <1>6, CreateKeeps, OtherCreatesKeeps
<1>7. CASE ServeOp \/ ServeRefresh \/ Refreshed \/ RefreshFails \/ OpFails
  BY <1>7, ServeOpKeeps, ServeRefreshKeeps, RefreshedKeeps, RefreshFailsKeeps, OpFailsKeeps
<1>8. CASE UNCHANGED deskVars
  BY <1>8, DeskIdle
<1> QED
  BY <1>1, <1>2, <1>3, <1>4, <1>5, <1>6, <1>7, <1>8 DEF DeskNext

LEMMA DeskImplied == DeskIInv => DeskInv
<1> SUFFICES ASSUME DeskIInv PROVE DeskInv
  OBVIOUS
<1>1. /\ ServerOK /\ ListsOK /\ DockOK /\ PostsOK /\ RestoringOK /\ TabsHeld
      /\ PanelsHaveSessions /\ SplitKept /\ OpOK /\ DeleteKept /\ left \in DeskBudgetType
  BY DEF DeskIInv, DeskRest
<1>2. born \in ConvMaps /\ DOMAIN born \subseteq Convs
  BY <1>1 DEF ServerOK, ConvMaps
<1>3. DeskTypeOK
  <2>1. sessions \in ConvMaps /\ list \in ConvMaps /\ poll.ids \in ConvMaps
    BY <1>1 DEF ServerOK, ListsOK, FromServer
  <2>2. {loadedOnce, connected, saving, poll.served} \subseteq BOOLEAN
    BY <1>1 DEF ListsOK, DockOK
  <2>3. op.kind \in {"none", "create", "delete"} /\ op.stage \in {"none", "posted", "refresh", "refreshed"}
    BY <1>1 DEF OpOK
  <2>4. phase \in {"restoring", "ready"} /\ fetched.ids \subseteq Convs /\ wanted \subseteq Convs
    BY <1>1, <1>2 DEF DockOK, RestoringOK
  <2>5. groups \in Seq((SUBSET Panels) \ {{}}) /\ \A i, j \in DOMAIN groups : i # j => groups[i] \cap groups[j] = {}
    BY <1>1, LenProperties DEF DockOK, IsGroups
  <2>6. \A g \in Range(groups) : g \in (SUBSET Panels) \ {{}}
    BY <2>5, LenProperties, ElementOfSeq DEF Range
  <2>7. DOMAIN owner = Docked(groups) \cap Files /\ Range(owner) \subseteq Convs \cup {NoConv}
    <3>1. owner \in [Docked(groups) \cap Files -> Convs \cup {NoConv}]
      BY <1>1 DEF DockOK, OwnersFit
    <3> QED
      BY <3>1, RangeIn
  <2>8. Range(override) \subseteq BOOLEAN
    <3>1. override \in [DOMAIN override -> BOOLEAN]
      BY <1>1 DEF DockOK
    <3> QED
      BY <3>1, RangeIn
  <2> QED
    BY <1>1, <2>1, <2>2, <2>3, <2>4, <2>5, <2>6, <2>7, <2>8 DEF DeskTypeOK, PostsOK
<1>4. TabsStay
  BY <1>1 DEF TabsHeld, TabsStay
<1>5. SavedTabsStay
  BY <1>1 DEF TabsHeld, Newest, SavedTabsStay
<1>6. DeletedIsClosed
  BY <1>1 DEF DeleteKept, DeletedIsClosed
<1> QED
  BY <1>1, <1>3, <1>4, <1>5, <1>6 DEF DeskInv

\* A row whose automatic value turns is shown with it.
Revealed ==
  \A r \in DOMAIN list \cap DOMAIN list' :
    AutoExpanded[r] # AutoExpanded'[r] => Expanded(r)' = AutoExpanded'[r]

LEMMA AutoDomain == ASSUME NEW ids, NEW g, NEW o PROVE DOMAIN AutoExpand(ids, g, o) = DOMAIN ids
BY DEF AutoExpand

LEMMA CommitReveals ==
  ASSUME NEW g, NEW o, NEW ids, NEW once, NEW up, NEW next, Commit(g, o, ids, once, up, next)
  PROVE  Revealed
<1>1. PICK g2, o1 :
        /\ list' = ids /\ phase' = next /\ groups' = g2 /\ owner' = o1
        /\ Discard(AutoExpand(ids, IF next = "ready" THEN g2 ELSE <<>>, IF next = "ready" THEN o1 ELSE <<>>))
  BY DEF Commit
<1> PICK auto : auto = AutoExpand(ids, IF next = "ready" THEN g2 ELSE <<>>, IF next = "ready" THEN o1 ELSE <<>>)
  OBVIOUS
<1>2. AutoExpanded' = auto
  BY <1>1 DEF AutoExpanded, KnownGroups, KnownOwner
<1>3. DOMAIN auto = DOMAIN list' /\ DOMAIN AutoExpanded = DOMAIN list
  BY <1>1, AutoDomain DEF AutoExpanded
<1>4. override' = Restrict(override, DOMAIN override \ StaleOverrides(AutoExpanded, auto))
  BY <1>1 DEF Discard
<1>5. DOMAIN override' = DOMAIN override \ StaleOverrides(AutoExpanded, auto)
  BY <1>4 DEF Restrict
<1>6. ASSUME NEW r \in DOMAIN list \cap DOMAIN list', AutoExpanded[r] # auto[r] PROVE Expanded(r)' = AutoExpanded'[r]
  <2>1. r \in StaleOverrides(AutoExpanded, auto)
    BY <1>3, <1>6 DEF StaleOverrides
  <2>2. r \notin DOMAIN override'
    BY <1>5, <2>1
  <2> QED
    BY <2>2 DEF Expanded
<1> QED
  BY <1>2, <1>6 DEF Revealed

LEMMA RestReveals == ASSUME UNCHANGED <<list, phase, groups, owner>> PROVE Revealed
<1>1. AutoExpanded' = AutoExpanded
  BY DEF AutoExpanded, KnownGroups, KnownOwner
<1> QED
  BY <1>1 DEF Revealed

LEMMA DockReveals == ASSUME NEW g, NEW o, Dock(g, o) PROVE Revealed
<1>1. CASE phase = "ready"
  BY <1>1, CommitReveals DEF Dock
<1>2. CASE phase # "ready"
  <2>1. UNCHANGED <<list, phase>>
    BY <1>2 DEF Dock, listVars
  <2>2. AutoExpanded' = AutoExpanded
    BY <1>2, <2>1 DEF AutoExpanded, KnownGroups, KnownOwner
  <2> QED
    BY <2>2 DEF Revealed
<1> QED
  BY <1>1, <1>2

LEMMA RevealStep == [DeskNext]_deskVars => Revealed
<1> SUFFICES ASSUME [DeskNext]_deskVars PROVE Revealed
  OBVIOUS
<1>1. CASE \/ ServePoll \/ ServeRestore \/ SaveTimer \/ ServeOp \/ ServeRefresh \/ OpFails
           \/ \E k \in DOMAIN posts : PostArrives(k) \/ PostFails(k)
  <2>1. UNCHANGED <<list, phase, groups, owner>>
    BY <1>1 DEF ServePoll, ServeRestore, SaveTimer, PostArrives, PostFails, ServeOp, ServeRefresh, OpFails, listVars, dockVars
  <2> QED
    BY <2>1, RestReveals
<1>2. CASE PollAnswers \/ PollFails \/ Restore \/ RestoreFails
  BY <1>2, CommitReveals DEF PollAnswers, Apply, PollFails, Offline, Restore, RestoreFails
<1>3. CASE Reload
  <2>1. DOMAIN list' = {}
    BY <1>3, EmptyMap DEF Reload
  <2> QED
    BY <2>1 DEF Revealed
<1>4. ASSUME NEW c \in Convs, OpenTab(c) \/ Fold(c) \/ ConfirmDelete(c) \/ OtherDeletes(c) PROVE Revealed
  <2>1. CASE Fold(c) \/ OtherDeletes(c)
    <3>1. UNCHANGED <<list, phase, groups, owner>>
      BY <2>1 DEF Fold, OtherDeletes, listVars, dockVars
    <3> QED
      BY <3>1, RestReveals
  <2>2. CASE OpenTab(c)
    <3>1. PICK g \in Placed(groups, c, "agent") : Dock(g, owner)
      BY <2>2 DEF OpenTab
    <3> QED
      BY <3>1, DockReveals
  <2>3. CASE ConfirmDelete(c)
    BY <2>3, DockReveals DEF ConfirmDelete
  <2> QED
    BY <1>4, <2>1, <2>2, <2>3
<1>5. ASSUME NEW f \in Files \cup Urls, OpenFile(f) PROVE Revealed
  BY <1>5, DockReveals DEF OpenFile
<1>6. ASSUME NEW p \in Panels, ClosePanel(p) \/ \E i \in DOMAIN groups, own \in BOOLEAN : Drag(p, i, own)
      PROVE  Revealed
  BY <1>6, DockReveals DEF ClosePanel, Drag
<1>7. ASSUME NEW c \in Convs, NEW p \in Convs \cup {NoConv}, Create(c, p) \/ OtherCreates(c, p) PROVE Revealed
  <2>1. UNCHANGED <<list, phase, groups, owner>>
    BY <1>7 DEF Create, OtherCreates, listVars, dockVars
  <2> QED
    BY <2>1, RestReveals
<1>8. CASE Refreshed \/ RefreshFails
  <2>1. PICK ids, up : EndOp(ids, up)
    BY <1>8 DEF Refreshed, RefreshFails
  <2>2. \E g : Commit(g, owner, ids, loadedOnce \/ up, up, phase)
    BY <2>1 DEF EndOp
  <2> QED
    BY <2>2, CommitReveals
<1>9. CASE UNCHANGED deskVars
  <2>1. UNCHANGED <<list, phase, groups, owner>>
    BY <1>9 DEF deskVars, listVars, dockVars
  <2> QED
    BY <2>1, RestReveals
<1> QED
  BY <1>1, <1>2, <1>3, <1>4, <1>5, <1>6, <1>7, <1>8, <1>9 DEF DeskNext

\* The order of the groups, without their kinds.
AgentSide(S) == S \subseteq Convs
FileSide(S) == S \cap Convs = {}
Ordered(g) ==
  /\ \A i \in 1 .. Len(g) : AgentSide(g[i]) \/ FileSide(g[i])
  /\ \A i, j \in 1 .. Len(g) : i < j => ~ (FileSide(g[i]) /\ AgentSide(g[j]))
Undivided(g) == \A i, j \in 1 .. Len(g) : AgentSide(g[i]) /\ AgentSide(g[j]) => i = j

LEMMA SideIs ==
  ASSUME NEW S, S # {}
  PROVE  /\ KindOf(S) = "agent" <=> AgentSide(S)
         /\ KindOf(S) = "file" <=> FileSide(S)
         /\ ~ (AgentSide(S) /\ FileSide(S))
         /\ KindOf(S) = "mixed" <=> ~ AgentSide(S) /\ ~ FileSide(S)
BY DEF KindOf, AgentSide, FileSide

LEMMA GroupsHold ==
  ASSUME NEW g, IsGroups(g)
  PROVE  /\ Len(g) \in Nat /\ DOMAIN g = 1 .. Len(g)
         /\ \A i \in 1 .. Len(g) : g[i] # {}
<1>1. g \in Seq((SUBSET Panels) \ {{}})
  BY DEF IsGroups
<1>2. Len(g) \in Nat /\ g \in [1 .. Len(g) -> (SUBSET Panels) \ {{}}]
  BY <1>1, LenProperties
<1> QED
  BY <1>2

LEMMA OrderIs ==
  ASSUME NEW g, IsGroups(g)
  PROVE  (InOrder(g) <=> Ordered(g)) /\ (Together(g) <=> Undivided(g))
<1>1. DOMAIN g = 1 .. Len(g) /\ \A i \in 1 .. Len(g) : g[i] # {}
  BY GroupsHold
<1>2. \A i \in 1 .. Len(g) :
        /\ KindOf(g[i]) = "agent" <=> AgentSide(g[i])
        /\ KindOf(g[i]) = "file" <=> FileSide(g[i])
        /\ KindOf(g[i]) = "mixed" <=> ~ AgentSide(g[i]) /\ ~ FileSide(g[i])
  BY <1>1, SideIs
<1>3. InOrder(g) <=> Ordered(g)
  BY <1>1, <1>2 DEF InOrder, Ordered
<1>4. Together(g) <=> Undivided(g)
  BY <1>1, <1>2 DEF Together, Undivided
<1> QED
  BY <1>3, <1>4

\* Groups that lose panels stay in order.
LEMMA ThinnedOrder ==
  ASSUME NEW g, IsGroups(g), NEW P, NEW w, w = Without(g, P)
  PROVE  (Ordered(g) => Ordered(w)) /\ (Ordered(g) /\ Undivided(g) => Undivided(w))
<1>1. IsGroups(w) /\ \E pos : Thinned(w, g, P, pos)
  BY WithoutThins
<1>2. PICK pos : Thinned(w, g, P, pos)
  BY <1>1
<1> SUFFICES ASSUME Ordered(g) PROVE Ordered(w) /\ (Undivided(g) => Undivided(w))
  OBVIOUS
<1> PICK m \in Nat : m = Len(w)
  BY <1>1, GroupsHold
<1> PICK n \in Nat : n = Len(g)
  BY GroupsHold
<1>3. /\ pos \in [1 .. m -> 1 .. n]
      /\ \A i \in 1 .. m : w[i] = g[pos[i]] \ P /\ w[i] # {}
      /\ \A i, j \in 1 .. m : i < j => pos[i] < pos[j]
  BY <1>2 DEF Thinned
<1>4. ASSUME NEW i \in 1 .. m
      PROVE  /\ pos[i] \in 1 .. n
             /\ AgentSide(g[pos[i]]) \/ FileSide(g[pos[i]])
             /\ AgentSide(g[pos[i]]) <=> AgentSide(w[i])
             /\ FileSide(g[pos[i]]) <=> FileSide(w[i])
  <2>1. pos[i] \in 1 .. n
    BY <1>3
  <2>2. AgentSide(g[pos[i]]) \/ FileSide(g[pos[i]])
    BY <2>1 DEF Ordered
  <2>3. w[i] = g[pos[i]] \ P /\ w[i] # {}
    BY <1>3
  <2> QED
    BY <2>1, <2>2, <2>3 DEF AgentSide, FileSide
<1>5. \A i \in 1 .. m : AgentSide(w[i]) \/ FileSide(w[i])
  BY <1>4
<1>6. ASSUME NEW i \in 1 .. m, NEW j \in 1 .. m, i < j PROVE ~ (FileSide(w[i]) /\ AgentSide(w[j]))
  <2>1. pos[i] < pos[j] /\ pos[i] \in 1 .. n /\ pos[j] \in 1 .. n
    BY <1>3, <1>4, <1>6
  <2> QED
    BY <1>4, <2>1 DEF Ordered
<1>7. ASSUME Undivided(g), NEW i \in 1 .. m, NEW j \in 1 .. m, AgentSide(w[i]), AgentSide(w[j]) PROVE i = j
  <2>1. pos[i] = pos[j] /\ pos[i] \in 1 .. n
    BY <1>4, <1>7 DEF Undivided
  <2>2. ~ (i < j) /\ ~ (j < i)
    <3>1. ~ (pos[i] < pos[j]) /\ ~ (pos[j] < pos[i])
      BY <2>1
    <3> QED
      BY <1>3, <3>1
  <2> QED
    BY <2>2
<1>8. Ordered(w)
  BY <1>5, <1>6 DEF Ordered
<1>9. Undivided(g) => Undivided(w)
  BY <1>7 DEF Undivided
<1> QED
  BY <1>8, <1>9

LEMMA NoneFirst ==
  ASSUME NEW g, IsGroups(g), NEW kind, First(g, kind) = {}
  PROVE  \A i \in 1 .. Len(g) : KindOf(g[i]) # kind
<1>1. Len(g) \in Nat /\ DOMAIN g = 1 .. Len(g)
  BY GroupsHold
<1> SUFFICES ASSUME NEW i \in 1 .. Len(g), KindOf(g[i]) = kind PROVE FALSE
  OBVIOUS
<1> PICK T : T = {k \in 1 .. Len(g) : KindOf(g[k]) = kind}
  OBVIOUS
<1>2. T \in SUBSET Nat /\ T # {}
  OBVIOUS
<1>3. PICK k \in T : \A m \in T : k <= m
  BY <1>2, LeastNat
<1>4. k \in 1 .. Len(g) /\ KindOf(g[k]) = kind
  BY <1>3
<1>5. ASSUME NEW j \in 1 .. k - 1 PROVE KindOf(g[j]) # kind
  <2>1. j \in 1 .. Len(g) /\ ~ (k <= j)
    BY <1>1, <1>4
  <2> QED
    BY <1>3, <2>1
<1>6. k \in First(g, kind)
  BY <1>1, <1>4, <1>5 DEF First
<1> QED
  BY <1>6

\* A panel that joins a group of its own kind.
LEMMA JoinedOrder ==
  ASSUME NEW g, IsGroups(g), NEW i \in 1 .. Len(g), NEW p, NEW w, Extended(w, g, i, p),
         IF p \in Convs THEN AgentSide(g[i]) ELSE FileSide(g[i]), Ordered(g)
  PROVE  Ordered(w) /\ (Undivided(g) => Undivided(w))
<1> PICK n \in Nat : n = Len(g)
  BY GroupsHold
<1>1. Len(w) = n /\ \A k \in 1 .. n : w[k] = IF k = i THEN g[k] \cup {p} ELSE g[k]
  BY DEF Extended
<1>2. \A k \in 1 .. n : g[k] # {}
  BY GroupsHold
<1>3. ASSUME NEW k \in 1 .. n
      PROVE  (AgentSide(w[k]) <=> AgentSide(g[k])) /\ (FileSide(w[k]) <=> FileSide(g[k]))
  <2>1. CASE k = i
    BY <1>1, <1>2, <2>1 DEF AgentSide, FileSide
  <2>2. CASE k # i
    BY <1>1, <2>2
  <2> QED
    BY <2>1, <2>2
<1> QED
  BY <1>1, <1>3 DEF Ordered, Undivided

LEMMA AgentPlaced ==
  ASSUME NEW g, IsGroups(g), Ordered(g), NEW p \in Convs, NEW w \in Placed(g, p, "agent")
  PROVE  Ordered(w) /\ (Undivided(g) => Undivided(w))
<1> PICK n \in Nat : n = Len(g)
  BY GroupsHold
<1>1. g \in Seq((SUBSET Panels) \ {{}}) /\ DOMAIN g = 1 .. n /\ \A k \in 1 .. n : g[k] # {}
  BY GroupsHold DEF IsGroups
<1>2. p \in Panels /\ {p} \in (SUBSET Panels) \ {{}}
  BY DEF Panels
<1>3. \A k \in 1 .. n : /\ KindOf(g[k]) = "agent" <=> AgentSide(g[k])
                        /\ KindOf(g[k]) = "file" <=> FileSide(g[k])
                        /\ AgentSide(g[k]) \/ FileSide(g[k])
  BY <1>1, SideIs DEF Ordered
<1>4. AgentSide({p}) /\ ~ FileSide({p})
  BY DEF AgentSide, FileSide
<1> DEFINE same == First(g, "agent")
           other == First(g, "file")
<1>5. CASE same # {}
  <2>1. PICK i \in same : w = [g EXCEPT ![i] = @ \cup {p}]
    BY <1>5 DEF Placed
  <2>2. i \in 1 .. n /\ AgentSide(g[i])
    BY <1>1, <1>3, FirstIsPlace
  <2>3. Extended(w, g, i, p)
    BY <1>1, <1>2, <2>1, <2>2, AddedTo
  <2> QED
    BY <2>2, <2>3, JoinedOrder
<1>6. CASE same = {}
  <2>1. \A k \in 1 .. n : ~ AgentSide(g[k]) /\ FileSide(g[k])
    BY <1>3, <1>6, NoneFirst
  <2>2. CASE other # {}
    <3>1. PICK i \in other : w = InsertAt(g, i, {p})
      BY <1>6, <2>2 DEF Placed
    <3>2. i \in 1 .. n /\ \A j \in 1 .. i - 1 : KindOf(g[j]) # "file"
      BY <1>1, FirstIsPlace
    <3>3. i = 1
      <4>1. ASSUME i # 1 PROVE FALSE
        <5>1. 1 \in 1 .. n /\ 1 \in 1 .. i - 1
          BY <3>2, <4>1
        <5> QED
          BY <1>3, <2>1, <3>2, <5>1
      <4> QED
        BY <4>1
    <3>4. Inserted(w, g, 1, {p})
      <4>1. 1 \in 1 .. (Len(g) + 1)
        OBVIOUS
      <4> QED
        BY <1>1, <1>2, <3>1, <3>3, <4>1, InsertedAt
    <3>5. Len(w) = n + 1 /\ \A k \in 1 .. (n + 1) : w[k] = IF k < 1 THEN g[k] ELSE IF k = 1 THEN {p} ELSE g[k - 1]
      BY <3>4 DEF Inserted
    <3>6. ASSUME NEW k \in 1 .. (n + 1), k # 1 PROVE ~ AgentSide(w[k]) /\ FileSide(w[k])
      <4>1. k - 1 \in 1 .. n /\ ~ (k < 1)
        BY <3>6
      <4> QED
        BY <2>1, <3>5, <3>6, <4>1
    <3>7. AgentSide(w[1]) /\ ~ FileSide(w[1])
      <4>1. w[1] = {p}
        BY <3>5
      <4> QED
        BY <1>4, <4>1
    <3> QED
      BY <3>5, <3>6, <3>7 DEF Ordered, Undivided
  <2>3. CASE other = {}
    <3>1. n = 0
      <4>1. \A k \in 1 .. n : FALSE
        BY <1>3, <2>1, <2>3, NoneFirst
      <4>2. n # 0 => 1 \in 1 .. n
        OBVIOUS
      <4> QED
        BY <4>1, <4>2
    <3>2. g = <<>>
      BY <1>1, <3>1, EmptySeq
    <3>3. w = <<{p}>>
      BY <1>6, <2>3, <3>2 DEF Placed
    <3>4. Len(w) = 1 /\ w[1] = {p}
      BY <3>3
    <3>5. \A k \in 1 .. 1 : k = 1
      OBVIOUS
    <3> QED
      BY <1>4, <3>4, <3>5 DEF Ordered, Undivided
  <2> QED
    BY <2>2, <2>3
<1> QED
  BY <1>5, <1>6

\* A file goes to the files, or to the right of the only group of agents.
LEMMA FilePlaced ==
  ASSUME NEW g, IsGroups(g), Ordered(g), NEW p \in Panels, p \notin Convs,
         NEW w \in Placed(g, p, "file"), First(g, "file") # {} \/ Undivided(g)
  PROVE  Ordered(w) /\ (Undivided(g) => Undivided(w))
<1> PICK n \in Nat : n = Len(g)
  BY GroupsHold
<1>1. g \in Seq((SUBSET Panels) \ {{}}) /\ DOMAIN g = 1 .. n /\ \A k \in 1 .. n : g[k] # {}
  BY GroupsHold DEF IsGroups
<1>2. {p} \in (SUBSET Panels) \ {{}}
  OBVIOUS
<1>3. \A k \in 1 .. n : /\ KindOf(g[k]) = "agent" <=> AgentSide(g[k])
                        /\ KindOf(g[k]) = "file" <=> FileSide(g[k])
                        /\ AgentSide(g[k]) \/ FileSide(g[k])
                        /\ ~ (AgentSide(g[k]) /\ FileSide(g[k]))
  BY <1>1, SideIs DEF Ordered
<1>4. ~ AgentSide({p}) /\ FileSide({p})
  BY DEF AgentSide, FileSide
<1> DEFINE same == First(g, "file")
           other == First(g, "agent")
<1>5. CASE same # {}
  <2>1. PICK i \in same : w = [g EXCEPT ![i] = @ \cup {p}]
    BY <1>5 DEF Placed
  <2>2. i \in 1 .. n /\ FileSide(g[i])
    BY <1>1, <1>3, FirstIsPlace
  <2>3. Extended(w, g, i, p)
    BY <1>1, <2>1, <2>2, AddedTo
  <2> QED
    BY <2>2, <2>3, JoinedOrder
<1>6. CASE same = {}
  <2>1. \A k \in 1 .. n : AgentSide(g[k]) /\ ~ FileSide(g[k])
    BY <1>3, <1>6, NoneFirst
  <2>2. CASE other # {}
    <3>1. PICK i \in other : w = InsertAt(g, i + 1, {p})
      BY <1>6, <2>2 DEF Placed
    <3>2. i \in 1 .. n
      BY <1>1, FirstIsPlace
    <3>3. n = 1 /\ i = 1
      <4>1. \A j, k \in 1 .. n : j = k
        BY <1>6, <2>1 DEF Undivided
      <4>2. 1 \in 1 .. n /\ n \in 1 .. n
        BY <3>2
      <4> QED
        BY <3>2, <4>1, <4>2
    <3>4. Inserted(w, g, 2, {p})
      <4>1. 2 \in 1 .. (Len(g) + 1) /\ i + 1 = 2
        BY <3>3
      <4> QED
        BY <1>1, <1>2, <3>1, <4>1, InsertedAt
    <3>5. Len(w) = 2 /\ \A k \in 1 .. 2 : w[k] = IF k < 2 THEN g[k] ELSE IF k = 2 THEN {p} ELSE g[k - 1]
      <4>1. /\ Len(w) = Len(g) + 1
            /\ \A k \in 1 .. Len(w) : w[k] = IF k < 2 THEN g[k] ELSE IF k = 2 THEN {p} ELSE g[k - 1]
        BY <3>4 DEF Inserted
      <4>2. Len(g) = 1
        BY <3>3
      <4>3. Len(w) = 2
        BY <4>1, <4>2
      <4> QED
        BY <4>1, <4>3
    <3>6. AgentSide(w[1]) /\ ~ FileSide(w[1])
      <4>1. w[1] = g[1] /\ 1 \in 1 .. n
        BY <3>3, <3>5
      <4> QED
        BY <2>1, <4>1
    <3>7. ~ AgentSide(w[2]) /\ FileSide(w[2])
      <4>1. w[2] = {p}
        BY <3>5
      <4> QED
        BY <1>4, <4>1
    <3>8. \A k \in 1 .. 2 : k = 1 \/ k = 2
      OBVIOUS
    <3>9. Ordered(w)
      <4>1. \A k \in 1 .. 2 : AgentSide(w[k]) \/ FileSide(w[k])
        BY <3>6, <3>7, <3>8
      <4>2. ASSUME NEW j \in 1 .. 2, NEW k \in 1 .. 2, j < k PROVE ~ (FileSide(w[j]) /\ AgentSide(w[k]))
        <5>1. j = 1
          BY <4>2
        <5> QED
          BY <3>6, <5>1
      <4> QED
        BY <3>5, <4>1, <4>2 DEF Ordered
    <3> QED
      BY <3>5, <3>7, <3>8, <3>9 DEF Undivided
  <2>3. CASE other = {}
    <3>1. n = 0
      <4>1. \A k \in 1 .. n : FALSE
        BY <1>3, <2>1, <2>3, NoneFirst
      <4>2. n # 0 => 1 \in 1 .. n
        OBVIOUS
      <4> QED
        BY <4>1, <4>2
    <3>2. g = <<>>
      BY <1>1, <3>1, EmptySeq
    <3>3. w = <<{p}>>
      BY <1>6, <2>3, <3>2 DEF Placed
    <3>4. Len(w) = 1 /\ w[1] = {p}
      BY <3>3
    <3>5. \A k \in 1 .. 1 : k = 1
      OBVIOUS
    <3> QED
      BY <1>4, <3>4, <3>5 DEF Ordered, Undivided
  <2> QED
    BY <2>2, <2>3
<1> QED
  BY <1>5, <1>6

\* The split is made anew only beside agents that are together.
LEMMA SplitOrder ==
  ASSUME NEW g, IsGroups(g), Ordered(g), NEW w \in Split(g),
         Undivided(g) \/ Docked(w) \cap (Files \cup Urls) # {}
  PROVE  Ordered(w)
<1>1. Placeholder \in Panels /\ Placeholder \notin Convs /\ Files \cup Urls \subseteq Panels \ {Placeholder}
  BY DeskAssumption DEF Panels
<1>2. \/ w = Without(g, {Placeholder})
      \/ w = g
      \/ Docked(g) \cap (Files \cup Urls) = {} /\ w \in Placed(g, Placeholder, "file")
  BY DEF Split
<1>3. CASE w = Without(g, {Placeholder})
  BY <1>3, ThinnedOrder
<1>4. CASE Docked(g) \cap (Files \cup Urls) = {} /\ w \in Placed(g, Placeholder, "file")
  <2>1. \A p \in Panels \ {Placeholder} : p \in Docked(w) <=> p \in Docked(g)
    BY SplitDocks
  <2>2. Docked(w) \cap (Files \cup Urls) = {}
    BY <1>1, <1>4, <2>1
  <2> QED
    BY <1>1, <1>4, <2>2, FilePlaced
<1> QED
  BY <1>2, <1>3, <1>4

\* What the page does keeps the order, if the agents are together or a file is left.
MayDivide(g) == Undivided(g) \/ (phase = "ready" /\ Docked(groups') \cap (Files \cup Urls) # {})

LEMMA CommitSorts ==
  ASSUME NEW g, IsGroups(g), Ordered(g), NEW o, NEW ids, NEW once, NEW up, NEW next,
         Commit(g, o, ids, once, up, next), MayDivide(g)
  PROVE  IsGroups(groups') /\ Ordered(groups')
<1>1. PICK torn, g2 : /\ g2 \in IF next = "ready" THEN Split(Without(g, torn)) ELSE {Without(g, torn)}
                      /\ groups' = g2
  BY DEF Commit
<1> PICK g1 : g1 = Without(g, torn)
  OBVIOUS
<1>2. IsGroups(g1) /\ Ordered(g1) /\ (Undivided(g) => Undivided(g1))
  BY WithoutDocks, ThinnedOrder
<1>3. CASE next = "ready"
  <2>1. groups' \in Split(g1)
    BY <1>1, <1>3
  <2>2. Undivided(g1) \/ Docked(groups') \cap (Files \cup Urls) # {}
    BY <1>2 DEF MayDivide
  <2> QED
    BY <1>2, <2>1, <2>2, SplitOrder, SplitDocks
<1>4. CASE next # "ready"
  BY <1>1, <1>2, <1>4
<1> QED
  BY <1>3, <1>4

LEMMA DockSorts ==
  ASSUME NEW g, IsGroups(g), Ordered(g), NEW o, Dock(g, o), MayDivide(g)
  PROVE  IsGroups(groups') /\ Ordered(groups')
<1>1. CASE phase = "ready"
  BY <1>1, CommitSorts DEF Dock
<1>2. CASE phase # "ready"
  BY <1>2 DEF Dock
<1> QED
  BY <1>1, <1>2

\* Agents the user has dragged apart have a file side, by the split.
LEMMA FilesAreThere ==
  ASSUME NEW g, IsGroups(g), Ordered(g), ~ Undivided(g), HasSides(g) PROVE First(g, "file") # {}
<1>1. g \in Seq((SUBSET Panels) \ {{}}) /\ \A i \in 1 .. Len(g) : g[i] # {}
  BY GroupsHold DEF IsGroups
<1>2. \A p : p \in Docked(g) <=> \E i \in 1 .. Len(g) : p \in g[i]
  BY <1>1, InDocked
<1>3. PICK i \in 1 .. Len(g) : AgentSide(g[i])
  BY DEF Undivided
<1>4. PICK c : c \in g[i]
  BY <1>1
<1>5. c \in Docked(g) \cap Convs
  BY <1>2, <1>3, <1>4 DEF AgentSide
<1>6. PICK p \in Docked(g) : p \notin Convs
  BY <1>5 DEF HasSides
<1>7. PICK j \in 1 .. Len(g) : p \in g[j]
  BY <1>2
<1>8. FileSide(g[j])
  BY <1>6, <1>7 DEF Ordered, AgentSide
<1>9. KindOf(g[j]) = "file"
  BY <1>1, <1>8, SideIs
<1> QED
  BY <1>9, NoneFirst

\* A step that restores no layout and drags nothing keeps agents to the left.
Leftward ==
  /\ Sorted /\ phase' = phase /\ left'.drag = left.drag
  /\ Together(groups) \/ (phase = "ready" /\ Docked(groups') \cap (Files \cup Urls) # {})
  => Sorted'

LEMMA SortedIs ==
  ASSUME DeskIInv
  PROVE  /\ IsGroups(groups) /\ (Sorted <=> Ordered(groups))
         /\ (Together(groups) <=> Undivided(groups))
BY OrderIs DEF DeskIInv, DeskRest, DockOK, Sorted

LEMMA LeftwardIs ==
  ASSUME DeskIInv,
         ASSUME Ordered(groups), phase' = phase, left'.drag = left.drag, MayDivide(groups)
         PROVE  IsGroups(groups') /\ Ordered(groups')
  PROVE  Leftward
<1> SUFFICES ASSUME Sorted, phase' = phase, left'.drag = left.drag,
                    Together(groups) \/ (phase = "ready" /\ Docked(groups') \cap (Files \cup Urls) # {})
             PROVE  Sorted'
  BY DEF Leftward
<1>1. Ordered(groups) /\ MayDivide(groups)
  BY SortedIs DEF MayDivide
<1>2. IsGroups(groups') /\ Ordered(groups')
  BY <1>1
<1>3. InOrder(groups')
  BY <1>2, OrderIs
<1> QED
  BY <1>3 DEF Sorted

LEMMA RestSorts == ASSUME DeskIInv, UNCHANGED groups PROVE Leftward
BY DEF Leftward, Sorted, InOrder, KindOf

LEMMA SortStep == DeskIInv /\ [DeskNext]_deskVars => Leftward
<1> SUFFICES ASSUME DeskIInv, [DeskNext]_deskVars PROVE Leftward
  OBVIOUS
<1>0. IsGroups(groups) /\ Convs \subseteq Panels /\ Files \cup Urls \subseteq Panels /\ (Files \cup Urls) \cap Convs = {}
  BY SortedIs, DeskAssumption DEF Panels
<1>1. CASE \/ ServePoll \/ ServeRestore \/ SaveTimer \/ ServeOp \/ ServeRefresh \/ OpFails
           \/ \E k \in DOMAIN posts : PostArrives(k) \/ PostFails(k)
  <2>1. UNCHANGED groups
    BY <1>1 DEF ServePoll, ServeRestore, SaveTimer, PostArrives, PostFails, ServeOp, ServeRefresh, OpFails, dockVars
  <2> QED
    BY <2>1, RestSorts
<1>2. CASE PollAnswers \/ PollFails
  <2>1. \E o, ids, once, up, next : Commit(groups, o, ids, once, up, next)
    BY <1>2 DEF PollAnswers, Apply, PollFails, Offline
  <2> QED
    BY <1>0, <2>1, CommitSorts, LeftwardIs
<1>3. CASE Restore \/ RestoreFails
  <2>1. phase = "restoring" /\ phase' = "ready"
    BY <1>3 DEF Restore, RestoreFails, Commit
  <2> QED
    BY <2>1 DEF Leftward
<1>4. CASE Reload
  <2>1. groups' = <<>> /\ Len(<<>>) = 0 /\ (<<>> \in Seq((SUBSET Panels) \ {{}}))
    BY <1>4 DEF Reload
  <2>2. IsGroups(groups') /\ Ordered(groups')
    BY <2>1 DEF IsGroups, Ordered
  <2> QED
    BY <2>2, LeftwardIs
<1>5. ASSUME NEW c \in Convs, OpenTab(c) \/ Fold(c) \/ ConfirmDelete(c) \/ OtherDeletes(c) PROVE Leftward
  <2>1. CASE Fold(c) \/ OtherDeletes(c)
    <3>1. UNCHANGED groups
      BY <2>1 DEF Fold, OtherDeletes, dockVars
    <3> QED
      BY <3>1, RestSorts
  <2>2. CASE OpenTab(c)
    <3>1. PICK g \in Placed(groups, c, "agent") : c \notin Docked(groups) /\ Dock(g, owner)
      BY <2>2 DEF OpenTab
    <3>2. IsGroups(g)
      BY <1>0, <3>1, PlacedDocks
    <3>3. ASSUME Ordered(groups), MayDivide(groups) PROVE IsGroups(groups') /\ Ordered(groups')
      <4>1. Ordered(g) /\ MayDivide(g)
        BY <1>0, <3>3, AgentPlaced DEF MayDivide
      <4> QED
        BY <3>1, <3>2, <4>1, DockSorts
    <3> QED
      BY <3>3, LeftwardIs
  <2>3. CASE ConfirmDelete(c)
    <3>1. PICK closing, o : Dock(Without(groups, closing), o)
      BY <2>3 DEF ConfirmDelete
    <3> PICK g : g = Without(groups, closing)
      OBVIOUS
    <3>2. ASSUME Ordered(groups), MayDivide(groups) PROVE IsGroups(groups') /\ Ordered(groups')
      <4>1. IsGroups(g) /\ Ordered(g) /\ MayDivide(g)
        BY <1>0, <3>2, WithoutDocks, ThinnedOrder DEF MayDivide
      <4> QED
        BY <3>1, <4>1, DockSorts
    <3> QED
      BY <3>2, LeftwardIs
  <2> QED
    BY <1>5, <2>1, <2>2, <2>3
<1>6. ASSUME NEW f \in Files \cup Urls, OpenFile(f) PROVE Leftward
  <2>1. PICK g \in Placed(groups, f, "file") : f \notin Docked(groups) /\ \E o : Dock(Retired(g, f), o)
    BY <1>6 DEF OpenFile
  <2>2. f \in Panels /\ f \notin Convs
    BY <1>0
  <2>3. IsGroups(g)
    BY <1>0, <2>1, <2>2, PlacedDocks
  <2> PICK r : r = Retired(g, f)
    OBVIOUS
  <2>4. r = g \/ r = Without(g, {Placeholder})
    BY DEF Retired
  <2>5. ASSUME Ordered(groups), MayDivide(groups) PROVE IsGroups(groups') /\ Ordered(groups')
    <3>1. First(groups, "file") # {} \/ Undivided(groups)
      <4>1. CASE Undivided(groups)
        BY <4>1
      <4>2. CASE ~ Undivided(groups)
        <5>1. phase = "ready"
          BY <2>5, <4>2 DEF MayDivide
        <5>2. HasSides(groups)
          BY <5>1 DEF DeskIInv, DeskRest, SplitKept, HasSides
        <5> QED
          BY <1>0, <2>5, <4>2, <5>2, FilesAreThere
      <4> QED
        BY <4>1, <4>2
    <3>2. Ordered(g) /\ (Undivided(groups) => Undivided(g))
      BY <1>0, <2>1, <2>2, <2>5, <3>1, FilePlaced
    <3>3. IsGroups(r) /\ Ordered(r) /\ (Undivided(g) => Undivided(r))
      BY <2>3, <2>4, <3>2, WithoutDocks, ThinnedOrder
    <3>4. MayDivide(r)
      BY <2>5, <3>2, <3>3 DEF MayDivide
    <3> QED
      BY <2>1, <3>3, <3>4, DockSorts
  <2> QED
    BY <2>5, LeftwardIs
<1>7. ASSUME NEW p \in Panels, ClosePanel(p) PROVE Leftward
  <2>1. PICK o : Dock(Without(groups, {p}), o)
    BY <1>7 DEF ClosePanel
  <2> PICK g : g = Without(groups, {p})
    OBVIOUS
  <2>2. ASSUME Ordered(groups), MayDivide(groups) PROVE IsGroups(groups') /\ Ordered(groups')
    <3>1. IsGroups(g) /\ Ordered(g) /\ MayDivide(g)
      BY <1>0, <2>2, WithoutDocks, ThinnedOrder DEF MayDivide
    <3> QED
      BY <2>1, <3>1, DockSorts
  <2> QED
    BY <2>2, LeftwardIs
<1>8. ASSUME NEW p \in Panels, NEW i, NEW own, Drag(p, i, own) PROVE Leftward
  <2>1. left \in [create : Nat, delete : Nat, others : Nat, open : Nat, files : Nat, close : Nat, drag : Nat,
                  toggle : Nat, fail : Nat, reload : Nat]
    BY DEF DeskIInv, DeskBudgetType
  <2>2. left' = [left EXCEPT !.drag = @ - 1]
    BY <1>8 DEF Drag, Afford
  <2>3. left'.drag # left.drag
    BY <2>1, <2>2
  <2> QED
    BY <2>3 DEF Leftward
<1>9. ASSUME NEW c \in Convs, NEW p \in Convs \cup {NoConv}, Create(c, p) \/ OtherCreates(c, p) PROVE Leftward
  <2>1. UNCHANGED groups
    BY <1>9 DEF Create, OtherCreates, dockVars
  <2> QED
    BY <2>1, RestSorts
<1>10. CASE Refreshed \/ RefreshFails
  <2>1. PICK ids, up : EndOp(ids, up)
    BY <1>10 DEF Refreshed, RefreshFails
  <2>2. CASE op.kind = "create" /\ op.id \notin Docked(groups)
    <3>1. op.id \in Convs /\ op.id \in Panels
      BY <1>0, <2>2 DEF DeskIInv, OpOK
    <3>2. PICK g \in Placed(groups, op.id, "agent") : Commit(g, owner, ids, loadedOnce \/ up, up, phase)
      BY <2>1, <2>2 DEF EndOp
    <3>3. IsGroups(g)
      BY <1>0, <2>2, <3>1, <3>2, PlacedDocks
    <3>4. ASSUME Ordered(groups), MayDivide(groups) PROVE IsGroups(groups') /\ Ordered(groups')
      <4>1. Ordered(g) /\ MayDivide(g)
        BY <1>0, <3>1, <3>4, AgentPlaced DEF MayDivide
      <4> QED
        BY <3>2, <3>3, <4>1, CommitSorts
    <3> QED
      BY <3>4, LeftwardIs
  <2>3. CASE ~ (op.kind = "create" /\ op.id \notin Docked(groups))
    <3>1. Commit(groups, owner, ids, loadedOnce \/ up, up, phase)
      BY <2>1, <2>3 DEF EndOp
    <3> QED
      BY <1>0, <3>1, CommitSorts, LeftwardIs
  <2> QED
    BY <2>2, <2>3
<1>11. CASE UNCHANGED deskVars
  <2>1. UNCHANGED groups
    BY <1>11 DEF deskVars, dockVars
  <2> QED
    BY <2>1, RestSorts
<1> QED
  BY <1>1, <1>2, <1>3, <1>4, <1>5, <1>6, <1>7, <1>8, <1>9, <1>10, <1>11 DEF DeskNext

-----------------------------------------------------------------------------
(* Viewer *)

Trees == [of : Versions, drawn : BOOLEAN] \cup {NoTree}
Searches == [on : Trees, pattern : Patterns, at : Nat]
Requests ==
  [by : Views, what : {"load", "look", "tag"}, stage : {"sent", "tagged", "served", "headers"},
   tag : Versions \cup {None}, text : Versions \cup {None}, asked : Versions \cup {None}]

FileTypes ==
  /\ play \in ViewPlans /\ mounted \subseteq DOMAIN play.kinds
  /\ disk \in [Views -> Versions]
  /\ etag \in [Views -> Versions \cup {None}]
  /\ content \in [Views -> Versions \cup {None}]
  /\ seen \in [Views -> Versions \cup {None}]
  /\ fetching \in [Views -> BOOLEAN] /\ failure \in [Views -> BOOLEAN]
  /\ muddled \in [Views -> BOOLEAN]
  /\ requests \subseteq Requests

FindTypes ==
  /\ mounted \subseteq Views
  /\ tree \in [Views -> Trees] /\ drawing \in [Views -> BOOLEAN]
  /\ bar \in [Views -> BOOLEAN] /\ pattern \in [Views -> Patterns]
  /\ adapter \in [Views -> Searches]
  /\ painted \in [by : Views \cup {"nobody"}, search : Searches]

FeedbackEnds ==
  /\ feedback \in [Views -> [shown : BOOLEAN, timers : Nat]]
  /\ \A v \in Views : feedback[v].shown => feedback[v].timers > 0

\* A request is by an open panel of the kind that makes it; a load that has its headers
\* has a text, no older than its tag, and nothing is newer than the disk.
RequestOK(r) ==
  /\ r.by \in mounted
  /\ r.what = "load" <=> Kind(r.by) # "image" /\ r.what # "look"
  /\ r.stage \in {"tagged", "headers"} => r.what = "load"
  /\ r.tag <= disk[r.by] /\ r.text <= disk[r.by] /\ r.asked <= disk[r.by]
  /\ r.stage # "sent" => r.tag # None
  /\ r.what = "load" /\ r.stage \in {"served", "headers"} => r.text # None /\ r.tag <= r.text
RequestsAgree == \A r \in requests : RequestOK(r)

\* A panel is not newer than the disk, and a text panel that is not loading was loaded or
\* has failed.
PanelOK(v) ==
  /\ etag[v] <= disk[v] /\ content[v] <= disk[v] /\ seen[v] <= disk[v]
  /\ v \in mounted /\ ~ fetching[v] => content[v] # None \/ failure[v] \/ Kind(v) = "image"
PanelsAgree == \A v \in Views : PanelOK(v)

\* No revisit has seen more of an image than the panel, whose etag only grows.
ImageUp(v) == seen[v] <= etag[v] /\ \A r \in requests : r.by = v => r.asked <= etag[v]

OneLoad(v) ==
  \A r, s \in requests : r.by = v /\ r.what = "load" /\ s.by = v /\ s.what = "load" => r = s

\* Version m of a text is not behind what the panel remembers of it and what its looks do,
\* nor ahead of the text or the load that is under way.
Reached(v, m) ==
  /\ m <= disk[v] /\ etag[v] <= m /\ seen[v] <= m
  /\ \A r \in requests : r.by = v /\ r.what = "look" => r.asked <= m
  /\ \A r \in requests : r.by = v /\ r.what = "load" /\ r.stage # "sent" => m <= r.tag
  /\ (\A r \in requests : r.by = v => r.what # "load") => m <= content[v]

\* As long as no loads overlapped and none failed, no panel forgets what it has seen.
CatchesUp(v) ==
  v \in mounted /\ ~ muddled[v] =>
    IF Kind(v) = "image" THEN ImageUp(v) ELSE OneLoad(v) /\ \E m \in Nat : Reached(v, m)
LoadsCatchUp == \A v \in Views : CatchesUp(v)

\* A panel's search is on the tree on its screen unless diagrams are being drawn into it;
\* a bar that is closed has no pattern, a panel that is closed has no search.
FollowsTree(v) ==
  IF v \notin mounted THEN adapter[v] = NoAdapter
  ELSE /\ ~ bar[v] => pattern[v] = NoPattern
       /\ IF tree[v] = NoTree THEN adapter[v] = NoAdapter /\ ~ drawing[v]
          ELSE /\ adapter[v].on # NoTree /\ adapter[v].pattern = pattern[v]
               /\ ~ drawing[v] => adapter[v].on = tree[v]
SearchFollows == \A v \in Views : FollowsTree(v)

ViewIInv ==
  /\ FileTypes /\ RequestsAgree /\ PanelsAgree /\ LoadsCatchUp
  /\ FindTypes /\ SearchFollows /\ PaintedIsLive /\ FeedbackEnds

LEMMA ViewInitially == ViewInit => ViewIInv
<1> SUFFICES ASSUME ViewInit PROVE ViewIInv
  OBVIOUS
<1> USE ViewersAssumption, HitsAssumption, ViewPlansAssumption
    DEF ViewInit, Versions, None, NoTree, NoAdapter, Nobody
<1>1. mounted \subseteq Views
  OBVIOUS
<1>2. FileTypes
  BY <1>1 DEF FileTypes, Requests, FirstRequest, RequestOf
<1>3. FindTypes
  BY <1>1 DEF FindTypes, Trees, Searches
<1>4. RequestsAgree
  BY <1>1 DEF RequestsAgree, RequestOK, FirstRequest, RequestOf, Kind
<1>5. PanelsAgree
  <2> SUFFICES ASSUME NEW v \in Views PROVE PanelOK(v)
    BY DEF PanelsAgree
  <2>1. fetching[v] = (v \in mounted /\ Kind(v) # "image")
    BY DEF Kind
  <2>2. etag[v] = 0 /\ content[v] = 0 /\ seen[v] = 0 /\ disk[v] = 1
    OBVIOUS
  <2>3. v \in mounted /\ ~ fetching[v] => Kind(v) = "image"
    BY <2>1, Zenon
  <2> QED
    BY <2>2, <2>3 DEF PanelOK
<1>6. ASSUME NEW v \in Views, v \in mounted PROVE CatchesUp(v)
  <2>1. CASE Kind(v) = "image"
    BY <1>1, <1>6, <2>1 DEF CatchesUp, ImageUp, FirstRequest, RequestOf
  <2>2. CASE Kind(v) # "image"
    <3>1. OneLoad(v)
      BY <1>6 DEF OneLoad, FirstRequest, RequestOf
    <3>2. Reached(v, 0)
      BY <1>6, <2>2 DEF Reached, FirstRequest, RequestOf
    <3> QED
      BY <2>2, <3>1, <3>2 DEF CatchesUp
  <2> QED
    BY <2>1, <2>2
<1>7. SearchFollows /\ PaintedIsLive /\ FeedbackEnds
  BY <1>1 DEF SearchFollows, FollowsTree, PaintedIsLive, FeedbackEnds
<1> QED
  BY <1>1, <1>2, <1>3, <1>4, <1>5, <1>6, <1>7 DEF ViewIInv, LoadsCatchUp, CatchesUp

LEMMA ViewImplied == ViewIInv => ViewerTypeOK /\ RevisitsShow /\ CountIsTrue /\ PaintedIsLive
<1> SUFFICES ASSUME ViewIInv PROVE ViewerTypeOK /\ RevisitsShow /\ CountIsTrue /\ PaintedIsLive
  OBVIOUS
<1> USE ViewersAssumption, HitsAssumption, ViewPlansAssumption DEF ViewIInv
<1>1. mounted \subseteq Views
  BY DEF FindTypes
<1>2. ViewerTypeOK
  BY <1>1 DEF FileTypes, FindTypes, ViewerTypeOK, PanelsAgree, PanelOK, FeedbackEnds, Searches
<1>3. RevisitsShow
  <2> SUFFICES ASSUME NEW v \in mounted, Arrived(v), ~ muddled[v]
               PROVE IF Kind(v) = "image" THEN etag[v] >= seen[v]
                     ELSE content[v] >= seen[v] /\ content[v] >= etag[v]
    BY DEF RevisitsShow
  <2> v \in Views /\ CatchesUp(v) /\ etag[v] \in Nat /\ seen[v] \in Nat /\ content[v] \in Nat
    BY <1>1 DEF LoadsCatchUp, FileTypes, Versions, None
  <2>1. CASE Kind(v) = "image"
    BY <2>1 DEF CatchesUp, ImageUp
  <2>2. CASE Kind(v) # "image"
    <3> PICK m \in Nat : Reached(v, m)
      BY <2>2 DEF CatchesUp
    <3>1. \A r \in requests : r.by = v => r.what # "load"
      BY DEF Arrived
    <3> QED
      BY <2>2, <3>1 DEF Reached
  <2> QED
    BY <2>1, <2>2
<1>4. CountIsTrue
  BY <1>1 DEF CountIsTrue, SearchFollows, FollowsTree, Total, SearchOf, NoAdapter
<1> QED
  BY <1>2, <1>3, <1>4

\* The parts that an action leaves alone.
FilesIdle == UNCHANGED <<play, mounted, disk, etag, content, seen, fetching, failure, muddled, requests>>
FindIdle  == UNCHANGED <<mounted, tree, drawing, bar, pattern, adapter, painted>>

FilesInv == FileTypes /\ RequestsAgree /\ PanelsAgree /\ LoadsCatchUp
FindInv  == FindTypes /\ SearchFollows /\ PaintedIsLive

LEMMA FilesKept == FilesInv /\ FilesIdle => FilesInv'
  BY DEF FilesInv, FilesIdle, FileTypes, RequestsAgree, RequestOK, PanelsAgree, PanelOK,
         LoadsCatchUp, CatchesUp, ImageUp, OneLoad, Reached, Kind
LEMMA FindKept == FindInv /\ FindIdle => FindInv'
<1> SUFFICES ASSUME FindInv, FindIdle PROVE FindInv'
  OBVIOUS
<1>1. FindTypes'
  BY DEF FindInv, FindIdle, FindTypes
<1>2. SearchFollows'
  BY DEF FindInv, FindIdle, SearchFollows, FollowsTree
<1>3. PaintedIsLive'
  BY DEF FindInv, FindIdle, PaintedIsLive, Total
<1> QED
  BY <1>1, <1>2, <1>3 DEF FindInv

LEMMA FeedbackStep == FeedbackEnds /\ [ViewerNext]_viewerVars => FeedbackEnds'
<1> SUFFICES ASSUME FeedbackEnds, [ViewerNext]_viewerVars PROVE FeedbackEnds'
  OBVIOUS
<1>1. CASE UNCHANGED feedback
  BY <1>1 DEF FeedbackEnds
<1>2. ASSUME NEW v \in Views, Copy(v) PROVE FeedbackEnds'
  BY <1>2 DEF FeedbackEnds, Copy
<1>3. ASSUME NEW v \in Views, CopyTimer(v) PROVE FeedbackEnds'
  BY <1>3 DEF FeedbackEnds, CopyTimer
<1> QED
  BY <1>1, <1>2, <1>3 DEF ViewerNext, viewerVars, Revisit, WriteFile, Refresh, OpenBar, CloseBar,
    TypePattern, StepMatch, Draw, Drawn, CloseView, Serve, Looked, Tagged, Headers, Body, Fails

\* What a panel knows of its file depends on its own requests only.
Undisturbed(v) ==
  /\ UNCHANGED play /\ (v \in mounted' <=> v \in mounted)
  /\ disk'[v] = disk[v] /\ etag'[v] = etag[v] /\ content'[v] = content[v]
  /\ seen'[v] = seen[v] /\ muddled'[v] = muddled[v]
  /\ \A r : r.by = v => (r \in requests' <=> r \in requests)

LEMMA UndisturbedStays == ASSUME NEW v, Undisturbed(v), CatchesUp(v) PROVE CatchesUp(v)'
<1>1. CASE Kind(v) = "image"
  BY <1>1 DEF Undisturbed, CatchesUp, ImageUp, Kind
<1>2. CASE Kind(v) # "image"
  <2>1. OneLoad(v) => OneLoad(v)'
    BY DEF Undisturbed, OneLoad
  <2>2. ASSUME NEW m \in Nat, Reached(v, m) PROVE Reached(v, m)'
    BY <2>2 DEF Undisturbed, Reached
  <2> QED
    BY <1>2, <2>1, <2>2 DEF CatchesUp, Undisturbed, Kind
<1> QED
  BY <1>1, <1>2

FilesNumbers ==
  /\ \A v \in Views : /\ disk[v] \in Nat /\ etag[v] \in Nat /\ content[v] \in Nat /\ seen[v] \in Nat
                      /\ muddled[v] \in BOOLEAN
  /\ \A r \in requests : /\ r.by \in Views /\ r.tag \in Nat /\ r.text \in Nat /\ r.asked \in Nat
                         /\ r.what \in {"load", "look", "tag"}
                         /\ r.stage \in {"sent", "tagged", "served", "headers"}

LEMMA NumbersOfFiles == FileTypes => FilesNumbers
  BY ViewersAssumption DEF FileTypes, FilesNumbers, Requests, Versions, None

\* A later version is written.
LEMMA WriteFileKeeps == ASSUME FilesInv, NEW v \in Views, WriteFile(v) PROVE FilesInv'
<1> USE ViewersAssumption, ViewPlansAssumption DEF FilesInv, WriteFile, Plays, fileVars, findVars
<1> FilesNumbers
  BY NumbersOfFiles
<1>1. FileTypes'
  BY DEF FileTypes, Versions
<1>2. disk'[v] = disk[v] + 1 /\ \A w \in Views : w # v => disk'[w] = disk[w]
  BY DEF FileTypes
<1>3. RequestsAgree'
  <2> SUFFICES ASSUME NEW r \in requests, RequestOK(r) PROVE RequestOK(r)'
    BY DEF RequestsAgree
  <2> disk[r.by] <= disk'[r.by] /\ disk'[r.by] \in Nat
    BY <1>2 DEF FilesNumbers
  <2> QED
    BY DEF RequestOK, FilesNumbers, Kind
<1>4. PanelsAgree'
  BY <1>2 DEF PanelsAgree, PanelOK, FilesNumbers, Kind
<1>5. ASSUME NEW w \in Views PROVE CatchesUp(w)'
  <2> CatchesUp(w) /\ disk[w] <= disk'[w] /\ disk'[w] \in Nat
    BY <1>2 DEF LoadsCatchUp, FilesNumbers
  <2>1. ASSUME NEW m \in Nat, Reached(w, m) PROVE Reached(w, m)'
    BY <2>1 DEF Reached, FilesNumbers
  <2> QED
    BY <2>1 DEF CatchesUp, ImageUp, OneLoad, Kind
<1> QED
  BY <1>1, <1>3, <1>4, <1>5 DEF LoadsCatchUp

LEMMA RevisitKeeps == ASSUME FilesInv, Revisit PROVE FilesInv'
<1> USE ViewersAssumption, ViewPlansAssumption DEF FilesInv, Revisit, Plays, fileVars, findVars
<1> FilesNumbers
  BY NumbersOfFiles
<1> DEFINE LookOf(v) == RequestOf(v, "look")
<1>1. mounted \subseteq Views
  BY DEF FileTypes
<1>2. \A v \in mounted : LookOf(v) \in Requests
  BY <1>1 DEF RequestOf, Requests, FileTypes, None
<1>3. \A r \in requests' : r \in requests \/ \E v \in mounted : r = LookOf(v)
  OBVIOUS
<1>4. FileTypes'
  BY <1>2 DEF FileTypes
<1>5. RequestsAgree'
  <2>1. ASSUME NEW r \in requests PROVE RequestOK(r)'
    BY DEF RequestsAgree, RequestOK, Kind
  <2>2. ASSUME NEW v \in mounted, NEW r, r = LookOf(v) PROVE RequestOK(r)'
    <3> r.by = v /\ r.what = "look" /\ r.stage = "sent" /\ r.tag = 0 /\ r.text = 0 /\ r.asked = etag[v]
      BY <2>2 DEF RequestOf, None
    <3> QED
      BY <1>1 DEF RequestOK, Kind, PanelsAgree, PanelOK, FilesNumbers
  <2> QED
    BY <1>3, <2>1, <2>2 DEF RequestsAgree
<1>6. PanelsAgree'
  BY DEF PanelsAgree, PanelOK, Kind
<1>7. ASSUME NEW v \in Views PROVE CatchesUp(v)'
  <2>1. CatchesUp(v)
    BY DEF LoadsCatchUp
  <2>2. \A r \in requests' : r \in requests \/ (r.what = "look" /\ r.asked = etag[r.by])
    BY <1>3 DEF RequestOf
  <2>3. requests \subseteq requests'
    OBVIOUS
  <2>4. ASSUME NEW m \in Nat, Reached(v, m) PROVE Reached(v, m)'
    BY <2>2, <2>3, <2>4 DEF Reached
  <2>5. OneLoad(v) => OneLoad(v)'
    BY <2>2 DEF OneLoad
  <2>6. ImageUp(v) => ImageUp(v)'
    BY <2>2 DEF ImageUp, FilesNumbers
  <2> QED
    BY <2>1, <2>4, <2>5, <2>6 DEF CatchesUp, Kind
<1> QED
  BY <1>4, <1>5, <1>6, <1>7 DEF LoadsCatchUp

\* A new load of a text panel: it gets what is on the disk now, or something newer.
LoadBegins(v, among) ==
  /\ v \in mounted /\ Kind(v) # "image"
  /\ among \in SUBSET requests
  /\ \A r \in requests : r \in among \/ r.what = "look"
  /\ StartLoad(v, among) /\ UNCHANGED <<play, mounted, disk, content>>
  /\ etag' \in [Views -> Versions \cup {None}] /\ seen' \in [Views -> Versions \cup {None}]
  /\ \A w \in Views : w # v => etag'[w] = etag[w] /\ seen'[w] = seen[w]
  /\ \A r \in requests : r \in among \/ r.by = v
  /\ etag'[v] <= disk[v] /\ seen'[v] <= disk[v]

LEMMA LoadBeginsKeeps ==
  ASSUME FilesInv, NEW v, NEW among, LoadBegins(v, among) PROVE FilesInv'
<1> USE ViewersAssumption, ViewPlansAssumption DEF FilesInv, LoadBegins, StartLoad
<1> FilesNumbers
  BY NumbersOfFiles
<1>1. v \in Views /\ mounted \subseteq Views
  BY DEF FileTypes
<1> PICK q : q = [RequestOf(v, "load") EXCEPT !.asked = None]
  OBVIOUS
<1>2. /\ q \in Requests /\ q.by = v /\ q.what = "load" /\ q.stage = "sent"
      /\ q.tag = 0 /\ q.text = 0 /\ q.asked = 0
  BY <1>1 DEF RequestOf, Requests, None
<1>3. requests' = among \cup {q}
  OBVIOUS
<1>4. FileTypes'
  BY <1>1, <1>2, <1>3 DEF FileTypes
<1>5. FilesNumbers'
  BY <1>4, NumbersOfFiles, PTL
<1>6. RequestsAgree'
  <2>1. ASSUME NEW r \in among PROVE RequestOK(r)'
    BY DEF RequestsAgree, RequestOK, Kind
  <2>2. RequestOK(q)'
    BY <1>1, <1>2 DEF RequestOK, Kind, FilesNumbers
  <2> QED
    BY <1>3, <2>1, <2>2, Zenon DEF RequestsAgree
<1>7. PanelsAgree'
  <2> SUFFICES ASSUME NEW w \in Views PROVE PanelOK(w)'
    BY DEF PanelsAgree
  <2>1. PanelOK(w)
    BY DEF PanelsAgree
  <2>2. CASE w = v
    <3> fetching'[v] = TRUE
      BY <1>1 DEF FileTypes
    <3> QED
      BY <2>1, <2>2 DEF PanelOK
  <2>3. CASE w # v
    <3> fetching'[w] = fetching[w] /\ failure'[w] = failure[w]
      BY <1>1, <2>3 DEF FileTypes
    <3> QED
      BY <2>1, <2>3 DEF PanelOK, Kind
  <2> QED
    BY <2>2, <2>3
<1>8. ASSUME NEW w \in Views PROVE CatchesUp(w)'
  <2>1. CatchesUp(w)
    BY DEF LoadsCatchUp
  <2>2. CASE w # v
    <3> muddled'[w] = muddled[w]
      BY <1>1, <2>2 DEF FileTypes
    <3>1. Undisturbed(w)
      BY <1>2, <1>3, <2>2 DEF Undisturbed
    <3> QED
      BY <2>1, <3>1, UndisturbedStays
  <2>3. CASE w = v
    <3> SUFFICES ASSUME ~ muddled'[v] PROVE OneLoad(v)' /\ \E m \in Nat : Reached(v, m)'
      BY <2>3 DEF CatchesUp, Kind
    <3>1. muddled'[v] = (muddled[v] \/ Loads(v) # {})
      BY <1>1 DEF FileTypes
    <3>2. \A r \in requests : ~ (r.by = v /\ r.what = "load")
      BY <3>1 DEF Loads
    <3>3. \A r \in requests' : r.by = v /\ r.what = "load" => r = q
      BY <1>2, <1>3, <3>2
    <3>4. OneLoad(v)'
      BY <3>3 DEF OneLoad
    <3>5. \A r \in requests' : r = q \/ r.asked <= disk[r.by]
      BY <1>3 DEF RequestsAgree, RequestOK
    <3> PICK m \in Nat : m = disk[v]
      BY <1>1 DEF FilesNumbers
    <3>6. q \in requests' /\ \A r \in requests' : r.by = v /\ r.what = "look" => r.asked <= m
      BY <1>2, <1>3, <3>5
    <3>7. m <= disk'[v] /\ etag'[v] <= m /\ seen'[v] <= m
      OBVIOUS
    <3>8. \A r \in requests' : r.by = v /\ r.what = "load" => r.stage = "sent"
      BY <1>2, <3>3
    <3> HIDE DEF LoadBegins
    <3>9. Reached(v, m)'
      BY <1>2, <3>6, <3>7, <3>8 DEF Reached
    <3> QED
      BY <3>4, <3>9
  <2> QED
    BY <2>2, <2>3
<1> QED
  BY <1>4, <1>6, <1>7, <1>8 DEF LoadsCatchUp

\* The tag of an image is asked for.
LEMMA RefreshKeeps == ASSUME FilesInv, NEW v \in Views, Refresh(v) PROVE FilesInv'
<1> USE ViewersAssumption, ViewPlansAssumption DEF Refresh, Plays, findVars
<1> FilesNumbers
  BY NumbersOfFiles DEF FilesInv
<1>1. CASE Kind(v) # "image"
  <2>1. LoadBegins(v, requests)
    BY <1>1 DEF LoadBegins, FilesInv, FileTypes, PanelsAgree, PanelOK
  <2> QED
    BY <2>1, LoadBeginsKeeps
<1>2. CASE Kind(v) = "image"
  <2> USE <1>2 DEF FilesInv
  <2> PICK q : q = RequestOf(v, "tag")
    OBVIOUS
  <2>1. /\ q \in Requests /\ q.by = v /\ q.what = "tag" /\ q.stage = "sent"
        /\ q.tag = 0 /\ q.text = 0 /\ q.asked = etag[v]
    BY DEF RequestOf, Requests, None, FileTypes
  <2>2. requests' = requests \cup {q}
    OBVIOUS
  <2>3. FileTypes'
    BY <2>1, <2>2 DEF FileTypes
  <2>4. RequestsAgree'
    <3>1. ASSUME NEW r \in requests PROVE RequestOK(r)'
      BY DEF RequestsAgree, RequestOK, Kind
    <3>2. RequestOK(q)'
      BY <2>1 DEF RequestOK, Kind, FilesNumbers, PanelsAgree, PanelOK
    <3> QED
      BY <2>2, <3>1, <3>2, Zenon DEF RequestsAgree
  <2>5. PanelsAgree'
    BY DEF PanelsAgree, PanelOK, Kind
  <2>6. ASSUME NEW w \in Views PROVE CatchesUp(w)'
    <3>1. CatchesUp(w)
      BY DEF LoadsCatchUp
    <3>2. CASE w # v
      <4> Undisturbed(w)
        BY <2>1, <2>2, <3>2 DEF Undisturbed
      <4> QED
        BY <3>1, UndisturbedStays
    <3>3. CASE w = v
      BY <2>1, <2>2, <3>1, <3>3 DEF CatchesUp, ImageUp, Kind, FilesNumbers
    <3> QED
      BY <3>2, <3>3
  <2> QED
    BY <2>3, <2>4, <2>5, <2>6 DEF LoadsCatchUp
<1> QED
  BY <1>1, <1>2

LEMMA LookedKeeps == ASSUME FilesInv, NEW r \in requests, Looked(r) PROVE FilesInv'
<1> USE ViewersAssumption, ViewPlansAssumption DEF Looked, Retag, Goes, findVars
<1> DEFINE v == r.by
<1> FilesNumbers
  BY NumbersOfFiles DEF FilesInv
<1>1. RequestOK(r) /\ v \in Views /\ v \in mounted /\ PanelOK(v) /\ CatchesUp(v)
  BY DEF FilesInv, RequestsAgree, FilesNumbers, RequestOK, PanelsAgree, LoadsCatchUp
<1>2. r.tag \in Versions \cup {None} /\ r.tag <= disk[v] /\ r.tag \in Nat /\ r.tag # 0
  BY <1>1 DEF FilesInv, FileTypes, Requests, RequestOK, FilesNumbers, None
<1>3. /\ seen' \in [Views -> Versions \cup {None}] /\ seen'[v] = IF r.tag > seen[v] THEN r.tag ELSE seen[v]
      /\ \A w \in Views : w # v => seen'[w] = seen[w]
  BY <1>1, <1>2 DEF FilesInv, FileTypes
<1>4. seen'[v] <= disk[v] /\ seen'[v] \in Nat
  BY <1>1, <1>2, <1>3 DEF PanelOK, FilesNumbers
<1>5. CASE r.tag # r.asked /\ Kind(v) # "image"
  <2>1. LoadBegins(v, requests \ {r})
    BY <1>1, <1>2, <1>3, <1>4, <1>5 DEF LoadBegins, FilesInv, FileTypes
  <2> QED
    BY <2>1, LoadBeginsKeeps
<1>6. CASE ~ (r.tag # r.asked /\ Kind(v) # "image")
  <2> USE DEF FilesInv
  <2>1. requests' = requests \ {r}
    BY <1>6
  <2>2. UNCHANGED <<fetching, failure>>
    BY <1>6
  <2>3. /\ etag' \in [Views -> Versions \cup {None}] /\ etag'[v] \in {etag[v], r.tag}
        /\ \A w \in Views : w # v => etag'[w] = etag[w]
    BY <1>1, <1>2, <1>6 DEF FileTypes
  <2>4. muddled' \in [Views -> BOOLEAN] /\ (\A w \in Views : w # v => muddled'[w] = muddled[w])
    BY <1>1, <1>6 DEF FileTypes
  <2>5. FileTypes'
    BY <1>3, <2>1, <2>2, <2>3, <2>4 DEF FileTypes
  <2>6. RequestsAgree'
    BY <2>1 DEF RequestsAgree, RequestOK, Kind
  <2>7. PanelsAgree'
    <3> SUFFICES ASSUME NEW w \in Views PROVE PanelOK(w)'
      BY DEF PanelsAgree
    <3>1. PanelOK(w)
      BY DEF PanelsAgree
    <3>2. etag'[w] <= disk[w] /\ seen'[w] <= disk[w]
      BY <1>1, <1>2, <1>3, <1>4, <2>3, <3>1 DEF PanelOK
    <3> QED
      BY <2>2, <3>1, <3>2 DEF PanelOK, Kind
  <2>8. ASSUME NEW w \in Views PROVE CatchesUp(w)'
    <3>1. CatchesUp(w)
      BY DEF LoadsCatchUp
    <3>2. CASE w # v
      <4> Undisturbed(w)
        BY <1>3, <2>1, <2>3, <2>4, <3>2 DEF Undisturbed
      <4> QED
        BY <3>1, UndisturbedStays
    <3>3. CASE w = v /\ Kind(v) # "image"
      <4> SUFFICES ASSUME ~ muddled'[v] PROVE OneLoad(v)' /\ \E m \in Nat : Reached(v, m)'
        BY <3>3 DEF CatchesUp, Kind
      <4>1. r.tag = r.asked /\ etag' = etag /\ muddled' = muddled
        BY <1>6, <3>3
      <4>2. OneLoad(v) /\ \E m \in Nat : Reached(v, m)
        BY <1>1, <3>3, <4>1 DEF CatchesUp
      <4> PICK m \in Nat : Reached(v, m)
        BY <4>2
      <4>3. r.asked <= m
        BY DEF Reached
      <4>4. Reached(v, m)'
        BY <1>1, <1>3, <2>1, <4>1, <4>3 DEF Reached, FilesNumbers
      <4>5. OneLoad(v)'
        BY <2>1, <4>2 DEF OneLoad
      <4> QED
        BY <4>4, <4>5
    <3>4. CASE w = v /\ Kind(v) = "image"
      <4> SUFFICES ASSUME ~ muddled'[v] PROVE ImageUp(v)'
        BY <3>4 DEF CatchesUp, Kind
      <4>1. r.tag = r.asked => etag' = etag /\ muddled' = muddled
        BY <1>6
      <4>2. r.tag # r.asked => etag'[v] = r.tag /\ muddled'[v] = (muddled[v] \/ r.tag < etag[v])
        BY <1>1, <3>4 DEF FileTypes
      <4>3. ~ muddled[v]
        BY <4>1, <4>2
      <4>4. ImageUp(v)
        BY <1>1, <3>4, <4>3 DEF CatchesUp
      <4>5. etag[v] <= etag'[v] /\ r.tag <= etag'[v] /\ etag'[v] \in Nat
        <5>1. CASE r.tag = r.asked
          BY <1>1, <4>1, <4>4, <5>1 DEF ImageUp, FilesNumbers
        <5>2. CASE r.tag # r.asked
          <6> etag[v] \in Nat /\ etag'[v] = r.tag /\ ~ (r.tag < etag[v])
            BY <1>1, <4>2, <5>2 DEF FilesNumbers
          <6> QED
            BY <1>2
        <5> QED
          BY <5>1, <5>2
      <4> QED
        BY <1>1, <1>3, <2>1, <4>4, <4>5 DEF ImageUp, FilesNumbers
    <3> QED
      BY <3>2, <3>3, <3>4
  <2> QED
    BY <2>5, <2>6, <2>7, <2>8 DEF LoadsCatchUp
<1> QED
  BY <1>5, <1>6

LEMMA TaggedKeeps == ASSUME FilesInv, NEW r \in requests, Tagged(r) PROVE FilesInv'
<1> USE ViewersAssumption, ViewPlansAssumption DEF Tagged, Retag, Goes, findVars, FilesInv
<1> DEFINE v == r.by
<1> FilesNumbers
  BY NumbersOfFiles
<1>1. RequestOK(r) /\ v \in Views /\ v \in mounted /\ PanelOK(v) /\ CatchesUp(v)
  BY DEF RequestsAgree, FilesNumbers, RequestOK, PanelsAgree, LoadsCatchUp
<1>2. r.tag \in Versions \cup {None} /\ r.tag <= disk[v] /\ r.tag \in Nat /\ Kind(v) = "image"
  BY <1>1 DEF FileTypes, Requests, RequestOK, FilesNumbers
<1>3. /\ etag' \in [Views -> Versions \cup {None}] /\ etag'[v] = r.tag
      /\ \A w \in Views : w # v => etag'[w] = etag[w]
  BY <1>1, <1>2 DEF FileTypes
<1>4. /\ muddled' \in [Views -> BOOLEAN] /\ muddled'[v] = (muddled[v] \/ r.tag < etag[v])
      /\ \A w \in Views : w # v => muddled'[w] = muddled[w]
  BY <1>1 DEF FileTypes
<1>5. FileTypes'
  BY <1>3, <1>4 DEF FileTypes
<1>6. RequestsAgree'
  BY DEF RequestsAgree, RequestOK, Kind
<1>7. PanelsAgree'
  <2> SUFFICES ASSUME NEW w \in Views PROVE PanelOK(w)'
    BY DEF PanelsAgree
  <2> PanelOK(w) /\ etag'[w] <= disk[w]
    BY <1>2, <1>3 DEF PanelsAgree, PanelOK
  <2> QED
    BY DEF PanelOK, Kind
<1>8. ASSUME NEW w \in Views PROVE CatchesUp(w)'
  <2>1. CatchesUp(w)
    BY DEF LoadsCatchUp
  <2>2. CASE w # v
    <3> Undisturbed(w)
      BY <1>3, <1>4, <2>2 DEF Undisturbed
    <3> QED
      BY <2>1, UndisturbedStays
  <2>3. CASE w = v
    <3> SUFFICES ASSUME ~ muddled'[v] PROVE ImageUp(v)'
      BY <1>2, <2>3 DEF CatchesUp, Kind
    <3>1. ~ muddled[v] /\ ~ (r.tag < etag[v])
      BY <1>4
    <3>2. ImageUp(v)
      BY <1>1, <1>2, <3>1 DEF CatchesUp
    <3>3. etag[v] <= etag'[v] /\ etag'[v] \in Nat
      BY <1>1, <1>2, <1>3, <3>1 DEF FilesNumbers
    <3> QED
      BY <1>1, <3>2, <3>3 DEF ImageUp, FilesNumbers
  <2> QED
    BY <2>2, <2>3
<1> QED
  BY <1>5, <1>6, <1>7, <1>8 DEF LoadsCatchUp

\* A load, the only one of its panel, gets ahead: it has a tag, or a text.
LoadAdvances(r, s) ==
  /\ Becomes(r, s) /\ UNCHANGED <<play, mounted, disk, content, fetching, failure, seen, muddled>>
  /\ s \in Requests /\ s.by = r.by /\ s.what = r.what /\ s.asked = r.asked
  /\ r.stage # "sent" => s.tag = r.tag
  /\ s.stage # "sent"

LEMMA AdvanceCatchesUp ==
  ASSUME FilesInv, NEW r \in requests, NEW s, LoadAdvances(r, s), RequestOK(s)',
         FileTypes', 
         etag'[r.by] = etag[r.by] \/ (etag'[r.by] = s.tag /\ r.stage # "sent" /\ r.what = "load"),
         r.what = "load" /\ r.stage = "sent" => s.tag = disk[r.by],
         \A w \in Views : w # r.by => etag'[w] = etag[w]
  PROVE  LoadsCatchUp'
<1> DEFINE v == r.by
<1> FilesNumbers
  BY NumbersOfFiles DEF FilesInv
<1>1. v \in Views /\ v \in mounted /\ CatchesUp(v) /\ RequestOK(r) /\ s.tag \in Nat /\ s.asked \in Nat
  BY ViewersAssumption
     DEF FilesNumbers, FilesInv, RequestsAgree, RequestOK, LoadsCatchUp, LoadAdvances, Requests, Versions, None
<1>2. requests' = (requests \ {r}) \cup {s}
  BY DEF LoadAdvances, Becomes
<1> SUFFICES ASSUME NEW w \in Views PROVE CatchesUp(w)'
  BY DEF LoadsCatchUp
<1>3. CASE w # v
  <2> CatchesUp(w)
    BY DEF FilesInv, LoadsCatchUp
  <2> Undisturbed(w)
    BY <1>2, <1>3 DEF Undisturbed, LoadAdvances
  <2> QED
    BY UndisturbedStays
<1>4. CASE w = v /\ Kind(v) = "image"
  <2> SUFFICES ASSUME ~ muddled[v] PROVE ImageUp(v)'
    BY <1>4 DEF CatchesUp, Kind, LoadAdvances
  <2>1. ImageUp(v) /\ r.what # "load"
    BY <1>1, <1>4 DEF CatchesUp, RequestOK
  <2> QED
    BY <1>1, <1>2, <2>1 DEF ImageUp, LoadAdvances
<1>5. CASE w = v /\ Kind(v) # "image"
  <2> SUFFICES ASSUME ~ muddled[v] PROVE OneLoad(v)' /\ \E m \in Nat : Reached(v, m)'
    BY <1>5 DEF CatchesUp, Kind, LoadAdvances
  <2>1. OneLoad(v) /\ \E m \in Nat : Reached(v, m)
    BY <1>1, <1>5 DEF CatchesUp
  <2> PICK m \in Nat : Reached(v, m)
    BY <2>1
  <2>2. OneLoad(v)'
    BY <1>2, <2>1 DEF OneLoad, LoadAdvances
  <2>3. CASE r.what = "load"
    <3> PICK n \in Nat : n = s.tag
      BY <1>1
    <3>1. m <= n
      BY <1>1, <2>3 DEF Reached, LoadAdvances
    <3>2. n <= disk[v] /\ disk[v] \in Nat
      BY <1>1 DEF RequestOK, LoadAdvances, FilesNumbers
    <3>3. \A q \in requests' : q.by = v /\ q.what = "look" => q.asked <= n
      BY <1>1, <1>2, <2>3, <3>1 DEF Reached, LoadAdvances, FilesNumbers
    <3>4. \A q \in requests' : q.by = v /\ q.what = "load" => q = s
      BY <1>2, <2>1, <2>3 DEF OneLoad, LoadAdvances
    <3>5. etag'[v] <= n /\ seen'[v] <= n
      BY <1>1, <3>1 DEF Reached, LoadAdvances, FilesNumbers
    <3>6. s \in requests' /\ s.by = v /\ s.what = "load" /\ n <= s.tag
      BY <1>2, <2>3 DEF LoadAdvances
    <3> Reached(v, n)'
      BY <3>2, <3>3, <3>4, <3>5, <3>6 DEF Reached, LoadAdvances
    <3> QED
      BY <2>2
  <2>4. CASE r.what # "load"
    <3>1. \A q \in requests' : \/ q \in requests
                               \/ q = s /\ (s.what = "look" => s.asked <= m) /\ s.what # "load"
      BY <1>1, <1>2, <2>4 DEF LoadAdvances, Reached
    <3>2. \A q \in requests : q.what = "load" => q \in requests'
      BY <1>2, <2>4
    <3>3. etag'[v] = etag[v]
      BY <2>4
    <3> Reached(v, m)'
      BY <3>1, <3>2, <3>3 DEF Reached, LoadAdvances
    <3> QED
      BY <2>2
  <2> QED
    BY <2>3, <2>4
<1> QED
  BY <1>3, <1>4, <1>5

LEMMA ServeKeeps == ASSUME FilesInv, NEW r \in requests, Serve(r) PROVE FilesInv'
<1> USE ViewersAssumption, ViewPlansAssumption DEF Serve, Goes, findVars
<1> FilesNumbers
  BY NumbersOfFiles DEF FilesInv
<1>1. /\ RequestOK(r) /\ r \in Requests /\ r.by \in Views
      /\ disk[r.by] \in Versions /\ disk[r.by] \in Nat /\ disk[r.by] # 0
  BY DEF FilesInv, FileTypes, RequestsAgree, FilesNumbers, RequestOK, Versions
<1> PICK s : /\ Becomes(r, s)
             /\ \/ /\ r.stage = "sent"
                   /\ s = [r EXCEPT !.stage = IF r.what = "load" THEN "tagged" ELSE "served",
                                    !.tag = disk[r.by]]
                \/ r.stage = "tagged" /\ s = [r EXCEPT !.stage = "served", !.text = disk[r.by]]
  OBVIOUS
<1>2. /\ s \in Requests /\ s.by = r.by /\ s.what = r.what /\ s.asked = r.asked
      /\ r.stage # "sent" => s.tag = r.tag
      /\ r.stage = "sent" => s.tag = disk[r.by] /\ s.text = r.text
      /\ s.stage = IF r.stage = "sent" /\ r.what = "load" THEN "tagged" ELSE "served"
      /\ r.stage = "tagged" => s.text = disk[r.by]
      /\ r.stage \in {"sent", "tagged"}
  BY <1>1 DEF Requests
<1>3. LoadAdvances(r, s)
  BY <1>2 DEF LoadAdvances
<1>4. FileTypes'
  BY <1>2 DEF FilesInv, FileTypes, Becomes
<1>5. RequestOK(s)'
  BY <1>1, <1>2 DEF RequestOK, Kind, FilesNumbers, None
<1>6. RequestsAgree'
  <2>1. ASSUME NEW q \in requests PROVE RequestOK(q)'
    BY DEF FilesInv, RequestsAgree, RequestOK, Kind
  <2> QED
    BY <1>5, <2>1 DEF RequestsAgree, Becomes
<1>7. PanelsAgree'
  BY DEF FilesInv, PanelsAgree, PanelOK, Kind
<1> QED
  BY <1>2, <1>3, <1>4, <1>5, <1>6, <1>7, AdvanceCatchesUp DEF FilesInv

LEMMA HeadersKeeps == ASSUME FilesInv, NEW r \in requests, Headers(r) PROVE FilesInv'
<1> USE ViewersAssumption, ViewPlansAssumption DEF Headers, Retag, Goes, findVars
<1> FilesNumbers
  BY NumbersOfFiles DEF FilesInv
<1>1. RequestOK(r) /\ r \in Requests /\ r.by \in Views
  BY DEF FilesInv, FileTypes, RequestsAgree, FilesNumbers
<1> PICK s : s = [r EXCEPT !.stage = "headers"]
  OBVIOUS
<1>2. /\ s \in Requests /\ s.by = r.by /\ s.what = r.what /\ s.asked = r.asked /\ s.stage = "headers"
      /\ s.tag = r.tag /\ s.text = r.text
  BY <1>1 DEF Requests
<1>3. Becomes(r, s) /\ LoadAdvances(r, s)
  BY <1>2 DEF LoadAdvances
<1>4. /\ etag' \in [Views -> Versions \cup {None}] /\ etag'[r.by] = r.tag
      /\ \A w \in Views : w # r.by => etag'[w] = etag[w]
  BY <1>1 DEF FilesInv, FileTypes, Requests
<1>5. FileTypes'
  BY <1>2, <1>3, <1>4 DEF FilesInv, FileTypes, Becomes
<1>6. RequestOK(s)'
  BY <1>1, <1>2 DEF RequestOK, Kind
<1>7. RequestsAgree'
  <2>1. ASSUME NEW q \in requests PROVE RequestOK(q)'
    BY DEF FilesInv, RequestsAgree, RequestOK, Kind
  <2> QED
    BY <1>3, <1>6, <2>1 DEF RequestsAgree, Becomes
<1>8. PanelsAgree'
  <2> SUFFICES ASSUME NEW w \in Views PROVE PanelOK(w)'
    BY DEF PanelsAgree
  <2> PanelOK(w) /\ etag'[w] <= disk[w]
    BY <1>1, <1>4 DEF FilesInv, PanelsAgree, PanelOK, RequestOK
  <2> QED
    BY DEF PanelOK, Kind
<1> QED
  BY <1>1, <1>2, <1>3, <1>4, <1>5, <1>6, <1>7, <1>8, AdvanceCatchesUp DEF FilesInv

\* The text of a load, the only one of its panel, is not older than what was seen.
LEMMA BodyKeeps == ASSUME FilesInv, NEW r \in requests, Body(r) PROVE FilesInv'
<1> USE ViewersAssumption, ViewPlansAssumption DEF Body, Goes, FilesInv
<1> DEFINE v == r.by
<1> FilesNumbers
  BY NumbersOfFiles
<1>1. RequestOK(r) /\ r \in Requests /\ v \in Views /\ v \in mounted /\ CatchesUp(v)
  BY DEF FileTypes, RequestsAgree, FilesNumbers, RequestOK, LoadsCatchUp
<1>2. r.text \in Versions /\ r.tag <= r.text /\ r.text <= disk[v] /\ r.what = "load" /\ Kind(v) # "image"
      /\ r.text \in Nat /\ r.text # None /\ r.stage # "sent"
  BY <1>1 DEF RequestOK, Requests, FilesNumbers
<1>3. /\ content' \in [Views -> Versions \cup {None}] /\ content'[v] = r.text
      /\ \A w \in Views : w # v => content'[w] = content[w] /\ fetching'[w] = fetching[w]
      /\ fetching' \in [Views -> BOOLEAN]
  BY <1>1, <1>2 DEF FileTypes
<1>4. FileTypes'
  BY <1>3 DEF FileTypes
<1>5. RequestsAgree'
  BY DEF RequestsAgree, RequestOK, Kind
<1>6. PanelsAgree'
  <2> SUFFICES ASSUME NEW w \in Views PROVE PanelOK(w)'
    BY DEF PanelsAgree
  <2> PanelOK(w)
    BY DEF PanelsAgree
  <2>1. CASE w = v
    BY <1>2, <1>3, <2>1 DEF PanelOK
  <2>2. CASE w # v
    BY <1>3, <2>2 DEF PanelOK, Kind
  <2> QED
    BY <2>1, <2>2
<1>7. ASSUME NEW w \in Views PROVE CatchesUp(w)'
  <2>1. CASE w # v
    <3> CatchesUp(w)
      BY DEF LoadsCatchUp
    <3> Undisturbed(w)
      BY <1>3, <2>1 DEF Undisturbed
    <3> QED
      BY UndisturbedStays
  <2>2. CASE w = v
    <3> SUFFICES ASSUME ~ muddled[v] PROVE OneLoad(v)' /\ \E m \in Nat : Reached(v, m)'
      BY <1>2, <2>2 DEF CatchesUp, Kind
    <3>1. OneLoad(v) /\ \E m \in Nat : Reached(v, m)
      BY <1>1, <1>2 DEF CatchesUp
    <3> PICK m \in Nat : Reached(v, m)
      BY <3>1
    <3>2. m <= content'[v]
      BY <1>1, <1>2, <1>3 DEF Reached, FilesNumbers
    <3>3. \A q \in requests' : q.by = v => q.what # "load"
      BY <1>2, <3>1 DEF OneLoad
    <3>4. Reached(v, m)'
      BY <3>2, <3>3 DEF Reached
    <3>5. OneLoad(v)'
      BY <3>3 DEF OneLoad
    <3> QED
      BY <3>4, <3>5
  <2> QED
    BY <2>1, <2>2
<1> QED
  BY <1>4, <1>5, <1>6, <1>7 DEF LoadsCatchUp

LEMMA FailsKeeps == ASSUME FilesInv, NEW r \in requests, Fails(r) PROVE FilesInv'
<1> USE ViewersAssumption, ViewPlansAssumption DEF Fails, Plays, findVars, FilesInv
<1> DEFINE v == r.by
<1> FilesNumbers
  BY NumbersOfFiles
<1>1. RequestOK(r) /\ v \in Views /\ v \in mounted /\ CatchesUp(v)
  BY DEF RequestsAgree, FilesNumbers, RequestOK, LoadsCatchUp
<1>2. FileTypes'
  BY DEF FileTypes
<1>3. RequestsAgree'
  BY DEF RequestsAgree, RequestOK, Kind
<1>4. PanelsAgree'
  <2> SUFFICES ASSUME NEW w \in Views PROVE PanelOK(w)'
    BY DEF PanelsAgree
  <2> PanelOK(w)
    BY DEF PanelsAgree
  <2>1. CASE r.what = "load"
    <3> failure'[w] \/ (failure'[w] = failure[w] /\ fetching'[w] = fetching[w])
      BY <1>1, <2>1 DEF FileTypes
    <3> QED
      BY DEF PanelOK, Kind
  <2>2. CASE r.what # "load"
    BY <2>2 DEF PanelOK, Kind
  <2> QED
    BY <2>1, <2>2
<1>5. ASSUME NEW w \in Views PROVE CatchesUp(w)'
  <2> CatchesUp(w)
    BY DEF LoadsCatchUp
  <2>1. CASE w # v
    <3> muddled'[w] = muddled[w]
      BY <1>1, <2>1 DEF FileTypes
    <3> Undisturbed(w)
      BY <2>1 DEF Undisturbed
    <3> QED
      BY UndisturbedStays
  <2>2. CASE w = v /\ r.what = "load"
    <3> muddled'[w] = TRUE
      BY <1>1, <2>2 DEF FileTypes
    <3> QED
      BY DEF CatchesUp
  <2>3. CASE w = v /\ r.what # "load"
    <3> UNCHANGED <<muddled, mounted, play>> /\ requests' = requests \ {r}
      BY <2>3
    <3>1. ImageUp(v) => ImageUp(v)'
      BY DEF ImageUp
    <3>2. OneLoad(v) => OneLoad(v)'
      BY DEF OneLoad
    <3>3. ASSUME NEW m \in Nat, Reached(v, m) PROVE Reached(v, m)'
      <4>1. \A q \in requests : q \in requests' \/ q.what # "load"
        BY <2>3
      <4> QED
        BY <3>3, <4>1 DEF Reached
    <3> QED
      BY <2>3, <3>1, <3>2, <3>3 DEF CatchesUp, Kind
  <2> QED
    BY <2>1, <2>2, <2>3
<1> QED
  BY <1>2, <1>3, <1>4, <1>5 DEF LoadsCatchUp

LEMMA CloseViewKeepsFiles == ASSUME FilesInv, NEW v \in Views, CloseView(v) PROVE FilesInv'
<1> USE DEF CloseView, Plays, FilesInv
<1>1. FileTypes'
  BY DEF FileTypes
<1>2. RequestsAgree'
  BY DEF RequestsAgree, RequestOK, Kind
<1>3. PanelsAgree'
  BY DEF PanelsAgree, PanelOK, Kind
<1>4. ASSUME NEW w \in Views PROVE CatchesUp(w)'
  <2> CatchesUp(w)
    BY DEF LoadsCatchUp
  <2>1. CASE w = v
    BY <2>1 DEF CatchesUp
  <2>2. CASE w # v
    <3> Undisturbed(w)
      BY <2>2 DEF Undisturbed
    <3> QED
      BY UndisturbedStays
  <2> QED
    BY <2>1, <2>2
<1> QED
  BY <1>1, <1>2, <1>3, <1>4 DEF LoadsCatchUp

LEMMA FilesStep == FilesInv /\ [ViewerNext]_viewerVars => FilesInv'
<1> SUFFICES ASSUME FilesInv, [ViewerNext]_viewerVars PROVE FilesInv'
  OBVIOUS
<1>1. CASE FilesIdle
  BY <1>1, FilesKept
<1>2. ASSUME NEW v \in Views,
             \/ \E p \in Patterns : TypePattern(v, p)
             \/ StepMatch(v, 1) \/ StepMatch(v, -1) \/ OpenBar(v) \/ CloseBar(v)
             \/ Draw(v) \/ Drawn(v) \/ Copy(v) \/ CopyTimer(v)
      PROVE FilesIdle
  BY <1>2 DEF FilesIdle, TypePattern, StepMatch, OpenBar, CloseBar, Draw, Drawn, Copy, CopyTimer,
              Plays, Goes, fileVars
<1>3. UNCHANGED viewerVars => FilesIdle
  BY DEF FilesIdle, viewerVars, fileVars
<1> QED
  BY <1>1, <1>2, <1>3, WriteFileKeeps, RefreshKeeps, RevisitKeeps, LookedKeeps, TaggedKeeps,
     ServeKeeps, HeadersKeeps, BodyKeeps, FailsKeeps, CloseViewKeepsFiles DEF ViewerNext

LEMMA TotalIsNat ==
  ASSUME NEW s \in Searches
  PROVE  Total(s) \in Nat /\ (s.pattern = NoPattern => Total(s) = 0) /\ (s.on = NoTree => Total(s) = 0)
  BY HitsAssumption DEF Searches, Trees, Total

LEMMA TotalOfSame ==
  ASSUME NEW s, NEW t, s.on = t.on, s.pattern = t.pattern PROVE Total(s) = Total(t)
  BY DEF Total

LEMMA TotalOfNone == Total(NoAdapter) = 0
  BY DEF Total, NoAdapter

\* Who has painted has a search.
LEMMA PaintersSearch ==
  ASSUME FindTypes, PaintedIsLive, painted # Nobody
  PROVE  painted.by \in Views /\ adapter[painted.by] # NoAdapter
<1>1. painted.by \in mounted /\ adapter[painted.by].at < Total(adapter[painted.by])
  BY DEF PaintedIsLive
<1>2. painted.by \in Views
  BY <1>1 DEF FindTypes
<1>3. adapter[painted.by] # NoAdapter
  <2> SUFFICES ASSUME adapter[painted.by] = NoAdapter PROVE FALSE
    OBVIOUS
  <2>1. NoAdapter.at < Total(NoAdapter)
    BY <1>1
  <2> QED
    BY <2>1, TotalOfNone DEF NoAdapter
<1> QED
  BY <1>2, <1>3

\* Panel v gets another search, and what it finds is painted.
LEMMA Repainted ==
  ASSUME FindTypes, NEW v \in mounted, NEW s \in Searches,
         adapter' = [adapter EXCEPT ![v] = s], Paint(v, s), UNCHANGED mounted,
         Total(s) # 0 => bar'[v] /\ s.at < Total(s)
  PROVE  /\ PaintedIsLive'
         /\ adapter' \in [Views -> Searches]
         /\ painted' \in [by : Views \cup {"nobody"}, search : Searches]
<1>1. v \in Views /\ adapter'[v] = s
  BY DEF FindTypes
<1>2. CASE Total(s) = 0
  <2>1. painted' = Nobody /\ Nobody \in [by : Views \cup {"nobody"}, search : Searches]
    BY <1>2, HitsAssumption DEF Paint, Nobody, NoAdapter, Searches, Trees
  <2> QED
    BY <2>1 DEF PaintedIsLive, FindTypes
<1>3. CASE Total(s) # 0
  BY <1>1, <1>3 DEF Paint, PaintedIsLive, FindTypes, Total
<1> QED
  BY <1>2, <1>3

LEMMA TypePatternKeeps == ASSUME FindInv, NEW v \in Views, NEW p \in Patterns, TypePattern(v, p) PROVE FindInv'
<1> USE DEF TypePattern, Plays, FindInv
<1>1. pattern' \in [Views -> Patterns] /\ pattern'[v] = p /\ \A w \in Views : w # v => pattern'[w] = pattern[w]
  BY DEF FindTypes
<1>2. FollowsTree(v)
  BY DEF SearchFollows
<1>3. CASE adapter[v] = NoAdapter
  <2>1. FindTypes'
    BY <1>1, <1>3 DEF FindTypes
  <2>2. PaintedIsLive'
    BY <1>3 DEF PaintedIsLive, Total
  <2>3. SearchFollows'
    BY <1>1, <1>2, <1>3 DEF SearchFollows, FollowsTree, NoAdapter
  <2> QED
    BY <2>1, <2>2, <2>3
<1>4. CASE adapter[v] # NoAdapter
  <2> PICK s : s = SearchOf(v, adapter[v].on, p)
    OBVIOUS
  <2>1. s \in Searches /\ s.at = 0 /\ s.on = adapter[v].on /\ s.pattern = p
    BY DEF FindTypes, Searches, SearchOf
  <2>2. adapter' = [adapter EXCEPT ![v] = s] /\ adapter'[v] = s
    BY <1>4 DEF FindTypes
  <2>3. Paint(v, s)
    BY <1>4, <2>2 DEF Paint, Total
  <2>4. /\ PaintedIsLive' /\ adapter' \in [Views -> Searches]
        /\ painted' \in [by : Views \cup {"nobody"}, search : Searches]
    <3>1. Total(s) \in Nat /\ (Total(s) # 0 => bar'[v] /\ s.at < Total(s))
      BY <2>1, TotalIsNat
    <3> QED
      BY <2>1, <2>2, <2>3, <3>1, Repainted
  <2>5. SearchFollows'
    <3> SUFFICES ASSUME NEW w \in Views PROVE FollowsTree(w)'
      BY DEF SearchFollows
    <3>1. FollowsTree(w)
      BY DEF SearchFollows
    <3>2. CASE w # v
      BY <1>1, <2>2, <3>1, <3>2 DEF FollowsTree, FindTypes
    <3>3. CASE w = v
      BY <1>1, <1>4, <2>1, <2>2, <3>1, <3>3 DEF FollowsTree
    <3> QED
      BY <3>2, <3>3
  <2> QED
    BY <1>1, <2>4, <2>5 DEF FindTypes
<1> QED
  BY <1>3, <1>4

LEMMA AroundStays ==
  ASSUME NEW n \in Nat \ {0}, NEW k \in Nat, NEW by \in {-1, 1}
  PROVE  (k + by + n) % n \in Nat /\ (k + by + n) % n < n
<1> k + by + n \in Nat
  OBVIOUS
<1> PICK m \in Nat : m = k + by + n
  OBVIOUS
<1> m % n \in 0 .. n - 1
  OBVIOUS
<1> QED
  OBVIOUS

LEMMA StepMatchKeeps == ASSUME FindInv, NEW v \in Views, NEW by \in {-1, 1}, StepMatch(v, by) PROVE FindInv'
<1> USE DEF StepMatch, Plays, FindInv
<1> DEFINE t == Total(adapter[v])
<1>1. adapter[v] \in Searches /\ t \in Nat \ {0} /\ adapter[v].at \in Nat
  BY TotalIsNat DEF FindTypes, Searches
<1> PICK k : k = (adapter[v].at + by + t) % t
  OBVIOUS
<1>2. k \in Nat /\ k < t
  BY <1>1, AroundStays
<1> PICK s : s = [adapter[v] EXCEPT !.at = k]
  OBVIOUS
<1>3. s \in Searches /\ s.at = k /\ s.on = adapter[v].on /\ s.pattern = adapter[v].pattern
  BY <1>1, <1>2 DEF Searches
<1>4. Total(s) = t
  BY <1>3, TotalOfSame
<1>5. adapter' = [adapter EXCEPT ![v] = s] /\ adapter'[v] = s
  BY DEF FindTypes
<1>6. Paint(v, s)
  BY <1>5 DEF Paint, Total
<1>7. /\ PaintedIsLive' /\ adapter' \in [Views -> Searches]
      /\ painted' \in [by : Views \cup {"nobody"}, search : Searches]
  BY <1>2, <1>3, <1>4, <1>5, <1>6, Repainted
<1>8. SearchFollows'
  <2> SUFFICES ASSUME NEW w \in Views PROVE FollowsTree(w)'
    BY DEF SearchFollows
  <2>1. FollowsTree(w)
    BY DEF SearchFollows
  <2>2. CASE w # v
    BY <1>5, <2>1, <2>2 DEF FollowsTree, FindTypes
  <2>3. CASE w = v
    <3>1. adapter[v] # NoAdapter
      BY <1>1, TotalOfNone
    <3> QED
      BY <1>3, <1>5, <2>1, <2>3, <3>1 DEF FollowsTree
  <2> QED
    BY <2>2, <2>3
<1> QED
  BY <1>7, <1>8 DEF FindTypes

\* A panel without a text has nothing painted.
LEMMA OpenBarKeeps == ASSUME FindInv, NEW v \in Views, OpenBar(v) PROVE FindInv'
  BY DEF FindInv, OpenBar, Plays, FindTypes, SearchFollows, FollowsTree, PaintedIsLive, Total

LEMMA CloseBarKeeps == ASSUME FindInv, NEW v \in Views, CloseBar(v) PROVE FindInv'
<1> USE HitsAssumption DEF CloseBar, Plays, FindInv
<1>1. /\ pattern' \in [Views -> Patterns] /\ pattern'[v] = NoPattern
      /\ \A w \in Views : w # v => pattern'[w] = pattern[w]
      /\ bar' \in [Views -> BOOLEAN] /\ bar'[v] = FALSE /\ \A w \in Views : w # v => bar'[w] = bar[w]
  BY DEF FindTypes
<1>2. FollowsTree(v)
  BY DEF SearchFollows
<1>3. CASE adapter[v] = NoAdapter
  <2>1. FindTypes'
    BY <1>1, <1>3 DEF FindTypes
  <2>2. painted # Nobody => painted.by # v
    BY <1>3, PaintersSearch, Zenon
  <2>3. PaintedIsLive'
    BY <1>1, <1>3, <2>2 DEF PaintedIsLive, Total, FindTypes
  <2>4. SearchFollows'
    BY <1>1, <1>2, <1>3 DEF SearchFollows, FollowsTree, NoAdapter
  <2> QED
    BY <2>1, <2>3, <2>4
<1>4. CASE adapter[v] # NoAdapter
  <2> PICK s : s = SearchOf(v, adapter[v].on, NoPattern)
    OBVIOUS
  <2>1. s \in Searches /\ s.on = adapter[v].on /\ s.pattern = NoPattern
    BY DEF FindTypes, Searches, SearchOf
  <2>2. adapter' = [adapter EXCEPT ![v] = s] /\ adapter'[v] = s /\ painted' = Nobody
    BY <1>4 DEF FindTypes
  <2>3. Nobody \in [by : Views \cup {"nobody"}, search : Searches]
    BY DEF Nobody, NoAdapter, Searches, Trees
  <2>4. FindTypes'
    BY <1>1, <2>1, <2>2, <2>3 DEF FindTypes
  <2>5. PaintedIsLive'
    BY <2>2 DEF PaintedIsLive
  <2>6. SearchFollows'
    <3> SUFFICES ASSUME NEW w \in Views PROVE FollowsTree(w)'
      BY DEF SearchFollows
    <3>1. FollowsTree(w)
      BY DEF SearchFollows
    <3>2. CASE w # v
      BY <1>1, <2>2, <3>1, <3>2 DEF FollowsTree, FindTypes
    <3>3. CASE w = v
      BY <1>1, <1>4, <2>1, <2>2, <3>1, <3>3 DEF FollowsTree
    <3> QED
      BY <3>2, <3>3
  <2> QED
    BY <2>4, <2>5, <2>6
<1> QED
  BY <1>3, <1>4

\* The search of a panel is laid anew over text t.
LEMMA RebuildKeeps ==
  ASSUME FindInv, NEW v \in mounted, NEW t \in Trees, t # NoTree, Rebuild(v, t),
         UNCHANGED <<mounted, bar, pattern>>,
         tree' \in [Views -> Trees], tree'[v] = t,
         drawing' \in [Views -> BOOLEAN],
         \A w \in Views : w # v => tree'[w] = tree[w] /\ drawing'[w] = drawing[w]
  PROVE  FindInv'
<1> USE DEF FindInv, Rebuild
<1> PICK s : s = SearchOf(v, t, pattern[v])
  OBVIOUS
<1>1. v \in Views /\ s \in Searches /\ s.at = 0 /\ s.on = t /\ s.pattern = pattern[v]
  BY DEF FindTypes, Searches, SearchOf
<1>2. adapter' = [adapter EXCEPT ![v] = s] /\ adapter'[v] = s /\ Paint(v, s)
  BY <1>1 DEF FindTypes
<1>3. ~ bar[v] => pattern[v] = NoPattern
  BY <1>1 DEF SearchFollows, FollowsTree
<1>4. /\ PaintedIsLive' /\ adapter' \in [Views -> Searches]
      /\ painted' \in [by : Views \cup {"nobody"}, search : Searches]
  <2>1. Total(s) \in Nat /\ (Total(s) # 0 => bar'[v] /\ s.at < Total(s))
    BY <1>1, <1>3, TotalIsNat
  <2> QED
    BY <1>1, <1>2, <2>1, Repainted
<1>5. SearchFollows'
  <2> SUFFICES ASSUME NEW w \in Views PROVE FollowsTree(w)'
    BY DEF SearchFollows
  <2>1. FollowsTree(w)
    BY DEF SearchFollows
  <2>2. CASE w # v
    BY <1>2, <2>1, <2>2 DEF FollowsTree, FindTypes
  <2>3. CASE w = v
    BY <1>1, <1>2, <1>3, <2>3 DEF FollowsTree
  <2> QED
    BY <2>2, <2>3
<1> QED
  BY <1>4, <1>5 DEF FindTypes

LEMMA DrawKeeps == ASSUME FindInv, NEW v \in Views, Draw(v) PROVE FindInv'
<1> USE DEF Draw, Goes, FindInv
<1>1. FollowsTree(v)
  BY DEF SearchFollows
<1>2. tree[v] # NoTree /\ tree[v] \in [of : Versions, drawn : BOOLEAN]
  BY <1>1 DEF FollowsTree, FindTypes, Trees
<1>3. tree' \in [Views -> Trees] /\ tree'[v] # NoTree /\ \A w \in Views : w # v => tree'[w] = tree[w]
  BY <1>2, ViewersAssumption DEF FindTypes, Trees, NoTree, Versions, None
<1>4. FindTypes' /\ PaintedIsLive'
  BY <1>3 DEF FindTypes, PaintedIsLive, Total
<1>5. SearchFollows'
  BY <1>1, <1>2, <1>3 DEF SearchFollows, FollowsTree
<1> QED
  BY <1>4, <1>5

LEMMA DrawnKeeps == ASSUME FindInv, NEW v \in Views, Drawn(v) PROVE FindInv'
<1> USE DEF Drawn, Goes
<1>1. tree[v] \in Trees /\ tree[v] # NoTree
  BY DEF FindInv, FindTypes, NoTree
<1>2. drawing' \in [Views -> BOOLEAN] /\ \A w \in Views : w # v => drawing'[w] = drawing[w]
  BY DEF FindInv, FindTypes
<1> QED
  BY <1>1, <1>2, RebuildKeeps DEF FindInv, FindTypes

LEMMA BodyIsFound == ASSUME FilesInv, FindInv, NEW r \in requests, Body(r) PROVE FindInv'
<1> USE DEF Body, Goes, Display
<1>1. r.by \in mounted /\ r.text \in Versions
  BY DEF FilesInv, FileTypes, Requests, RequestsAgree, RequestOK
<1>2. CASE tree[r.by].of = r.text
  BY <1>2, FindKept DEF FindIdle
<1>3. CASE tree[r.by].of # r.text
  <2> PICK t : t = [of |-> r.text, drawn |-> FALSE]
    OBVIOUS
  <2>1. t \in Trees /\ t # NoTree
    BY <1>1, ViewersAssumption DEF Trees, NoTree, Versions, None
  <2>2. /\ tree' \in [Views -> Trees] /\ tree'[r.by] = t /\ Rebuild(r.by, t)
        /\ drawing' \in [Views -> BOOLEAN]
        /\ \A w \in Views : w # r.by => tree'[w] = tree[w] /\ drawing'[w] = drawing[w]
    <3>1. tree' = [tree EXCEPT ![r.by] = t] /\ drawing' = [drawing EXCEPT ![r.by] = HasArt(r.by, r.text)]
      BY <1>3
    <3>2. HasArt(r.by, r.text) \in BOOLEAN
      BY DEF HasArt
    <3>3. tree \in [Views -> Trees] /\ drawing \in [Views -> BOOLEAN] /\ r.by \in Views
      BY <1>1 DEF FindInv, FindTypes
    <3>4. Rebuild(r.by, t)
      BY <1>3
    <3> QED
      BY <2>1, <3>1, <3>2, <3>3, <3>4
  <2> QED
    BY <1>1, <2>1, <2>2, RebuildKeeps
<1> QED
  BY <1>2, <1>3

LEMMA CloseViewKeepsFind == ASSUME FindInv, NEW v \in Views, CloseView(v) PROVE FindInv'
<1> USE HitsAssumption DEF CloseView, Plays, FindInv
<1>1. /\ NoAdapter \in Searches /\ NoTree \in Trees
      /\ Nobody \in [by : Views \cup {"nobody"}, search : Searches]
  BY DEF NoAdapter, Searches, Trees, Nobody
<1>2. FindTypes'
  BY <1>1 DEF FindTypes
<1>3. /\ adapter'[v] = NoAdapter
      /\ \A w \in Views : w # v => /\ adapter'[w] = adapter[w] /\ tree'[w] = tree[w]
                                   /\ drawing'[w] = drawing[w] /\ (w \in mounted' <=> w \in mounted)
  BY DEF FindTypes
<1>4. SearchFollows'
  BY <1>3 DEF SearchFollows, FollowsTree
<1>5. PaintedIsLive'
  <2> SUFFICES ASSUME painted' # Nobody PROVE PaintedIsLive'
    BY DEF PaintedIsLive
  <2>1. adapter[v] = NoAdapter /\ painted' = painted
    OBVIOUS
  <2>2. painted.by \in Views /\ painted.by # v
    BY <2>1, PaintersSearch
  <2>3. adapter'[painted.by] = adapter[painted.by] /\ (painted.by \in mounted' <=> painted.by \in mounted)
    BY <1>3, <2>2
  <2> QED
    BY <2>1, <2>3 DEF PaintedIsLive, Total
<1> QED
  BY <1>2, <1>4, <1>5

LEMMA FindStep == FilesInv /\ FindInv /\ [ViewerNext]_viewerVars => FindInv'
<1> SUFFICES ASSUME FilesInv, FindInv, [ViewerNext]_viewerVars PROVE FindInv'
  OBVIOUS
<1>1. CASE FindIdle
  BY <1>1, FindKept
<1>2. ASSUME Revisit \/ \E v \in Views : WriteFile(v) \/ Refresh(v) \/ Copy(v) \/ CopyTimer(v)
      PROVE FindIdle
  BY <1>2 DEF FindIdle, Revisit, WriteFile, Refresh, Copy, CopyTimer, findVars
<1>3. ASSUME NEW r \in requests, Serve(r) \/ Looked(r) \/ Tagged(r) \/ Headers(r) \/ Fails(r)
      PROVE FindIdle
  BY <1>3 DEF FindIdle, Serve, Looked, Tagged, Headers, Fails, findVars
<1>4. UNCHANGED viewerVars => FindIdle
  BY DEF FindIdle, viewerVars, findVars
<1> QED
  BY <1>1, <1>2, <1>3, <1>4, TypePatternKeeps, StepMatchKeeps, OpenBarKeeps, CloseBarKeeps, DrawKeeps,
     DrawnKeeps, BodyIsFound, CloseViewKeepsFind DEF ViewerNext

(* WebPanel *)

LEMMA SignStays == (WebInit => SignGoes) /\ (SignGoes /\ [WebNext]_webVars => SignGoes')
<1>1. WebInit => SignGoes
  BY DEF WebInit, SignGoes
<1>2. ASSUME SignGoes, [WebNext]_webVars PROVE SignGoes'
  <2> USE <1>2 DEF SignGoes
  <2>1. ASSUME NEW u \in DOMAIN AddressOf, EditUrl(u) PROVE SignGoes'
    BY <2>1 DEF EditUrl
  <2>2. CASE Navigate
    BY <2>2 DEF Navigate
  <2>3. CASE ReloadFrame
    BY <2>3 DEF ReloadFrame
  <2>4. CASE PageLoaded
    BY <2>4 DEF PageLoaded
  <2>5. CASE UNCHANGED webVars
    BY <2>5 DEF webVars
  <2> QED
    BY <1>2, <2>1, <2>2, <2>3, <2>4, <2>5 DEF WebNext
<1> QED
  BY <1>1, <1>2

-----------------------------------------------------------------------------
(* MarkdownLinks *)

\* What one step of joinNormalize makes of its array, and one step of a walk of where one is.
PartDone(absolute, p, kept) ==
  IF p \in {NoName, "."} THEN kept
  ELSE IF p # ".." THEN Append(kept, p)
  ELSE IF kept # <<>> /\ Last(kept) # ".." THEN Front(kept)
  ELSE IF absolute THEN kept ELSE Append(kept, "..")

StepWalked(absolute, p, here) ==
  CASE p \in {NoName, "."} -> here
    [] p = ".." /\ here.down # <<>> -> [here EXCEPT !.down = Front(@)]
    [] p = ".." /\ here.down = <<>> -> IF absolute THEN here ELSE [here EXCEPT !.up = @ + 1]
    [] OTHER -> [here EXCEPT !.down = Append(@, p)]

Places(E) == [up : Nat, down : Seq(E)]

Normalizing(E, out, absolute, parts, n) ==
  /\ out \in [0 .. n -> Seq(E)] /\ out[0] = <<>>
  /\ Normalize(absolute, parts) = Path(absolute, out[n])
  /\ \A i \in 1 .. n : out[i] = PartDone(absolute, parts[i], out[i - 1])

Walking(E, at, absolute, parts, n) ==
  /\ at \in [0 .. n -> Places(E)] /\ at[0] = [up |-> 0, down |-> <<>>]
  /\ Walk(absolute, parts) = at[n]
  /\ \A i \in 1 .. n : at[i] = StepWalked(absolute, parts[i], at[i - 1])

\* Back up times, then down: the array of joinNormalize that a place corresponds to.
ArrivesAt(out, up, down, absolute) ==
  /\ absolute => up = 0
  /\ \A i \in 1 .. Len(down) : down[i] # ".."
  /\ Len(out) = up + Len(down)
  /\ \A i \in 1 .. up : out[i] = ".."
  /\ \A i \in 1 .. Len(down) : out[up + i] = down[i]
Arrives(out, here, absolute) == ArrivesAt(out, here.up, here.down, absolute)

\* Such an array ends with a name if and only if one is below where one turned down.
LEMMA LastSteps ==
  ASSUME NEW E, NEW out \in Seq(E), NEW u \in Nat, NEW d \in Seq(E), NEW absolute \in BOOLEAN,
         ArrivesAt(out, u, d, absolute)
  PROVE  d # <<>> <=> out # <<>> /\ Last(out) # ".."
<1> PICK m \in Nat, n \in Nat : m = Len(d) /\ n = Len(out)
  BY LenProperties
<1>1. n = u + m
  BY DEF ArrivesAt
<1>2. (d = <<>> <=> m = 0) /\ (out = <<>> <=> n = 0)
  BY EmptySeq
<1>3. Last(out) = out[n]
  BY DEF Last
<1>4. m # 0 => out[u + m] = d[m] /\ d[m] # ".."
  BY DEF ArrivesAt
<1>5. m = 0 /\ n # 0 => out[n] = ".."
  BY <1>1 DEF ArrivesAt
<1> QED
  BY <1>1, <1>2, <1>3, <1>4, <1>5

Longer(a, s, p, n) ==
  Len(a) = n + 1 /\ a[n + 1] = p /\ \A i \in 1 .. n : a[i] = s[i]

LEMMA Appended ==
  ASSUME NEW S, NEW s \in Seq(S), NEW p \in S, NEW n \in Nat, n = Len(s), NEW a, a = Append(s, p)
  PROVE  Longer(a, s, p, n)
BY AppendProperties DEF Longer

LEMMA StepDown ==
  ASSUME NEW E, NEW out \in Seq(E), NEW u \in Nat, NEW d \in Seq(E), NEW absolute \in BOOLEAN,
         ArrivesAt(out, u, d, absolute),
         NEW p \in E, p # ".."
  PROVE  ArrivesAt(Append(out, p), u, Append(d, p), absolute)
<1> PICK m \in Nat : m = Len(d)
  BY LenProperties
<1>1. /\ Len(out) = u + m /\ (absolute => u = 0)
      /\ \A i \in 1 .. m : d[i] # ".." /\ out[u + i] = d[i]
      /\ \A i \in 1 .. u : out[i] = ".."
  BY DEF ArrivesAt
<1> PICK a : a = Append(out, p)
  OBVIOUS
<1> PICK b : b = Append(d, p)
  OBVIOUS
<1> PICK n \in Nat : n = u + m
  OBVIOUS
<1>2. Len(a) = n + 1 /\ a[n + 1] = p /\ \A i \in 1 .. n : a[i] = out[i]
  <2> n = Len(out)
    BY <1>1
  <2> QED
    BY Appended DEF Longer
<1>3. Len(b) = m + 1 /\ b[m + 1] = p /\ \A i \in 1 .. m : b[i] = d[i]
  BY AppendProperties
<1>4. Len(a) = u + Len(b)
  BY <1>2, <1>3
<1>5. \A i \in 1 .. u : a[i] = ".."
  BY <1>1, <1>2
<1>6. ASSUME NEW i \in 1 .. Len(b) PROVE b[i] # ".." /\ a[u + i] = b[i]
  <2>1. CASE i = m + 1
    BY <1>2, <1>3, <2>1
  <2>2. CASE i # m + 1
    <3> i \in 1 .. m /\ u + i \in 1 .. n
      BY <1>3, <2>2
    <3> QED
      BY <1>1, <1>2, <1>3
  <2> QED
    BY <2>1, <2>2
<1> QED
  BY <1>1, <1>4, <1>5, <1>6, Zenon DEF ArrivesAt

LEMMA StepBack ==
  ASSUME NEW E, NEW out \in Seq(E), NEW u \in Nat, NEW d \in Seq(E), NEW absolute \in BOOLEAN,
         ArrivesAt(out, u, d, absolute),
         d # <<>>
  PROVE  /\ Front(out) \in Seq(E) /\ Front(d) \in Seq(E)
         /\ ArrivesAt(Front(out), u, Front(d), absolute)
<1> PICK m \in Nat : m = Len(d)
  BY LenProperties
<1>1. /\ Len(out) = u + m /\ (absolute => u = 0)
      /\ \A i \in 1 .. m : d[i] # ".." /\ out[u + i] = d[i]
      /\ \A i \in 1 .. u : out[i] = ".."
  BY DEF ArrivesAt
<1>2. m - 1 \in Nat
  BY EmptySeq
<1> PICK k \in Nat : k = m - 1
  BY <1>2
<1> PICK n \in Nat : n = u + k
  OBVIOUS
<1> PICK a : a = Front(out)
  OBVIOUS
<1> PICK b : b = Front(d)
  OBVIOUS
<1>3. a \in Seq(E) /\ Len(a) = n /\ \A i \in 1 .. n : a[i] = out[i]
  <2>1. Len(out) - 1 = n
    BY <1>1
  <2> a = SubSeq(out, 1, n)
    BY <2>1 DEF Front
  <2> QED
    BY <1>1, <1>2
<1>4. b \in Seq(E) /\ Len(b) = k /\ \A i \in 1 .. k : b[i] = d[i]
  <2> b = SubSeq(d, 1, k)
    BY DEF Front
  <2> QED
    BY <1>2
<1>5. Len(a) = u + Len(b)
  BY <1>3, <1>4
<1>6. \A i \in 1 .. u : a[i] = ".."
  <2> \A i \in 1 .. u : i \in 1 .. n
    BY <1>2
  <2> QED
    BY <1>1, <1>3
<1>7. ASSUME NEW i \in 1 .. Len(b) PROVE b[i] # ".." /\ a[u + i] = b[i]
  <2> i \in 1 .. k /\ i \in 1 .. m /\ u + i \in 1 .. n
    BY <1>2, <1>4
  <2> QED
    BY <1>1, <1>3, <1>4
<1>8. ArrivesAt(a, u, b, absolute)
  BY <1>1, <1>5, <1>6, <1>7, Zenon DEF ArrivesAt
<1> QED
  BY <1>3, <1>4, <1>8

LEMMA StepUp ==
  ASSUME NEW E, NEW out \in Seq(E), NEW u \in Nat, NEW d \in Seq(E),
         ArrivesAt(out, u, d, FALSE),
         d = <<>>, NEW p \in E, p = ".."
  PROVE  ArrivesAt(Append(out, p), u + 1, d, FALSE)
<1> PICK m \in Nat : m = Len(d)
  BY LenProperties
<1>1. m = 0
  BY EmptySeq
<1>2. Len(out) = u /\ \A i \in 1 .. u : out[i] = ".."
  BY <1>1 DEF ArrivesAt
<1> PICK a : a = Append(out, p)
  OBVIOUS
<1>3. Len(a) = u + 1 /\ a[u + 1] = p /\ \A i \in 1 .. u : a[i] = out[i]
  BY <1>2, Appended DEF Longer
<1>4. Len(a) = (u + 1) + Len(d)
  BY <1>1, <1>3
<1>5. \A i \in 1 .. u + 1 : a[i] = ".."
  BY <1>2, <1>3
<1>6. \A i \in 1 .. Len(d) : FALSE
  BY <1>1
<1> QED
  BY <1>4, <1>5, <1>6, Zenon DEF ArrivesAt

\* NoName is not the step up.
LEMMA NoNameIsNone == NoName # ".."
BY Zenon DEF NoName

Agree(E, out, here, absolute) == out \in Seq(E) /\ here \in Places(E) /\ Arrives(out, here, absolute)

\* The array of joinNormalize and where one is stay in agreement.
LEMMA StepsAgree ==
  ASSUME NEW E, NEW out, NEW here, NEW absolute \in BOOLEAN, NEW p \in E,
         Agree(E, out, here, absolute)
  PROVE  Agree(E, PartDone(absolute, p, out), StepWalked(absolute, p, here), absolute)
<1> PICK d \in Seq(E), u \in Nat : here = [up |-> u, down |-> d]
  BY DEF Agree, Places
<1>1. out \in Seq(E) /\ ArrivesAt(out, u, d, absolute)
  BY DEF Agree, Arrives
<1>2. ASSUME NEW a \in Seq(E), NEW v \in Nat, NEW b \in Seq(E), ArrivesAt(a, v, b, absolute),
             PartDone(absolute, p, out) = a, StepWalked(absolute, p, here) = [up |-> v, down |-> b]
      PROVE  Agree(E, PartDone(absolute, p, out), StepWalked(absolute, p, here), absolute)
  BY <1>2 DEF Agree, Places, Arrives
<1>3. CASE p \in {NoName, "."}
  <2>1. PartDone(absolute, p, out) = out /\ StepWalked(absolute, p, here) = [up |-> u, down |-> d]
    BY <1>3, NoNameIsNone DEF PartDone, StepWalked
  <2> QED
    BY <1>1, <1>2, <2>1
<1>4. CASE p \notin {NoName, ".", ".."}
  <2>1. Append(out, p) \in Seq(E) /\ Append(d, p) \in Seq(E)
    BY <1>1, AppendProperties
  <2>2. ArrivesAt(Append(out, p), u, Append(d, p), absolute)
    <3> p # ".."
      BY <1>4, Zenon
    <3> QED
      BY <1>1, StepDown
  <2>3. PartDone(absolute, p, out) = Append(out, p)
    BY <1>4 DEF PartDone
  <2>4. StepWalked(absolute, p, here) = [up |-> u, down |-> Append(d, p)]
    BY <1>4 DEF StepWalked
  <2> QED
    BY <1>2, <2>1, <2>2, <2>3, <2>4, Zenon
<1>5. CASE p = ".." /\ d # <<>>
  <2>1. /\ Front(out) \in Seq(E) /\ Front(d) \in Seq(E)
        /\ ArrivesAt(Front(out), u, Front(d), absolute)
    BY <1>1, <1>5, StepBack
  <2>2. out # <<>> /\ Last(out) # ".."
    BY <1>1, <1>5, LastSteps
  <2>3. PartDone(absolute, p, out) = Front(out)
    BY <1>5, <2>2, NoNameIsNone DEF PartDone
  <2>4. StepWalked(absolute, p, here) = [up |-> u, down |-> Front(d)]
    BY <1>5, NoNameIsNone DEF StepWalked
  <2> QED
    BY <1>2, <2>1, <2>3, <2>4, Zenon
<1>6. CASE p = ".." /\ d = <<>>
  <2>1. ~ (out # <<>> /\ Last(out) # "..")
    <3>1. d # <<>> <=> out # <<>> /\ Last(out) # ".."
      BY <1>1, LastSteps
    <3> QED
      BY <1>6, <3>1, Zenon
  <2>2. CASE absolute
    <3>1. PartDone(absolute, p, out) = out
      BY <1>6, <2>1, <2>2, NoNameIsNone DEF PartDone
    <3>2. StepWalked(absolute, p, here) = [up |-> u, down |-> d]
      BY <1>6, <2>2, NoNameIsNone DEF StepWalked
    <3> QED
      BY <1>1, <1>2, <3>1, <3>2, Zenon
  <2>3. CASE ~ absolute
    <3>1. Append(out, p) \in Seq(E) /\ u + 1 \in Nat
      BY <1>1, AppendProperties
    <3>2. ArrivesAt(Append(out, p), u + 1, d, absolute)
      BY <1>1, <1>6, <2>3, StepUp
    <3>3. PartDone(absolute, p, out) = Append(out, p)
      BY <1>6, <2>1, <2>3, NoNameIsNone DEF PartDone
    <3>4. StepWalked(absolute, p, here) = [up |-> u + 1, down |-> d]
      BY <1>6, <2>3, NoNameIsNone DEF StepWalked
    <3> QED
      BY <1>2, <3>1, <3>2, <3>3, <3>4, Zenon
  <2> QED
    BY <2>2, <2>3
<1> QED
  BY <1>3, <1>4, <1>5, <1>6

LEMMA PartIsTyped ==
  ASSUME NEW E, NEW absolute \in BOOLEAN, NEW p \in E, NEW out \in Seq(E)
  PROVE  PartDone(absolute, p, out) \in Seq(E)
<1>1. CASE p # ".."
  BY <1>1, AppendProperties DEF PartDone
<1>2. CASE p = ".."
  <2>1. Append(out, p) \in Seq(E)
    BY AppendProperties
  <2>2. out # <<>> => Front(out) \in Seq(E)
    <3> SUFFICES ASSUME out # <<>> PROVE Front(out) \in Seq(E)
      OBVIOUS
    <3> PICK n \in Nat : n = Len(out) - 1
      BY EmptySeq
    <3> Front(out) = SubSeq(out, 1, n)
      BY DEF Front
    <3> QED
      OBVIOUS
  <2> QED
    BY <1>2, <2>1, <2>2 DEF PartDone
<1> QED
  BY <1>1, <1>2

LEMMA StepIsTyped ==
  ASSUME NEW E, NEW absolute \in BOOLEAN, NEW p \in E, NEW here \in Places(E)
  PROVE  StepWalked(absolute, p, here) \in Places(E)
<1> PICK d \in Seq(E), u \in Nat : here = [up |-> u, down |-> d]
  BY DEF Places
<1>1. Append(d, p) \in Seq(E)
  BY AppendProperties
<1>2. d # <<>> => Front(d) \in Seq(E)
  <2> SUFFICES ASSUME d # <<>> PROVE Front(d) \in Seq(E)
    OBVIOUS
  <2> PICK n \in Nat : n = Len(d) - 1
    BY EmptySeq
  <2> Front(d) = SubSeq(d, 1, n)
    BY DEF Front
  <2> QED
    OBVIOUS
<1>3. CASE p \in {NoName, "."}
  BY <1>3, NoNameIsNone DEF StepWalked
<1>4. CASE p = ".."
  BY <1>2, <1>4, NoNameIsNone DEF StepWalked, Places
<1>5. CASE p \notin {NoName, ".", ".."}
  BY <1>1, <1>5 DEF StepWalked, Places
<1> QED
  BY <1>3, <1>4, <1>5

\* The array of joinNormalize, step by step.
LEMMA NormalizeSteps ==
  ASSUME NEW E, NEW absolute \in BOOLEAN, NEW parts \in Seq(E), NEW n \in Nat, n = Len(parts)
  PROVE  \E f : Normalizing(E, f, absolute, parts, n)
<1> DEFINE Done(f) == f = [i \in 0 .. n |-> IF i = 0 THEN <<>> ELSE PartDone(absolute, parts[i], f[i - 1])]
           F == [q \in (1 .. n) \X Seq(E) |-> PartDone(absolute, parts[q[1]], q[2])]
<1>1. \A i \in 1 .. n : parts[i] \in E
  BY ElementOfSeq
<1>2. F \in [(1 .. n) \X Seq(E) -> Seq(E)]
  BY <1>1, PartIsTyped
<1>3. \A i \in 1 .. n, q \in Seq(E) : F[<<i, q>>] = PartDone(absolute, parts[i], q)
  OBVIOUS
<1> HIDE DEF F
<1> PICK e \in Seq(E) : e = <<>>
  BY EmptySeq DEF Places
<1>4. PICK g \in [0 .. n -> Seq(E)] : g[0] = e /\ \A i \in 1 .. n : g[i] = F[<<i, g[i - 1]>>]
  <2> PICK V : V = Seq(E)
    OBVIOUS
  <2>1. e \in V /\ F \in [(1 .. n) \X V -> V]
    BY <1>2
  <2>2. \E g : Stepping(g, n, V, e, F)
    BY <2>1, StepByStep
  <2> QED
    BY <2>2 DEF Stepping
<1>5. ASSUME NEW i \in 1 .. n PROVE g[i] = PartDone(absolute, parts[i], g[i - 1])
  <2> i - 1 \in 0 .. n
    OBVIOUS
  <2> g[i - 1] \in Seq(E)
    OBVIOUS
  <2> QED
    BY <1>3, <1>4
<1>6. Done(g)
  <2>1. \A i \in 0 .. n : i = 0 \/ i \in 1 .. n
    OBVIOUS
  <2>2. ASSUME NEW i \in 0 .. n
        PROVE  g[i] = IF i = 0 THEN <<>> ELSE PartDone(absolute, parts[i], g[i - 1])
    BY <1>4, <1>5, <2>1, Zenon
  <2> QED
    BY <2>2, Zenon
<1>7. PICK f : f = CHOOSE h : Done(h)
  OBVIOUS
<1>8. Done(f)
  BY <1>6, <1>7
<1>9. Normalize(absolute, parts) = Path(absolute, f[n])
  BY <1>7 DEF Normalize, PartDone
<1>10. f[0] = <<>>
  BY <1>8
<1>11. ASSUME NEW i \in 1 .. n PROVE f[i] = PartDone(absolute, parts[i], f[i - 1])
  <2> i \in 0 .. n /\ i # 0
    OBVIOUS
  <2> QED
    BY <1>8, Zenon
<1>12. f = [i \in 0 .. n |-> f[i]]
  BY <1>8
<1> HIDE DEF Done
<1>13. ASSUME NEW i \in 0 .. n PROVE f[i] \in Seq(E)
  <2> DEFINE T == {j \in 0 .. n : f[j] \notin Seq(E)}
  <2>1. ASSUME T # {} PROVE FALSE
    <3>1. T \in SUBSET Nat
      OBVIOUS
    <3> HIDE DEF T
    <3>2. PICK k \in T : \A j \in T : k <= j
      BY <2>1, <3>1, LeastNat
    <3> USE DEF T
    <3>3. k # 0
      BY <1>10, <3>2
    <3>4. k \in 1 .. n /\ k - 1 \in 0 .. n /\ k - 1 \notin T
      BY <3>2, <3>3
    <3>5. f[k - 1] \in Seq(E) /\ parts[k] \in E
      BY <1>1, <3>4
    <3>6. f[k] = PartDone(absolute, parts[k], f[k - 1])
      BY <1>11, <3>4, Zenon
    <3>7. f[k] \in Seq(E)
      BY <3>5, <3>6, PartIsTyped
    <3> QED
      BY <3>2, <3>7
  <2> QED
    BY <2>1
<1>14. f \in [0 .. n -> Seq(E)]
  BY <1>12, <1>13
<1> QED
  BY <1>9, <1>10, <1>11, <1>14, Zenon DEF Normalizing

\* The walk, step by step.
LEMMA WalkSteps ==
  ASSUME NEW E, NEW absolute \in BOOLEAN, NEW parts \in Seq(E), NEW n \in Nat, n = Len(parts)
  PROVE  \E f : Walking(E, f, absolute, parts, n)
<1> DEFINE Done(f) == f = [i \in 0 .. n |-> IF i = 0 THEN [up |-> 0, down |-> <<>>] ELSE StepWalked(absolute, parts[i], f[i - 1])]
           F == [q \in (1 .. n) \X Places(E) |-> StepWalked(absolute, parts[q[1]], q[2])]
<1>1. \A i \in 1 .. n : parts[i] \in E
  BY ElementOfSeq
<1>2. F \in [(1 .. n) \X Places(E) -> Places(E)]
  BY <1>1, StepIsTyped
<1>3. \A i \in 1 .. n, q \in Places(E) : F[<<i, q>>] = StepWalked(absolute, parts[i], q)
  OBVIOUS
<1> HIDE DEF F
<1> PICK e \in Places(E) : e = [up |-> 0, down |-> <<>>]
  BY EmptySeq DEF Places
<1>4. PICK g \in [0 .. n -> Places(E)] : g[0] = e /\ \A i \in 1 .. n : g[i] = F[<<i, g[i - 1]>>]
  <2> PICK V : V = Places(E)
    OBVIOUS
  <2>1. e \in V /\ F \in [(1 .. n) \X V -> V]
    BY <1>2
  <2>2. \E g : Stepping(g, n, V, e, F)
    BY <2>1, StepByStep
  <2> QED
    BY <2>2 DEF Stepping
<1>5. ASSUME NEW i \in 1 .. n PROVE g[i] = StepWalked(absolute, parts[i], g[i - 1])
  <2> i - 1 \in 0 .. n
    OBVIOUS
  <2> g[i - 1] \in Places(E)
    OBVIOUS
  <2> QED
    BY <1>3, <1>4
<1>6. Done(g)
  <2>1. \A i \in 0 .. n : i = 0 \/ i \in 1 .. n
    OBVIOUS
  <2>2. ASSUME NEW i \in 0 .. n
        PROVE  g[i] = IF i = 0 THEN [up |-> 0, down |-> <<>>] ELSE StepWalked(absolute, parts[i], g[i - 1])
    BY <1>4, <1>5, <2>1, Zenon
  <2> QED
    BY <2>2, Zenon
<1>7. PICK f : f = CHOOSE h : Done(h)
  OBVIOUS
<1>8. Done(f)
  BY <1>6, <1>7
<1>9. Walk(absolute, parts) = f[n]
  BY <1>7 DEF Walk, StepWalked
<1>10. f[0] = [up |-> 0, down |-> <<>>]
  BY <1>8
<1>11. ASSUME NEW i \in 1 .. n PROVE f[i] = StepWalked(absolute, parts[i], f[i - 1])
  <2> i \in 0 .. n /\ i # 0
    OBVIOUS
  <2> QED
    BY <1>8, Zenon
<1>12. f = [i \in 0 .. n |-> f[i]]
  BY <1>8
<1> HIDE DEF Done
<1>13. ASSUME NEW i \in 0 .. n PROVE f[i] \in Places(E)
  <2> DEFINE T == {j \in 0 .. n : f[j] \notin Places(E)}
  <2>1. ASSUME T # {} PROVE FALSE
    <3>1. T \in SUBSET Nat
      OBVIOUS
    <3> HIDE DEF T
    <3>2. PICK k \in T : \A j \in T : k <= j
      BY <2>1, <3>1, LeastNat
    <3> USE DEF T
    <3>3. k # 0
      BY <1>10, <3>2
    <3>4. k \in 1 .. n /\ k - 1 \in 0 .. n /\ k - 1 \notin T
      BY <3>2, <3>3
    <3>5. f[k - 1] \in Places(E) /\ parts[k] \in E
      BY <1>1, <3>4
    <3>6. f[k] = StepWalked(absolute, parts[k], f[k - 1])
      BY <1>11, <3>4, Zenon
    <3>7. f[k] \in Places(E)
      BY <3>5, <3>6, StepIsTyped
    <3> QED
      BY <3>2, <3>7
  <2> QED
    BY <2>1
<1>14. f \in [0 .. n -> Places(E)]
  BY <1>12, <1>13
<1> QED
  BY <1>9, <1>10, <1>11, <1>14, Zenon DEF Walking

\* What joinNormalize makes of the parts of a path is where one arrives who walks along them.
LEMMA NormalizeWalks ==
  ASSUME NEW E, NEW absolute \in BOOLEAN, NEW parts \in Seq(E), NEW to, to = Normalize(absolute, parts),
         NEW end, end = Walk(absolute, parts)
  PROVE  to.absolute = absolute /\ Agree(E, to.parts, end, absolute)
<1> PICK n \in Nat : n = Len(parts)
  BY LenProperties
<1>1. (\E f : Normalizing(E, f, absolute, parts, n)) /\ \E f : Walking(E, f, absolute, parts, n)
  BY NormalizeSteps, WalkSteps
<1> PICK f : Normalizing(E, f, absolute, parts, n)
  BY <1>1
<1> PICK g : Walking(E, g, absolute, parts, n)
  BY <1>1
<1>2. \A i \in 1 .. n : parts[i] \in E
  BY ElementOfSeq
<1> DEFINE T == {i \in 0 .. n : ~ Agree(E, f[i], g[i], absolute)}
<1>3. ASSUME T # {} PROVE FALSE
  <2>1. T \in SUBSET Nat
    OBVIOUS
  <2> HIDE DEF T
  <2>2. PICK k \in T : \A j \in T : k <= j
    BY <1>3, <2>1, LeastNat
  <2> USE DEF T
  <2>3. Agree(E, f[0], g[0], absolute)
    <3> PICK e \in Seq(E) : e = <<>> /\ Len(e) = 0
      BY EmptySeq
    <3>1. f[0] = e /\ g[0] = [up |-> 0, down |-> e]
      BY DEF Normalizing, Walking
    <3>2. ArrivesAt(e, 0, e, absolute)
      BY DEF ArrivesAt
    <3> QED
      BY <3>1, <3>2 DEF Agree, Arrives, Places
  <2>4. k \in 1 .. n /\ k - 1 \in 0 .. n /\ k - 1 \notin T
    BY <2>2, <2>3
  <2>5. Agree(E, f[k - 1], g[k - 1], absolute) /\ parts[k] \in E
    BY <1>2, <2>4
  <2>6. Agree(E, PartDone(absolute, parts[k], f[k - 1]), StepWalked(absolute, parts[k], g[k - 1]), absolute)
    BY <2>5, StepsAgree
  <2>7. f[k] = PartDone(absolute, parts[k], f[k - 1]) /\ g[k] = StepWalked(absolute, parts[k], g[k - 1])
    BY <2>4 DEF Normalizing, Walking
  <2> QED
    BY <2>2, <2>6, <2>7
<1>4. n \in 0 .. n
  OBVIOUS
<1>5. Agree(E, f[n], g[n], absolute)
  BY <1>3, <1>4
<1>6. to = Path(absolute, f[n]) /\ end = g[n]
  BY DEF Normalizing, Walking
<1> QED
  BY <1>5, <1>6 DEF Path

\* Up times "..", then down: the array is that list.
LEMMA ListOfPlace ==
  ASSUME NEW E, NEW out, NEW here, NEW absolute \in BOOLEAN, Agree(E, out, here, absolute)
  PROVE  out = [i \in 1 .. here.up |-> ".."] \o here.down
<1> PICK d \in Seq(E), u \in Nat : here = [up |-> u, down |-> d]
  BY DEF Agree, Places
<1> PICK m \in Nat : m = Len(d)
  BY LenProperties
<1>1. /\ out \in Seq(E) /\ Len(out) = u + m
      /\ \A i \in 1 .. m : out[u + i] = d[i]
      /\ \A i \in 1 .. u : out[i] = ".."
  BY DEF Agree, Arrives, ArrivesAt
<1> PICK s : s = [i \in 1 .. u |-> ".."]
  OBVIOUS
<1>2. s \in Seq(E) /\ Len(s) = u /\ \A i \in 1 .. u : s[i] = ".."
  <2> s = [i \in 1 .. u |-> out[i]] /\ \A i \in 1 .. u : out[i] \in E
    BY <1>1, ElementOfSeq
  <2> QED
    OBVIOUS
<1> PICK c : c = s \o d
  OBVIOUS
<1>3. /\ c \in Seq(E) /\ Len(c) = u + m
      /\ \A i \in 1 .. u + m : c[i] = IF i <= u THEN s[i] ELSE d[i - u]
  BY <1>2, ConcatProperties
<1>4. ASSUME NEW i \in 1 .. u + m PROVE out[i] = c[i]
  <2>1. CASE i <= u
    BY <1>1, <1>2, <1>3, <2>1
  <2>2. CASE ~ (i <= u)
    <3> PICK k \in 1 .. m : k = i - u
      BY <2>2
    <3>1. i = u + k
      OBVIOUS
    <3> QED
      BY <1>1, <1>3, <2>2, <3>1
  <2> QED
    BY <2>1, <2>2
<1>5. out = c
  BY <1>1, <1>3, <1>4, SeqEqual
<1> QED
  BY <1>5

\* A link opens the file one arrives at who walks along it, whatever the paths.
LEMMA LinksWalk ==
  ASSUME NEW E, NEW file \in [absolute : BOOLEAN, parts : Seq(E)],
         NEW link \in [absolute : BOOLEAN, parts : Seq(E)]
  PROVE  LinkIsWalk(file, link)
<1> PICK dir : dir = Dirname(file).parts
  OBVIOUS
<1>1. dir \in Seq(E)
  <2> PICK n \in Nat : n = Len(file.parts)
    BY LenProperties
  <2>1. CASE n <= 1
    BY <2>1, EmptySeq DEF Dirname, Path
  <2>2. CASE n > 1
    <3>1. dir = SubSeq(file.parts, 1, n - 1) /\ n - 1 \in Nat
      BY <2>2 DEF Dirname, Path, Front
    <3> QED
      BY <3>1
  <2> QED
    BY <2>1, <2>2
<1>2. dir \o link.parts \in Seq(E)
  BY <1>1, ConcatProperties
<1> PICK parts \in Seq(E), absolute \in BOOLEAN :
      /\ parts = IF link.absolute THEN link.parts ELSE dir \o link.parts
      /\ absolute = IF link.absolute THEN TRUE ELSE file.absolute
  BY <1>2
<1> PICK to, end : to = Normalize(absolute, parts) /\ end = Walk(absolute, parts)
  OBVIOUS
<1>3. to.absolute = absolute /\ Agree(E, to.parts, end, absolute)
  BY NormalizeWalks
<1>4. to.parts = [i \in 1 .. end.up |-> ".."] \o end.down
  BY <1>3, ListOfPlace
<1>5. CASE link.absolute
  BY <1>3, <1>4, <1>5 DEF LinkIsWalk, Resolve
<1>6. CASE ~ link.absolute
  BY <1>3, <1>4, <1>6 DEF LinkIsWalk, Resolve
<1> QED
  BY <1>5, <1>6
=============================================================================
