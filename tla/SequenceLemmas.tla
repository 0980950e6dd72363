--------------------------- MODULE SequenceLemmas ---------------------------
(***************************************************************************)
(* What a loop over a sequence computes can be proved for a sequence of    *)
(* any length: that a set of naturals has a least element follows from the *)
(* finite sets 0 .. n, ordered by inclusion, being well-founded; from that *)
(* follow induction over the turns of a loop, that a recursive function    *)
(* has the values its equation gives, what Keep keeps and what FlattenSeq  *)
(* joins.  The second part is about the loops that read SWIFT MT text, for *)
(* a text of any length and any kinds of lines, each in three steps:       *)
(*   - the recursive function that models the loop passes through a state  *)
(*     after each turn (ParseRecursion, SplitRecursion, ...);              *)
(*   - a turn keeps a property of that state (LineFolded, FieldsKept, ...);*)
(*   - so its result has it (ParsedFields, SplitShape, BareGroups).        *)
(***************************************************************************)
EXTENDS MtText, Selection, FiniteSetsExt, FiniteSetTheorems, TLAPS

\* A set of naturals that is not empty has a least element.
LEMMA LeastElement ==
  ASSUME NEW T \in SUBSET Nat, T # {}
  PROVE  \E n \in T : \A m \in T : n <= m
<1> DEFINE R == StrictSubsetOrdering(Nat)
           B == {0 .. n : n \in T}
<1>1. B \subseteq FiniteSubsetsOf(Nat) /\ B # {}
  <2>1. \A n \in Nat : 0 .. n \in SUBSET Nat /\ IsFiniteSet(0 .. n)
    BY FS_Interval
  <2> QED
    BY <2>1 DEF FiniteSubsetsOf
<1>2. IsWellFoundedOn(R, FiniteSubsetsOf(Nat))
  BY FS_StrictSubsetOrderingWellFounded
<1>3. \E x \in B : \A y \in B : ~(<<y, x>> \in R)
  <2> HIDE DEF R, B
  <2> QED BY <1>1, <1>2, WFMin
<1>4. PICK n \in T : \A m \in T : ~(<<0 .. m, 0 .. n>> \in R)
  BY <1>3
<1>5. \A m \in T : n <= m
  <2> SUFFICES ASSUME NEW m \in T, m < n PROVE FALSE
    OBVIOUS
  <2>1. 0 .. m \in SUBSET Nat /\ 0 .. n \in SUBSET Nat /\ 0 .. m \subseteq 0 .. n
    OBVIOUS
  <2>2. n \in 0 .. n /\ n \notin 0 .. m
    OBVIOUS
  <2> QED
    BY <1>4, <2>1, <2>2 DEF StrictSubsetOrdering
<1> QED
  BY <1>5

\* Induction over the turns of a loop: T is the set of those it holds after.
LEMMA PrefixInduction ==
  ASSUME NEW n \in Nat, NEW T, 0 \in T, \A k \in 1 .. n : k - 1 \in T => k \in T
  PROVE  0 .. n \subseteq T
<1> SUFFICES ASSUME (0 .. n) \ T # {} PROVE FALSE
  OBVIOUS
<1>1. PICK k \in (0 .. n) \ T : \A m \in (0 .. n) \ T : k <= m
  <2> (0 .. n) \ T \in SUBSET Nat
    OBVIOUS
  <2> QED BY LeastElement
<1>2. k \in 1 .. n /\ k - 1 \in T
  BY <1>1
<1> QED
  BY <1>1, <1>2

\* g is what a loop of n turns passes through, from b by the steps st.
Runs(g, n, S, b, st) ==
  g \in [0 .. n -> S] /\ g[0] = b /\ \A k \in 1 .. n : g[k] = st[k][g[k - 1]]

\* Every loop passes through something.
LEMMA Recursion ==
  ASSUME NEW n \in Nat, NEW S, NEW b \in S, NEW st \in [1 .. n -> [S -> S]]
  PROVE  \E g : Runs(g, n, S, b, st)
<1> DEFINE Up(g, m) == \A k \in 0 .. m : g[k] = IF k = 0 THEN b ELSE st[k][g[k - 1]]
           T == {m \in 0 .. n : \E g \in [0 .. m -> S] : Up(g, m)}
<1>1. 0 \in T
  <2> DEFINE g == [k \in 0 .. 0 |-> b]
  <2>1. g \in [0 .. 0 -> S] /\ \A k \in 0 .. 0 : g[k] = b /\ k = 0
    OBVIOUS
  <2> HIDE DEF g
  <2>2. Up(g, 0)
    BY <2>1
  <2> QED
    BY <2>1, <2>2
<1>2. ASSUME NEW m \in 1 .. n, m - 1 \in T PROVE m \in T
  <2>1. PICK g \in [0 .. m - 1 -> S] : Up(g, m - 1)
    BY <1>2
  <2> DEFINE x == st[m][g[m - 1]]
             h == [k \in 0 .. m |-> IF k = m THEN x ELSE g[k]]
  <2>2. x \in S
    OBVIOUS
  <2>3. /\ h \in [0 .. m -> S] /\ h[m] = x /\ \A k \in 0 .. m - 1 : h[k] = g[k]
    <3> HIDE DEF x
    <3> QED BY <2>2
  <2>4. \A k \in 0 .. m : h[k] = IF k = 0 THEN b ELSE st[k][h[k - 1]]
    <3> SUFFICES ASSUME NEW k \in 0 .. m PROVE h[k] = IF k = 0 THEN b ELSE st[k][h[k - 1]]
      OBVIOUS
    <3> HIDE DEF h
    <3>1. CASE k = m
      <4>1. k - 1 = m - 1 /\ k # 0 /\ m - 1 \in 0 .. m - 1
        BY <3>1
      <4> QED
        BY <3>1, <4>1, <2>3
    <3>2. CASE k # m
      <4>1. k \in 0 .. m - 1 /\ (k # 0 => k - 1 \in 0 .. m - 1)
        BY <3>2
      <4> QED
        BY <4>1, <2>3, <2>1
    <3> QED
      BY <3>1, <3>2
  <2> HIDE DEF h
  <2>5. Up(h, m)
    BY <2>4
  <2>6. m \in 0 .. n
    OBVIOUS
  <2> HIDE DEF Up
  <2> QED
    BY <2>3, <2>5, <2>6
<1> HIDE DEF T
<1>3. 0 .. n \subseteq T
  BY <1>1, <1>2, PrefixInduction
<1>4. PICK g \in [0 .. n -> S] : Up(g, n)
  BY <1>3 DEF T
<1>5. g[0] = b /\ \A k \in 1 .. n : g[k] = st[k][g[k - 1]]
  BY <1>4
<1> QED
  BY <1>5 DEF Runs

\* A sequence with one more element.
LEMMA Longer ==
  ASSUME NEW S, NEW s \in Seq(S), NEW e \in S
  PROVE  /\ Append(s, e) \in Seq(S) /\ Len(Append(s, e)) = Len(s) + 1
         /\ \A i \in 1 .. Len(s) : Append(s, e)[i] = s[i]
         /\ Append(s, e)[Len(s) + 1] = e
OBVIOUS

\* A sequence over a set is one over a larger set.
LEMMA WiderSeq ==
  ASSUME NEW S, NEW T, S \subseteq T, NEW s \in Seq(S)
  PROVE  s \in Seq(T)
OBVIOUS

\* One sequence after another.
LEMMA Concat ==
  ASSUME NEW S, NEW s \in Seq(S), NEW t \in Seq(S)
  PROVE  /\ s \o t \in Seq(S) /\ Len(s \o t) = Len(s) + Len(t)
         /\ \A i \in 1 .. Len(s) : (s \o t)[i] = s[i]
         /\ \A i \in Len(s) + 1 .. Len(s) + Len(t) : (s \o t)[i] = t[i - Len(s)]
OBVIOUS

\* Three parts in a row.
LEMMA ConcatAssociates ==
  ASSUME NEW S, NEW s \in Seq(S), NEW t \in Seq(S), NEW u \in Seq(S)
  PROVE  (s \o t) \o u = s \o (t \o u)
<1> DEFINE x == s \o t y == t \o u a == x \o u b == s \o y
           l == Len(s) m == Len(t) n == Len(u)
<1>1. l \in Nat /\ m \in Nat /\ n \in Nat
  OBVIOUS
<1>2. /\ x \in Seq(S) /\ Len(x) = l + m /\ (\A p \in 1 .. l : x[p] = s[p])
      /\ \A p \in l + 1 .. l + m : x[p] = t[p - l]
  BY Concat
<1>3. /\ y \in Seq(S) /\ Len(y) = m + n /\ (\A p \in 1 .. m : y[p] = t[p])
      /\ \A p \in m + 1 .. m + n : y[p] = u[p - m]
  BY Concat
<1> HIDE DEF x, y
<1>21. x \in Seq(S) /\ y \in Seq(S)
  BY <1>2, <1>3
<1>4. /\ a \in Seq(S) /\ Len(a) = Len(x) + n /\ (\A p \in 1 .. Len(x) : a[p] = x[p])
      /\ \A p \in Len(x) + 1 .. Len(x) + n : a[p] = u[p - Len(x)]
  BY <1>21, Concat
<1>5. /\ b \in Seq(S) /\ Len(b) = l + Len(y) /\ (\A p \in 1 .. l : b[p] = s[p])
      /\ \A p \in l + 1 .. l + Len(y) : b[p] = y[p - l]
  BY <1>21, Concat
<1> HIDE DEF a, b, l, m, n
<1>6. /\ \A p \in 1 .. l + m : a[p] = x[p]
      /\ \A p \in l + m + 1 .. l + m + n : a[p] = u[p - (l + m)]
      /\ \A p \in l + 1 .. l + m + n : b[p] = y[p - l]
      /\ Len(a) = l + m + n /\ Len(b) = l + m + n
  BY <1>1, <1>2, <1>3, <1>4, <1>5
<1>7. ASSUME NEW p \in 1 .. l + m + n PROVE a[p] = b[p]
  <2>1. CASE p \in 1 .. l
    <3>1. p \in 1 .. l + m
      BY <1>1, <2>1
    <3> QED
      BY <1>2, <1>5, <1>6, <2>1, <3>1
  <2>2. CASE p \in l + 1 .. l + m
    <3>1. p \in 1 .. l + m /\ p \in l + 1 .. l + m + n /\ p - l \in 1 .. m
      BY <1>1, <2>2
    <3> QED
      BY <1>2, <1>3, <1>6, <2>2, <3>1
  <2>3. CASE p \in l + m + 1 .. l + m + n
    <3>1. p \in l + 1 .. l + m + n /\ p - l \in m + 1 .. m + n /\ (p - l) - m = p - (l + m)
      BY <1>1, <2>3
    <3> QED
      BY <1>3, <1>6, <2>3, <3>1
  <2> QED
    BY <1>1, <2>1, <2>2, <2>3
<1>8. a = b
  BY <1>4, <1>5, <1>6, <1>7
<1> QED
  BY <1>8 DEF a, b, x, y

\* r is s with e for its last element.
LastChanged(r, s, S, e) ==
  /\ r \in Seq(S) /\ Len(r) = Len(s) /\ r[Len(s)] = e /\ Len(s) \in Nat \ {0}
  /\ \A i \in 1 .. Len(s) - 1 : r[i] = s[i]

\* Changing the last element leaves the others.
LEMMA ChangedLast ==
  ASSUME NEW S, NEW s \in Seq(S), s # <<>>, NEW e \in S
  PROVE  LastChanged([s EXCEPT ![Len(s)] = e], s, S, e)
BY DEF LastChanged

\* One more element in the last of several sequences.
LEMMA LongerLast ==
  ASSUME NEW S, NEW q \in Seq(Seq(S)), q # <<>>, NEW l \in S
  PROVE  /\ LastChanged([q EXCEPT ![Len(q)] = Append(@, l)], q, Seq(S), Append(q[Len(q)], l))
         /\ q[Len(q)] \in Seq(S)
<1> DEFINE e == Append(q[Len(q)], l)
           X == Seq(S)
<1>1. Len(q) \in 1 .. Len(q) /\ q[Len(q)] \in Seq(S)
  OBVIOUS
<1>2. e \in X
  BY <1>1
<1>3. q \in Seq(X) /\ q # <<>>
  OBVIOUS
<1>4. LastChanged([q EXCEPT ![Len(q)] = e], q, X, e)
  <2> HIDE DEF e, X
  <2> QED
    BY Zenon, <1>2, <1>3, ChangedLast
<1> QED
  BY <1>1, <1>4

\* c holds the elements of s at the positions in I, and at says which is which.
IsKept(s, I, c, at) ==
  /\ at \in [1 .. Len(c) -> I]
  /\ \A j \in 1 .. Len(c) : c[j] = s[at[j]]
  /\ \A j, k \in 1 .. Len(c) : j < k => at[j] < at[k]
  /\ \A i \in I : \E j \in 1 .. Len(c) : at[j] = i

\* g is what has been kept of the first k elements, for every k.
Keeps(g, S, s, I) ==
  /\ g \in [0 .. Len(s) -> Seq(S)] /\ g[0] = <<>>
  /\ \A k \in 1 .. Len(s) : g[k] = IF k \in I THEN Append(g[k - 1], s[k]) ELSE g[k - 1]

\* Keep passes through it.
LEMMA KeepRecursion ==
  ASSUME NEW S, NEW s \in Seq(S), NEW I
  PROVE  \E g : Keeps(g, S, s, I) /\ Keep(s, I) = g[Len(s)]
<1> DEFINE n == Len(s)
           T == Seq(S)
           b == <<>>
           step(k, q) == IF k \in I THEN Append(q, s[k]) ELSE q
           st == [k \in 1 .. n |-> [q \in T |-> step(k, q)]]
           Up(f) == f = [k \in 0 .. n |-> IF k = 0 THEN b ELSE step(k, f[k - 1])]
           h == CHOOSE f : Up(f)
<1>1. n \in Nat /\ b \in T /\ \A k \in 1 .. n : \A q \in T : step(k, q) \in T
  OBVIOUS
<1>2. Keep(s, I) = h[n]
  BY DEF Keep
<1> HIDE DEF n, T, step, b
<1>3. st \in [1 .. n -> [T -> T]] /\ \A k \in 1 .. n : \A q \in T : st[k][q] = step(k, q)
  BY <1>1
<1> HIDE DEF st
<1>4. PICK g : Runs(g, n, T, b, st)
  BY <1>1, <1>3, Recursion
<1>5. g \in [0 .. n -> T] /\ \A k \in 0 .. n : g[k] = IF k = 0 THEN b ELSE step(k, g[k - 1])
  BY <1>1, <1>3, <1>4 DEF Runs
<1>6. Up(g)
  BY <1>5
<1>7. Up(h)
  BY <1>6
<1> HIDE DEF h
<1>8. h[0] = b /\ \A k \in 1 .. n : h[k] = step(k, h[k - 1])
  <2>1. \A k \in 0 .. n : h[k] = IF k = 0 THEN b ELSE step(k, h[k - 1])
    BY <1>7
  <2>2. 0 \in 0 .. n /\ \A k \in 1 .. n : k \in 0 .. n /\ k # 0
    BY <1>1
  <2> QED
    BY <2>1, <2>2
<1>9. h \in [0 .. n -> T]
  <2> DEFINE A == {k \in 0 .. n : h[k] \in T}
  <2>1. 0 \in A /\ \A k \in 1 .. n : k - 1 \in A => k \in A
    BY <1>1, <1>8
  <2> HIDE DEF A
  <2>2. 0 .. n \subseteq A
    BY <1>1, <2>1, PrefixInduction
  <2> QED
    BY <1>7, <2>2 DEF A
<1> QED
  BY <1>2, <1>8, <1>9 DEF n, T, step, b, Keeps

\* One more element, kept.
LEMMA KeptMore ==
  ASSUME NEW S, NEW s \in Seq(S), NEW I, NEW m \in 1 .. Len(s), m \in I,
         NEW c \in Seq(S), NEW at, IsKept(s, I \cap (1 .. m - 1), c, at)
  PROVE  \E nat : IsKept(s, I \cap (1 .. m), Append(c, s[m]), nat)
<1> DEFINE d == Append(c, s[m])
           l == Len(c)
           new == [j \in 1 .. l + 1 |-> IF j = l + 1 THEN m ELSE at[j]]
           A == I \cap (1 .. m - 1)
           B == I \cap (1 .. m)
<1>1. /\ d \in Seq(S) /\ Len(d) = l + 1 /\ l \in Nat
      /\ (\A i \in 1 .. l : d[i] = c[i]) /\ d[l + 1] = s[m]
  BY Longer
<1>2. /\ at \in [1 .. l -> A] /\ (\A j \in 1 .. l : c[j] = s[at[j]])
      /\ (\A j, k \in 1 .. l : j < k => at[j] < at[k])
      /\ \A i \in A : \E j \in 1 .. l : at[j] = i
  BY DEF IsKept
<1>3. A \subseteq B /\ m \in B /\ (\A i \in A : i \in Nat /\ i < m) /\ \A i \in B : i \in A \/ i = m
  OBVIOUS
<1> HIDE DEF d, l, A, B
<1>5. 1 .. l + 1 = (1 .. l) \cup {l + 1} /\ l + 1 \notin 1 .. l
  BY <1>1
<1>4. /\ new[l + 1] = m /\ \A j \in 1 .. l : new[j] = at[j]
      /\ new \in [1 .. l + 1 -> B]
  <2>1. new[l + 1] = m /\ \A j \in 1 .. l : new[j] = at[j]
    BY <1>5
  <2>2. \A j \in 1 .. l + 1 : (IF j = l + 1 THEN m ELSE at[j]) \in B
    BY <1>2, <1>3, <1>5
  <2> QED
    BY <2>1, <2>2
<1> HIDE DEF new
<1>6. \A j \in 1 .. l + 1 : d[j] = s[new[j]]
  BY <1>1, <1>2, <1>4, <1>5
<1>7. \A j, k \in 1 .. l + 1 : j < k => new[j] < new[k]
  <2> SUFFICES ASSUME NEW j \in 1 .. l + 1, NEW k \in 1 .. l + 1, j < k PROVE new[j] < new[k]
    OBVIOUS
  <2>1. j \in 1 .. l
    BY <1>1
  <2>2. CASE k = l + 1
    BY <1>2, <1>3, <1>4, <2>1, <2>2
  <2>3. CASE k \in 1 .. l
    BY <1>2, <1>4, <2>1, <2>3
  <2> QED
    BY <1>5, <2>2, <2>3
<1>8. \A i \in B : \E j \in 1 .. l + 1 : new[j] = i
  <2> SUFFICES ASSUME NEW i \in B PROVE \E j \in 1 .. l + 1 : new[j] = i
    OBVIOUS
  <2>1. CASE i = m
    BY <1>4, <1>5, <2>1
  <2>2. CASE i \in A
    <3>1. PICK j \in 1 .. l : at[j] = i
      BY <1>2, <2>2
    <3> QED
      BY <1>4, <1>5, <3>1
  <2> QED
    BY <1>3, <2>1, <2>2
<1>9. IsKept(s, B, d, new)
  BY <1>1, <1>4, <1>6, <1>7, <1>8 DEF IsKept
<1> QED
  BY <1>9 DEF B, d

\* What Keep makes of a sequence: the elements at the positions in I, each
\* once and in order.
LEMMA KeepShape ==
  ASSUME NEW S, NEW s \in Seq(S), NEW I \in SUBSET (1 .. Len(s))
  PROVE  Keep(s, I) \in Seq(S) /\ \E at : IsKept(s, I, Keep(s, I), at)
<1> DEFINE n == Len(s)
<1>0. PICK g : Keeps(g, S, s, I) /\ Keep(s, I) = g[n]
  BY KeepRecursion
<1>1. /\ Keep(s, I) = g[n] /\ g[0] = <<>> /\ g \in [0 .. n -> Seq(S)]
      /\ \A k \in 1 .. n : g[k] = IF k \in I THEN Append(g[k - 1], s[k]) ELSE g[k - 1]
  BY <1>0 DEF Keeps
<1> DEFINE A == {k \in 0 .. n : \E at : IsKept(s, I \cap (1 .. k), g[k], at)}
<1>2. 0 \in A
  <2>1. IsKept(s, I \cap (1 .. 0), <<>>, <<>>)
    BY DEF IsKept
  <2> QED
    BY <1>1, <2>1
<1>3. ASSUME NEW k \in 1 .. n, k - 1 \in A PROVE k \in A
  <2>1. PICK at : IsKept(s, I \cap (1 .. k - 1), g[k - 1], at)
    BY <1>3
  <2>2. g[k - 1] \in Seq(S) /\ k \in 0 .. n
    BY <1>1
  <2>3. CASE k \in I
    <3>1. g[k] = Append(g[k - 1], s[k])
      BY <1>1, <2>3
    <3>2. \E new : IsKept(s, I \cap (1 .. k), Append(g[k - 1], s[k]), new)
      <4> HIDE DEF A
      <4> QED
        BY <2>1, <2>2, <2>3, KeptMore
    <3> QED
      BY <2>2, <3>1, <3>2
  <2>4. CASE k \notin I
    <3>1. g[k] = g[k - 1]
      BY <1>1, <2>4
    <3>2. I \cap (1 .. k) = I \cap (1 .. k - 1)
      BY <2>4
    <3> QED
      BY <2>1, <2>2, <3>1, <3>2
  <2> QED
    BY <2>3, <2>4
<1> HIDE DEF A
<1>4. n \in A
  <2>1. n \in Nat
    OBVIOUS
  <2> HIDE DEF n
  <2>2. 0 .. n \subseteq A
    BY <1>2, <1>3, <2>1, PrefixInduction
  <2> QED
    BY <2>1, <2>2
<1>5. I \cap (1 .. n) = I
  OBVIOUS
<1> QED
  BY <1>1, <1>4, <1>5 DEF A

\* What Min and Max choose from positions.
LEMMA LeastOf ==
  ASSUME NEW n \in Nat, NEW I \in SUBSET (0 .. n), I # {}
  PROVE  Min(I) \in I /\ \A p \in I : Min(I) <= p
<1>1. \E p \in I : \A q \in I : p <= q
  BY LeastElement
<1> QED
  BY <1>1 DEF Min

LEMMA GreatestOf ==
  ASSUME NEW n \in Nat, NEW I \in SUBSET (0 .. n), I # {}
  PROVE  Max(I) \in I /\ \A p \in I : p <= Max(I)
<1> DEFINE J == {n - p : p \in I}
<1>1. J \in SUBSET (0 .. n) /\ J # {}
  <2>1. \A p \in I : n - p \in 0 .. n
    OBVIOUS
  <2>2. PICK p \in I : TRUE
    OBVIOUS
  <2> QED
    BY <2>1, <2>2
<1>2. PICK j \in J : \A q \in J : j <= q
  <2> HIDE DEF J
  <2>1. J \in SUBSET Nat
    BY <1>1
  <2> QED
    BY <1>1, <2>1, LeastElement
<1>3. PICK m \in I : j = n - m
  OBVIOUS
<1>4. \A p \in I : m >= p
  <2> SUFFICES ASSUME NEW p \in I PROVE m >= p
    OBVIOUS
  <2>1. n - p \in J
    OBVIOUS
  <2> HIDE DEF J
  <2>2. n - m <= n - p
    BY <1>2, <1>3, <2>1
  <2> QED
    BY <2>2
<1>5. Max(I) \in I /\ \A p \in I : Max(I) >= p
  BY <1>4 DEF Max
<1> QED
  BY <1>5

\* A part of a sequence.
LEMMA PartShape ==
  ASSUME NEW S, NEW s \in Seq(S), NEW a \in 1 .. Len(s) + 1, NEW b \in a - 1 .. Len(s)
  PROVE  /\ SubSeq(s, a, b) \in Seq(S) /\ Len(SubSeq(s, a, b)) = b - a + 1
         /\ \A i \in 1 .. b - a + 1 : SubSeq(s, a, b)[i] = s[a + i - 1]
OBVIOUS

\* A part of a part of a sequence is a part of the sequence.
LEMMA PartOfPart ==
  ASSUME NEW S, NEW s \in Seq(S), NEW a \in 1 .. Len(s) + 1, NEW b \in a - 1 .. Len(s),
         NEW c \in 1 .. b - a + 2, NEW d \in c - 1 .. b - a + 1
  PROVE  SubSeq(SubSeq(s, a, b), c, d) = SubSeq(s, a + c - 1, a + d - 1)
<1> DEFINE t == SubSeq(s, a, b)
<1>1. t \in Seq(S) /\ Len(t) = b - a + 1 /\ \A i \in 1 .. Len(t) : t[i] = s[a + i - 1]
  OBVIOUS
<1> HIDE DEF t
<1>2. /\ Len(SubSeq(t, c, d)) = d - c + 1
      /\ \A i \in 1 .. d - c + 1 : SubSeq(t, c, d)[i] = t[c + i - 1]
  BY <1>1
<1>3. \A i \in 1 .. d - c + 1 : t[c + i - 1] = s[a + c - 1 + i - 1]
  BY <1>1
<1> DEFINE u == SubSeq(s, a + c - 1, a + d - 1)
           w == SubSeq(t, c, d)
<1>4. Len(u) = d - c + 1 /\ \A i \in 1 .. d - c + 1 : u[i] = s[a + c - 1 + i - 1]
  OBVIOUS
<1>5. w \in Seq(S) /\ u \in Seq(S)
  <2>1. u \in Seq(S)
    OBVIOUS
  <2>2. c \in 1 .. Len(t) + 1 /\ d \in c - 1 .. Len(t) /\ Len(t) \in Nat
    BY <1>1
  <2>3. w \in Seq(S)
    BY <1>1, <2>2
  <2> QED
    BY <2>1, <2>3
<1>6. Len(w) = Len(u) /\ \A i \in 1 .. Len(w) : w[i] = u[i]
  BY <1>2, <1>3, <1>4
<1> HIDE DEF u, w
<1>7. w = u
  BY <1>5, <1>6
<1> QED
  BY <1>7 DEF t, u, w

\* A part of a sequence that ends one element later.
LEMMA PartLonger ==
  ASSUME NEW F, NEW s \in Seq(F), NEW k \in 1 .. Len(s), NEW a \in 1 .. k
  PROVE  SubSeq(s, a, k) = Append(SubSeq(s, a, k - 1), s[k])
<1> DEFINE t == SubSeq(s, a, k - 1)
           u == SubSeq(s, a, k)
           w == Append(t, s[k])
<1>1. a \in 1 .. Len(s) + 1 /\ k - 1 \in a - 1 .. Len(s) /\ k \in a - 1 .. Len(s) /\ s[k] \in F
  OBVIOUS
<1>2. /\ t \in Seq(F) /\ Len(t) = k - 1 - a + 1
      /\ \A i \in 1 .. k - 1 - a + 1 : t[i] = s[a + i - 1]
  BY <1>1, PartShape
<1>3. /\ u \in Seq(F) /\ Len(u) = k - a + 1
      /\ \A i \in 1 .. k - a + 1 : u[i] = s[a + i - 1]
  BY <1>1, PartShape
<1> HIDE DEF t, u
<1>4. /\ w \in Seq(F) /\ Len(w) = Len(t) + 1 /\ w[Len(t) + 1] = s[k]
      /\ \A i \in 1 .. Len(t) : w[i] = t[i]
  BY <1>1, <1>2
<1> HIDE DEF w
<1>5. Len(t) = k - a /\ Len(w) = k - a + 1 /\ \A i \in 1 .. k - a : w[i] = s[a + i - 1]
  BY <1>2, <1>4
<1>6. w[k - a + 1] = s[a + (k - a + 1) - 1]
  <2>1. a + (k - a + 1) - 1 = k
    OBVIOUS
  <2> QED
    BY <1>4, <1>5, <2>1
<1>7. \A i \in 1 .. k - a + 1 : i \in 1 .. k - a \/ i = k - a + 1
  OBVIOUS
<1>8. Len(u) = Len(w) /\ \A i \in 1 .. Len(u) : u[i] = w[i]
  BY <1>3, <1>5, <1>6, <1>7
<1>9. u = w
  BY <1>3, <1>4, <1>8
<1> QED
  BY <1>9 DEF u, w, t

\* What is kept when every element is.
LEMMA KeepAll ==
  ASSUME NEW S, NEW s \in Seq(S)
  PROVE  Keep(s, 1 .. Len(s)) = s
<1> DEFINE n == Len(s)
           c == Keep(s, 1 .. n)
<1>1. c \in Seq(S) /\ \E at : IsKept(s, 1 .. n, c, at)
  BY KeepShape
<1>2. PICK at : IsKept(s, 1 .. n, c, at)
  BY <1>1
<1> DEFINE l == Len(c)
<1>3. l \in Nat /\ n \in Nat
  BY <1>1
<1> HIDE DEF c
<1>4. /\ at \in [1 .. l -> 1 .. n] /\ (\A j \in 1 .. l : c[j] = s[at[j]])
      /\ (\A j, k \in 1 .. l : j < k => at[j] < at[k])
      /\ \A i \in 1 .. n : \E j \in 1 .. l : at[j] = i
  BY <1>2 DEF IsKept
<1> DEFINE A == {k \in 0 .. n : k <= l /\ \A j \in 1 .. k : at[j] = j}
<1> HIDE DEF l, n
<1>5. 0 \in A
  BY <1>3
<1>6. ASSUME NEW k \in 1 .. n, k - 1 \in A PROVE k \in A
  <2>1. PICK j \in 1 .. l : at[j] = k
    BY <1>4
  <2>2. k - 1 <= l /\ \A o \in 1 .. k - 1 : at[o] = o
    BY <1>6
  <2>3. j >= k
    BY <2>1, <2>2
  <2>4. CASE j = k
    BY <2>1, <2>2, <2>4
  <2>5. CASE j > k
    <3>1. at[k] < k /\ k \in 1 .. l /\ at[k] \in Nat /\ at[k] >= 1
      BY <1>3, <1>4, <2>1, <2>5
    <3>2. at[at[k]] = at[k] /\ at[k] \in 1 .. l /\ at[k] < k
      <4>1. at[k] \in 1 .. k - 1
        BY <3>1
      <4> QED
        BY <1>3, <2>2, <3>1, <4>1
    <3> QED
      BY <1>4, <3>1, <3>2
  <2> QED
    BY <1>3, <2>3, <2>4, <2>5
<1> HIDE DEF A
<1>7. 0 .. n \subseteq A
  BY <1>3, <1>5, <1>6, PrefixInduction
<1>8. n <= l /\ \A j \in 1 .. n : at[j] = j
  BY <1>3, <1>7 DEF A
<1>9. l = n
  <2> SUFFICES ASSUME l > n PROVE FALSE
    BY <1>3, <1>8
  <2>0. n + 1 \in 1 .. l
    BY <1>3
  <2>1. n + 1 \in 1 .. l /\ at[n + 1] \in 1 .. n
    BY <1>4, <2>0
  <2>2. at[at[n + 1]] = at[n + 1] /\ at[n + 1] \in 1 .. l /\ at[n + 1] < n + 1
    BY <1>3, <1>8, <2>1
  <2> QED
    BY <1>4, <2>1, <2>2
<1>10. \A j \in 1 .. n : c[j] = s[j]
  BY <1>4, <1>8, <1>9
<1>11. c = s
  BY <1>1, <1>9, <1>10 DEF l, n
<1> QED
  BY <1>11 DEF c, n

\* What FlattenSeq makes of several sequences, one after another.
Flattening(g, S, seqs) ==
  /\ g[0] = <<>> /\ \A k \in 0 .. Len(seqs) : g[k] \in Seq(S)
  /\ \A k \in 1 .. Len(seqs) : g[k] = g[k - 1] \o seqs[k]

LEMMA FlattenRecursion ==
  ASSUME NEW S, NEW seqs \in Seq(Seq(S))
  PROVE  \E g : Flattening(g, S, seqs) /\ FlattenSeq(seqs) = g[Len(seqs)]
<1> DEFINE n == Len(seqs)
           T == Seq(S)
           st == [k \in 1 .. n |-> [q \in T |-> q \o seqs[k]]]
           Up(f) == f = [i \in 1 .. n |-> IF i = 1 THEN seqs[i] ELSE f[i - 1] \o seqs[i]]
           h == CHOOSE f : Up(f)
<1>1. n \in Nat /\ <<>> \in T /\ \A k \in 1 .. n : seqs[k] \in T
  OBVIOUS
<1>2. n > 0 => FlattenSeq(seqs) = h[n]
  BY DEF FlattenSeq
<1>3. n = 0 => FlattenSeq(seqs) = <<>>
  BY DEF FlattenSeq
<1> HIDE DEF n
<1>4. st \in [1 .. n -> [T -> T]] /\ \A k \in 1 .. n : \A q \in T : st[k][q] = q \o seqs[k]
  BY <1>1
<1> HIDE DEF st
<1>5. PICK g : Runs(g, n, T, <<>>, st)
  <2> HIDE DEF T
  <2> QED BY <1>1, <1>4, Recursion
<1>6. /\ g[0] = <<>> /\ \A k \in 0 .. n : g[k] \in T
      /\ \A k \in 1 .. n : g[k] = g[k - 1] \o seqs[k]
  <2>1. \A k \in 1 .. n : k - 1 \in 0 .. n
    BY <1>1
  <2> HIDE DEF T
  <2> QED BY <1>4, <1>5, <2>1 DEF Runs
<1>7. n > 0 => g[1] = seqs[1]
  <2> SUFFICES ASSUME n > 0 PROVE g[1] = seqs[1]
    OBVIOUS
  <2>1. g[1] = <<>> \o seqs[1] /\ seqs[1] \in T
    <3>1. 1 \in 1 .. n /\ 1 - 1 = 0
      BY <1>1
    <3>2. g[1] = g[1 - 1] \o seqs[1]
      BY <1>6, <3>1
    <3> QED
      BY <1>1, <1>6, <3>1, <3>2
  <2> QED
    BY <2>1
<1>8. Up([i \in 1 .. n |-> g[i]])
  <2> DEFINE f == [i \in 1 .. n |-> g[i]]
  <2>1. \A i \in 1 .. n : f[i] = IF i = 1 THEN seqs[i] ELSE f[i - 1] \o seqs[i]
    <3> SUFFICES ASSUME NEW i \in 1 .. n PROVE f[i] = IF i = 1 THEN seqs[i] ELSE f[i - 1] \o seqs[i]
      OBVIOUS
    <3>1. CASE i = 1
      BY <1>1, <1>7, <3>1
    <3>2. CASE i # 1
      <4>1. i - 1 \in 1 .. n
        BY <1>1, <3>2
      <4> QED
        BY <1>6, <3>2, <4>1
    <3> QED
      BY <3>1, <3>2
  <2>2. f = [i \in 1 .. n |-> f[i]]
    OBVIOUS
  <2> HIDE DEF f
  <2>3. f = [i \in 1 .. n |-> IF i = 1 THEN seqs[i] ELSE f[i - 1] \o seqs[i]]
    BY <2>1, <2>2, Zenon
  <2> QED
    BY <2>3, Zenon DEF f
<1>9. Up(h)
  BY <1>8
<1> HIDE DEF h
<1>10. \A i \in 1 .. n : h[i] = IF i = 1 THEN seqs[i] ELSE h[i - 1] \o seqs[i]
  BY <1>9
<1> DEFINE A == {k \in 0 .. n : k > 0 => h[k] = g[k]}
<1>11. 0 \in A
  BY <1>1
<1>12. ASSUME NEW k \in 1 .. n, k - 1 \in A PROVE k \in A
  <2>1. h[k] = g[k]
    <3>1. CASE k = 1
      BY <1>1, <1>7, <1>10, <3>1
    <3>2. CASE k # 1
      <4>1. h[k - 1] = g[k - 1]
        BY <1>1, <1>12, <3>2
      <4> QED
        BY <1>6, <1>10, <3>2, <4>1
    <3> QED
      BY <3>1, <3>2
  <2>2. k \in 0 .. n
    BY <1>1
  <2> QED
    BY <2>1, <2>2
<1> HIDE DEF A
<1>13. n \in A
  <2>1. 0 .. n \subseteq A
    BY <1>1, <1>11, <1>12, PrefixInduction
  <2> QED
    BY <1>1, <2>1
<1>14. FlattenSeq(seqs) = g[n]
  BY <1>1, <1>2, <1>3, <1>6, <1>13 DEF A
<1> QED
  BY <1>6, <1>14 DEF Flattening, n

\* Sequences whose first part is that of others are flattened alike up to there.
LEMMA SameFlattening ==
  ASSUME NEW S, NEW s \in Seq(Seq(S)), NEW t \in Seq(Seq(S)), NEW g, NEW h,
         Flattening(g, S, s), Flattening(h, S, t), NEW m \in 0 .. Len(s), m <= Len(t),
         \A k \in 1 .. m : s[k] = t[k]
  PROVE  g[m] = h[m]
<1> DEFINE A == {k \in 0 .. m : g[k] = h[k]}
<1>1. 0 \in A
  BY DEF Flattening
<1>2. ASSUME NEW k \in 1 .. m, k - 1 \in A PROVE k \in A
  <2>1. k \in 1 .. Len(s) /\ k \in 1 .. Len(t) /\ k \in 0 .. m /\ s[k] = t[k]
    OBVIOUS
  <2>2. g[k] = g[k - 1] \o s[k] /\ h[k] = h[k - 1] \o t[k]
    <3> HIDE DEF A
    <3> QED BY <2>1 DEF Flattening
  <2>3. g[k - 1] = h[k - 1]
    BY <1>2
  <2>4. g[k] = h[k]
    BY <2>1, <2>2, <2>3
  <2> QED
    BY <2>1, <2>4
<1> HIDE DEF A
<1>3. m \in Nat
  OBVIOUS
<1>4. 0 .. m \subseteq A
  BY <1>1, <1>2, <1>3, PrefixInduction
<1> QED
  BY <1>3, <1>4 DEF A

\* The sequences f[1] .. f[n], one after another; and one more of them.
Joined(f, n) == FlattenSeq([p \in 1 .. n |-> f[p]])

LEMMA JoinedShape ==
  ASSUME NEW S, NEW n \in Nat, NEW f, \A p \in 1 .. n : f[p] \in Seq(S)
  PROVE  Joined(f, n) \in Seq(S)
<1> DEFINE s == [p \in 1 .. n |-> f[p]]
<1>1. s \in Seq(Seq(S))
  OBVIOUS
<1> HIDE DEF s
<1>2. PICK g : Flattening(g, S, s) /\ FlattenSeq(s) = g[Len(s)]
  BY <1>1, FlattenRecursion
<1>3. Len(s) \in 0 .. Len(s)
  BY <1>1
<1> QED
  BY <1>2, <1>3 DEF Flattening, Joined, s

LEMMA JoinedNone == ASSUME NEW f PROVE Joined(f, 0) = <<>>
<1>1. [p \in 1 .. 0 |-> f[p]] = <<>>
  OBVIOUS
<1> QED
  BY <1>1 DEF Joined, FlattenSeq

LEMMA JoinedMore ==
  ASSUME NEW S, NEW n \in Nat \ {0}, NEW f, \A p \in 1 .. n : f[p] \in Seq(S)
  PROVE  Joined(f, n) = Joined(f, n - 1) \o f[n]
<1> DEFINE s == [p \in 1 .. n |-> f[p]]
           t == [p \in 1 .. n - 1 |-> f[p]]
<1>1. /\ s \in Seq(Seq(S)) /\ Len(s) = n
      /\ t \in Seq(Seq(S)) /\ Len(t) = n - 1
      /\ \A k \in 1 .. n - 1 : s[k] = t[k]
      /\ s[n] = f[n]
  OBVIOUS
<1>2. Joined(f, n) = FlattenSeq(s) /\ Joined(f, n - 1) = FlattenSeq(t)
  BY DEF Joined
<1> HIDE DEF s, t
<1>3. PICK g : Flattening(g, S, s) /\ FlattenSeq(s) = g[Len(s)]
  BY <1>1, FlattenRecursion
<1>4. PICK h : Flattening(h, S, t) /\ FlattenSeq(t) = h[Len(t)]
  BY <1>1, FlattenRecursion
<1>5. n - 1 \in 0 .. Len(s) /\ n - 1 <= Len(t) /\ n \in 1 .. Len(s)
  BY <1>1
<1>6. g[n - 1] = h[n - 1]
  <2>1. Flattening(g, S, s) /\ Flattening(h, S, t) /\ \A k \in 1 .. n - 1 : s[k] = t[k]
    BY <1>1, <1>3, <1>4
  <2> QED
    BY <1>1, <1>5, <2>1, SameFlattening
<1>7. g[n] = g[n - 1] \o s[n]
  BY <1>3, <1>5 DEF Flattening
<1> QED
  BY <1>1, <1>2, <1>3, <1>4, <1>6, <1>7

\* Nothing, however often, is nothing.
LEMMA JoinedEmpty ==
  ASSUME NEW n \in Nat, NEW f, \A p \in 1 .. n : f[p] = <<>>
  PROVE  Joined(f, n) = <<>>
<1> DEFINE A == {k \in 0 .. n : Joined(f, k) = <<>>}
<1>1. 0 \in A
  BY JoinedNone
<1>2. ASSUME NEW k \in 1 .. n, k - 1 \in A PROVE k \in A
  <2>1. k \in Nat \ {0} /\ k \in 0 .. n /\ k \in 1 .. n
    OBVIOUS
  <2>2. \A p \in 1 .. k : p \in 1 .. n /\ f[p] = <<>>
    OBVIOUS
  <2>3. \A p \in 1 .. k : f[p] \in Seq({})
    <3>1. <<>> \in Seq({})
      OBVIOUS
    <3> QED
      BY <2>2, <3>1
  <2>4. Joined(f, k) = Joined(f, k - 1) \o f[k]
    BY <2>1, <2>3, JoinedMore
  <2>5. Joined(f, k - 1) = <<>> /\ f[k] = <<>>
    BY <1>2, <2>1
  <2>6. Joined(f, k) = <<>>
    BY <2>4, <2>5
  <2> QED
    BY <2>1, <2>6
<1> HIDE DEF A
<1>3. 0 .. n \subseteq A
  BY <1>1, <1>2, PrefixInduction
<1> QED
  BY <1>3 DEF A
-----------------------------------------------------------------------------
\* What a turn of parse_body makes is fields again.
LEMMA LineTaken ==
  ASSUME NEW S, NEW q \in Seq(Seq(S)), NEW l \in S
  PROVE  TakeLine(q, l) \in Seq(Seq(S))
<1> DEFINE r == [q EXCEPT ![Len(q)] = Append(@, l)]
<1>1. CASE q # <<>>
  <2>1. r \in Seq(Seq(S))
    BY <1>1, LongerLast DEF LastChanged
  <2>2. TakeLine(q, l) \in {Append(q, <<l>>), q, r}
    BY DEF TakeLine
  <2>3. Append(q, <<l>>) \in Seq(Seq(S))
    OBVIOUS
  <2> QED
    BY <2>1, <2>2, <2>3
<1>2. CASE q = <<>>
  BY <1>2 DEF TakeLine
<1> QED
  BY <1>1, <1>2

\* p is what parse_body has after each line.
ParseRuns(p, S, lines) ==
  /\ p \in [0 .. Len(lines) -> Seq(Seq(S))] /\ p[0] = <<>>
  /\ \A k \in 1 .. Len(lines) : p[k] = TakeLine(p[k - 1], lines[k])

\* ParseBody passes through it.
LEMMA ParseRecursion ==
  ASSUME NEW S, NEW lines \in Seq(S)
  PROVE  \E g : ParseRuns(g, S, lines) /\ ParseBody(lines) = g[Len(lines)]
<1> DEFINE n == Len(lines)
           T == Seq(Seq(S))
           b == <<>>
           step(k, q) == TakeLine(q, lines[k])
           st == [k \in 1 .. n |-> [q \in T |-> step(k, q)]]
           Up(f) == f = [k \in 0 .. n |-> IF k = 0 THEN b ELSE step(k, f[k - 1])]
           h == CHOOSE f : Up(f)
<1>1. n \in Nat /\ b \in T /\ \A k \in 1 .. n : \A q \in T : step(k, q) \in T
  <2>1. n \in Nat /\ b \in T
    OBVIOUS
  <2>2. ASSUME NEW k \in 1 .. n, NEW q \in T PROVE step(k, q) \in T
    <3>1. lines[k] \in S
      OBVIOUS
    <3> QED
      BY <3>1, LineTaken
  <2> QED
    BY <2>1, <2>2
<1>2. ParseBody(lines) = h[n]
  BY DEF ParseBody
<1> HIDE DEF n, T, step, b
<1>3. st \in [1 .. n -> [T -> T]] /\ \A k \in 1 .. n : \A q \in T : st[k][q] = step(k, q)
  BY <1>1
<1> HIDE DEF st
<1>4. PICK g : Runs(g, n, T, b, st)
  BY <1>1, <1>3, Recursion
<1>5. g \in [0 .. n -> T] /\ \A k \in 0 .. n : g[k] = IF k = 0 THEN b ELSE step(k, g[k - 1])
  BY <1>1, <1>3, <1>4 DEF Runs
<1>6. Up(g)
  BY <1>5
<1>7. Up(h)
  BY <1>6
<1> HIDE DEF h
<1>8. \A k \in 0 .. n : h[k] = IF k = 0 THEN b ELSE step(k, h[k - 1])
  BY <1>7
<1>9. h[0] = b /\ \A k \in 1 .. n : h[k] = step(k, h[k - 1])
  <2>1. 0 \in 0 .. n /\ \A k \in 1 .. n : k \in 0 .. n /\ k # 0
    BY <1>1
  <2> QED
    BY <1>8, <2>1
<1>10. h \in [0 .. n -> T]
  <2> DEFINE A == {k \in 0 .. n : h[k] \in T}
  <2>1. 0 \in A /\ \A k \in 1 .. n : k - 1 \in A => k \in A
    BY <1>1, <1>9
  <2> HIDE DEF A
  <2>2. 0 .. n \subseteq A
    BY <1>1, <2>1, PrefixInduction
  <2> QED
    BY <1>7, <2>2 DEF A
<1> QED
  BY <1>2, <1>9, <1>10 DEF n, T, step, b, ParseRuns

\* What a turn of split_statements makes is groups again.
LEMMA FieldTaken ==
  ASSUME NEW F, NEW q \in Seq(Seq(F)), NEW f \in F
  PROVE  TakeField(q, f) \in Seq(Seq(F))
<1> DEFINE r == [q EXCEPT ![Len(q)] = Append(@, f)]
<1>1. Append(q, <<f>>) \in Seq(Seq(F))
  OBVIOUS
<1>2. CASE q # <<>>
  <2>1. r \in Seq(Seq(F))
    BY <1>2, LongerLast DEF LastChanged
  <2>2. TakeField(q, f) \in {Append(q, <<f>>), r}
    BY DEF TakeField
  <2> QED
    BY <1>1, <2>1, <2>2
<1>3. CASE q = <<>>
  BY <1>1, <1>3 DEF TakeField
<1> QED
  BY <1>2, <1>3

\* g is what split_statements has after each field.
SplitRuns(g, F, fields) ==
  /\ g \in [0 .. Len(fields) -> Seq(Seq(F))] /\ g[0] = <<>>
  /\ \A k \in 1 .. Len(fields) : g[k] = TakeField(g[k - 1], fields[k])

\* SplitStatements passes through it.
LEMMA SplitRecursion ==
  ASSUME NEW F, NEW fields \in Seq(F)
  PROVE  \E g : SplitRuns(g, F, fields) /\ SplitStatements(fields) = g[Len(fields)]
<1> DEFINE n == Len(fields)
           T == Seq(Seq(F))
           b == <<>>
           step(k, q) == TakeField(q, fields[k])
           st == [k \in 1 .. n |-> [q \in T |-> step(k, q)]]
           Up(f) == f = [k \in 0 .. n |-> IF k = 0 THEN b ELSE step(k, f[k - 1])]
           h == CHOOSE f : Up(f)
<1>1. n \in Nat /\ b \in T /\ \A k \in 1 .. n : \A q \in T : step(k, q) \in T
  <2>1. n \in Nat /\ b \in T
    OBVIOUS
  <2>2. ASSUME NEW k \in 1 .. n, NEW q \in T PROVE step(k, q) \in T
    <3>1. fields[k] \in F
      OBVIOUS
    <3> QED
      BY <3>1, FieldTaken
  <2> QED
    BY <2>1, <2>2
<1>2. SplitStatements(fields) = h[n]
  BY DEF SplitStatements
<1> HIDE DEF n, T, step, b
<1>3. st \in [1 .. n -> [T -> T]] /\ \A k \in 1 .. n : \A q \in T : st[k][q] = step(k, q)
  BY <1>1
<1> HIDE DEF st
<1>4. PICK g : Runs(g, n, T, b, st)
  BY <1>1, <1>3, Recursion
<1>5. g \in [0 .. n -> T] /\ \A k \in 0 .. n : g[k] = IF k = 0 THEN b ELSE step(k, g[k - 1])
  BY <1>1, <1>3, <1>4 DEF Runs
<1>6. Up(g)
  BY <1>5
<1>7. Up(h)
  BY <1>6
<1> HIDE DEF h
<1>8. \A k \in 0 .. n : h[k] = IF k = 0 THEN b ELSE step(k, h[k - 1])
  BY <1>7
<1>9. h[0] = b /\ \A k \in 1 .. n : h[k] = step(k, h[k - 1])
  <2>1. 0 \in 0 .. n /\ \A k \in 1 .. n : k \in 0 .. n /\ k # 0
    BY <1>1
  <2> QED
    BY <1>8, <2>1
<1>10. h \in [0 .. n -> T]
  <2> DEFINE A == {k \in 0 .. n : h[k] \in T}
  <2>1. 0 \in A /\ \A k \in 1 .. n : k - 1 \in A => k \in A
    BY <1>1, <1>9
  <2> HIDE DEF A
  <2>2. 0 .. n \subseteq A
    BY <1>1, <2>1, PrefixInduction
  <2> QED
    BY <1>7, <2>2 DEF A
<1> QED
  BY <1>2, <1>9, <1>10 DEF n, T, step, b, SplitRuns

\* g is the groups of the first k bodies, for every k.
GroupRuns(g, S, bodies) ==
  /\ g \in [0 .. Len(bodies) -> Seq(Seq(Seq(S)))] /\ g[0] = <<>>
  /\ \A k \in 1 .. Len(bodies) : g[k] = g[k - 1] \o SplitStatements(ParseBody(bodies[k]))

\* What a block body is read as: fields, and groups of them.
LEMMA BodyGroups ==
  ASSUME NEW S, NEW lines \in Seq(S)
  PROVE  /\ ParseBody(lines) \in Seq(Seq(S))
         /\ SplitStatements(ParseBody(lines)) \in Seq(Seq(Seq(S)))
<1>1. ParseBody(lines) \in Seq(Seq(S))
  <2>1. PICK g : ParseRuns(g, S, lines) /\ ParseBody(lines) = g[Len(lines)]
    BY ParseRecursion
  <2> QED
    BY <2>1 DEF ParseRuns
<1> DEFINE fields == ParseBody(lines)
           F == Seq(S)
<1> HIDE DEF fields, F
<1>2. fields \in Seq(F)
  BY <1>1 DEF fields, F
<1>3. PICK g : SplitRuns(g, F, fields) /\ SplitStatements(fields) = g[Len(fields)]
  BY <1>2, SplitRecursion
<1>4. SplitStatements(fields) \in Seq(Seq(F))
  BY <1>2, <1>3 DEF SplitRuns
<1> QED
  BY <1>1, <1>4 DEF fields, F

\* Groups passes through it.
LEMMA GroupRecursion ==
  ASSUME NEW S, NEW t, Block4Bodies(t) \in Seq(Seq(S))
  PROVE  \E g : GroupRuns(g, S, Block4Bodies(t)) /\ Groups(t) = g[Len(Block4Bodies(t))]
<1> DEFINE n == Len(Block4Bodies(t))
           T == Seq(Seq(Seq(S)))
           b == <<>>
           step(k, q) == q \o SplitStatements(ParseBody(Block4Bodies(t)[k]))
           st == [k \in 1 .. n |-> [q \in T |-> step(k, q)]]
           Up(f) == f = [k \in 0 .. n |-> IF k = 0 THEN b ELSE step(k, f[k - 1])]
           h == CHOOSE f : Up(f)
<1>1. n \in Nat /\ b \in T /\ \A k \in 1 .. n : \A q \in T : step(k, q) \in T
  <2>1. n \in Nat /\ b \in T
    OBVIOUS
  <2>2. ASSUME NEW k \in 1 .. n, NEW q \in T PROVE step(k, q) \in T
    <3> DEFINE body == Block4Bodies(t)[k]
    <3>1. body \in Seq(S)
      OBVIOUS
    <3> HIDE DEF body
    <3>2. SplitStatements(ParseBody(body)) \in Seq(Seq(Seq(S)))
      BY <3>1, BodyGroups
    <3> QED
      BY <3>2 DEF body
  <2> QED
    BY <2>1, <2>2
<1>2. Groups(t) = h[n]
  BY DEF Groups
<1> HIDE DEF n, T, step, b
<1>3. st \in [1 .. n -> [T -> T]] /\ \A k \in 1 .. n : \A q \in T : st[k][q] = step(k, q)
  BY <1>1
<1> HIDE DEF st
<1>4. PICK g : Runs(g, n, T, b, st)
  BY <1>1, <1>3, Recursion
<1>5. g \in [0 .. n -> T] /\ \A k \in 0 .. n : g[k] = IF k = 0 THEN b ELSE step(k, g[k - 1])
  BY <1>1, <1>3, <1>4 DEF Runs
<1>6. Up(g)
  BY <1>5
<1>7. Up(h)
  BY <1>6
<1> HIDE DEF h
<1>8. \A k \in 0 .. n : h[k] = IF k = 0 THEN b ELSE step(k, h[k - 1])
  BY <1>7
<1>9. h[0] = b /\ \A k \in 1 .. n : h[k] = step(k, h[k - 1])
  <2>1. 0 \in 0 .. n /\ \A k \in 1 .. n : k \in 0 .. n /\ k # 0
    BY <1>1
  <2> QED
    BY <1>8, <2>1
<1>10. h \in [0 .. n -> T]
  <2> DEFINE A == {k \in 0 .. n : h[k] \in T}
  <2>1. 0 \in A /\ \A k \in 1 .. n : k - 1 \in A => k \in A
    BY <1>1, <1>9
  <2> HIDE DEF A
  <2>2. 0 .. n \subseteq A
    BY <1>1, <2>1, PrefixInduction
  <2> QED
    BY <1>7, <2>2 DEF A
<1> QED
  BY <1>2, <1>9, <1>10 DEF n, T, step, b, GroupRuns

\* A field begins with its tag; what is folded into it has none.
IsField(f) ==
  /\ f # <<>> /\ IsTag(f[1])
  /\ \A i \in 2 .. Len(f) : ~IsTag(f[i]) /\ f[i].kind # "-"

AreFields(fields) == \A m \in 1 .. Len(fields) : IsField(fields[m])

\* Which lines of the first k begin fields: none but those with a tag, and all of them.
HeadsAmong(fields, lines, k) == \A m \in 1 .. Len(fields) : \E i \in 1 .. k : fields[m][1] = lines[i]

HeadsAll(fields, lines, k) ==
  \A i \in 1 .. k : IsTag(lines[i]) => \E m \in 1 .. Len(fields) : fields[m][1] = lines[i]

Ascend(lines) == \A i, j \in 1 .. Len(lines) : i < j => lines[i].id < lines[j].id

HeadsAscend(fields) ==
  \A m, n \in 1 .. Len(fields) : m < n => fields[m][1].id < fields[n][1].id

FieldsOf(fields, lines, k) ==
  AreFields(fields) /\ HeadsAmong(fields, lines, k) /\ HeadsAll(fields, lines, k)

\* A line with a tag is a field of its own.
LEMMA TagTaken ==
  ASSUME NEW S, NEW lines \in Seq(S), NEW k \in 1 .. Len(lines), NEW q \in Seq(Seq(S)),
         FieldsOf(q, lines, k - 1), IsTag(lines[k])
  PROVE  /\ FieldsOf(Append(q, <<lines[k]>>), lines, k)
         /\ Ascend(lines) /\ HeadsAscend(q) => HeadsAscend(Append(q, <<lines[k]>>))
<1> DEFINE l == lines[k]
           f == <<l>>
           r == Append(q, f)
           n == Len(q)
<1>1. f \in Seq(S) /\ f[1] = l /\ Len(f) = 1 /\ f # <<>>
  OBVIOUS
<1>2. /\ r \in Seq(Seq(S)) /\ Len(r) = n + 1 /\ r[n + 1] = f /\ n \in Nat
      /\ \A i \in 1 .. n : r[i] = q[i]
  <2> HIDE DEF f
  <2> QED BY <1>1
<1> HIDE DEF r, f, n
<1>3. \A m \in 1 .. n + 1 : m \in 1 .. n \/ m = n + 1
  BY <1>2
<1>4. AreFields(r)
  <2>1. IsField(f)
    BY <1>1 DEF IsField
  <2>2. \A m \in 1 .. n : IsField(q[m])
    BY DEF FieldsOf, AreFields, n
  <2> QED
    BY <1>2, <1>3, <2>1, <2>2 DEF AreFields
<1>5. \A m \in 1 .. n : \E i \in 1 .. k - 1 : q[m][1] = lines[i]
  BY DEF FieldsOf, HeadsAmong, n
<1>6. k \in 1 .. k /\ \A i \in 1 .. k - 1 : i \in 1 .. k /\ i < k /\ i \in 1 .. Len(lines)
  OBVIOUS
<1>7. HeadsAmong(r, lines, k)
  <2> SUFFICES ASSUME NEW m \in 1 .. n + 1 PROVE \E i \in 1 .. k : r[m][1] = lines[i]
    BY <1>2 DEF HeadsAmong
  <2>1. CASE m \in 1 .. n
    BY <1>2, <1>5, <1>6, <2>1
  <2>2. CASE m = n + 1
    BY <1>1, <1>2, <1>6, <2>2
  <2> QED
    BY <1>3, <2>1, <2>2
<1>8. HeadsAll(r, lines, k)
  <2> SUFFICES ASSUME NEW i \in 1 .. k, IsTag(lines[i])
               PROVE  \E m \in 1 .. n + 1 : r[m][1] = lines[i]
    BY <1>2 DEF HeadsAll
  <2>1. CASE i = k
    <3>1. n + 1 \in 1 .. n + 1
      BY <1>2
    <3> QED
      BY <1>1, <1>2, <2>1, <3>1
  <2>2. CASE i \in 1 .. k - 1
    <3>1. PICK m \in 1 .. n : q[m][1] = lines[i]
      BY <2>2 DEF FieldsOf, HeadsAll, n
    <3>2. m \in 1 .. n + 1
      BY <1>2
    <3> QED
      BY <1>2, <3>1, <3>2
  <2> QED
    BY <2>1, <2>2
<1>9. ASSUME Ascend(lines), HeadsAscend(q) PROVE HeadsAscend(r)
  <2> SUFFICES ASSUME NEW a \in 1 .. n + 1, NEW b \in 1 .. n + 1, a < b
               PROVE  r[a][1].id < r[b][1].id
    BY <1>2 DEF HeadsAscend
  <2>1. a \in 1 .. n
    BY <1>2
  <2>2. CASE b \in 1 .. n
    BY <1>2, <1>9, <2>1, <2>2 DEF HeadsAscend, n
  <2>3. CASE b = n + 1
    <3>1. PICK i \in 1 .. k - 1 : q[a][1] = lines[i]
      BY <1>5, <2>1
    <3>2. lines[i].id < lines[k].id
      BY <1>6, <1>9, <3>1 DEF Ascend
    <3> QED
      BY <1>1, <1>2, <2>1, <2>3, <3>1, <3>2
  <2> QED
    BY <1>3, <2>2, <2>3
<1> QED
  BY <1>4, <1>7, <1>8, <1>9 DEF FieldsOf, r, f

\* A line without a tag that is passed over.
LEMMA LineSkipped ==
  ASSUME NEW lines, NEW k \in Nat \ {0}, NEW q, FieldsOf(q, lines, k - 1), ~IsTag(lines[k])
  PROVE  FieldsOf(q, lines, k)
<1>1. \A i \in 1 .. k : i \in 1 .. k - 1 \/ i = k
  OBVIOUS
<1>2. \A i \in 1 .. k - 1 : i \in 1 .. k
  OBVIOUS
<1> QED
  BY <1>1, <1>2 DEF FieldsOf, HeadsAmong, HeadsAll

\* A line without a tag that is folded into the last field.
LEMMA LineFolded ==
  ASSUME NEW S, NEW lines \in Seq(S), NEW k \in 1 .. Len(lines), NEW q \in Seq(Seq(S)),
         FieldsOf(q, lines, k - 1), ~IsTag(lines[k]), lines[k].kind # "-", q # <<>>,
         NEW r, LastChanged(r, q, Seq(S), Append(q[Len(q)], lines[k]))
  PROVE  FieldsOf(r, lines, k) /\ (HeadsAscend(q) => HeadsAscend(r))
<1> DEFINE n == Len(q)
           l == lines[k]
           f == q[n]
           e == Append(f, l)
<1>1. l \in S
  OBVIOUS
<1>2. /\ Len(r) = n /\ r[n] = e /\ n \in Nat \ {0} /\ n \in 1 .. n
      /\ \A i \in 1 .. n - 1 : r[i] = q[i]
  BY DEF LastChanged
<1>3. f \in Seq(S) /\ IsField(f)
  BY <1>2 DEF FieldsOf, AreFields
<1> HIDE DEF n, l, f
<1>4. e \in Seq(S) /\ Len(e) = Len(f) + 1 /\ e[Len(f) + 1] = l /\ \A i \in 1 .. Len(f) : e[i] = f[i]
  BY <1>1, <1>3
<1>5. Len(f) \in Nat \ {0}
  BY <1>3 DEF IsField
<1> HIDE DEF e
<1>6. IsField(e) /\ e[1] = f[1]
  <2>1. 1 \in 1 .. Len(f)
    BY <1>5
  <2>2. e # <<>>
    BY <1>4, <1>5
  <2>3. \A i \in 2 .. Len(e) : i \in 2 .. Len(f) \/ i = Len(f) + 1
    BY <1>4, <1>5
  <2>4. \A i \in 2 .. Len(f) : i \in 1 .. Len(f)
    OBVIOUS
  <2>5. \A i \in 2 .. Len(e) : ~IsTag(e[i]) /\ e[i].kind # "-"
    BY <1>3, <1>4, <2>3, <2>4 DEF IsField, l
  <2> QED
    BY <1>3, <1>4, <2>1, <2>2, <2>5 DEF IsField
<1>7. \A m \in 1 .. n : m \in 1 .. n - 1 \/ m = n
  BY <1>2
<1>8. \A m \in 1 .. n : r[m][1] = q[m][1]
  BY <1>2, <1>6, <1>7 DEF f
<1>9. AreFields(r)
  <2>1. \A m \in 1 .. n : IsField(q[m])
    BY DEF FieldsOf, AreFields, n
  <2> QED
    BY <1>2, <1>6, <1>7, <2>1 DEF AreFields
<1>10. FieldsOf(q, lines, k)
  BY LineSkipped
<1>11. Len(q) = n
  BY DEF n
<1>12. HeadsAmong(r, lines, k) /\ HeadsAll(r, lines, k)
  BY <1>2, <1>8, <1>10, <1>11 DEF FieldsOf, HeadsAmong, HeadsAll
<1>13. HeadsAscend(q) => HeadsAscend(r)
  BY <1>2, <1>8, <1>11 DEF HeadsAscend
<1> QED
  BY <1>9, <1>12, <1>13 DEF FieldsOf

\* Each line keeps what FieldsOf says: one case per branch of parse_body.
LEMMA FieldsKept ==
  ASSUME NEW S, NEW lines \in Seq(S), NEW k \in 1 .. Len(lines), NEW q \in Seq(Seq(S)),
         FieldsOf(q, lines, k - 1)
  PROVE  /\ FieldsOf(TakeLine(q, lines[k]), lines, k)
         /\ Ascend(lines) /\ HeadsAscend(q) => HeadsAscend(TakeLine(q, lines[k]))
<1> DEFINE l == lines[k]
           r == [q EXCEPT ![Len(q)] = Append(@, l)]
<1>1. l \in S /\ k \in Nat \ {0}
  OBVIOUS
<1>2. CASE IsTag(l)
  <2>1. TakeLine(q, l) = Append(q, <<l>>)
    BY <1>2 DEF TakeLine
  <2> QED
    BY <1>2, <2>1, TagTaken
<1>3. CASE ~IsTag(l) /\ (l.kind = "-" \/ q = <<>>)
  <2>1. TakeLine(q, l) = q
    BY <1>3 DEF TakeLine
  <2> QED
    BY <1>1, <1>3, <2>1, LineSkipped
<1>4. CASE ~IsTag(l) /\ l.kind # "-" /\ q # <<>>
  <2>1. TakeLine(q, l) = r
    BY <1>4 DEF TakeLine
  <2>2. LastChanged(r, q, Seq(S), Append(q[Len(q)], l))
    BY <1>1, <1>4, LongerLast
  <2> HIDE DEF r
  <2>3. FieldsOf(r, lines, k) /\ (HeadsAscend(q) => HeadsAscend(r))
    BY <1>4, <2>2, LineFolded
  <2> QED
    BY <2>1, <2>3
<1> QED
  BY <1>2, <1>3, <1>4

\* What parse_body makes of lines.
LEMMA ParsedFields ==
  ASSUME NEW S, NEW lines \in Seq(S)
  PROVE  /\ ParseBody(lines) \in Seq(Seq(S)) /\ FieldsOf(ParseBody(lines), lines, Len(lines))
         /\ Ascend(lines) => HeadsAscend(ParseBody(lines))
<1> DEFINE n == Len(lines)
<1>1. PICK p : ParseRuns(p, S, lines) /\ ParseBody(lines) = p[n]
  BY ParseRecursion
<1>2. /\ p \in [0 .. n -> Seq(Seq(S))] /\ p[0] = <<>> /\ n \in Nat
      /\ \A k \in 1 .. n : p[k] = TakeLine(p[k - 1], lines[k])
  BY <1>1 DEF ParseRuns
<1> DEFINE T == {k \in 0 .. n : FieldsOf(p[k], lines, k) /\ (Ascend(lines) => HeadsAscend(p[k]))}
<1>3. 0 \in T
  <2>1. Len(<<>>) = 0 /\ (1 .. 0) = {}
    OBVIOUS
  <2>2. FieldsOf(<<>>, lines, 0) /\ HeadsAscend(<<>>)
    BY <2>1 DEF FieldsOf, AreFields, HeadsAmong, HeadsAll, HeadsAscend
  <2> QED
    BY <1>2, <2>2
<1>4. ASSUME NEW k \in 1 .. n, k - 1 \in T PROVE k \in T
  <2>1. FieldsOf(p[k - 1], lines, k - 1) /\ (Ascend(lines) => HeadsAscend(p[k - 1]))
    BY <1>4
  <2>2. p[k - 1] \in Seq(Seq(S)) /\ k \in 0 .. n /\ p[k] = TakeLine(p[k - 1], lines[k])
    BY <1>2
  <2>3. /\ FieldsOf(p[k], lines, k)
        /\ Ascend(lines) /\ HeadsAscend(p[k - 1]) => HeadsAscend(p[k])
    BY <2>1, <2>2, FieldsKept
  <2> QED
    BY <2>1, <2>2, <2>3
<1> HIDE DEF T
<1>5. n \in T
  <2> HIDE DEF n
  <2>1. 0 .. n \subseteq T
    BY <1>2, <1>3, <1>4, PrefixInduction
  <2> QED
    BY <1>2, <2>1
<1>6. n \in 0 .. n
  BY <1>2
<1> QED
  BY <1>1, <1>2, <1>5, <1>6 DEF T

\* The groups of the first k fields begin at c[1], c[2], ..., and only the
\* first field of a group is a :20:.
Starts(c, groups, fields, k) ==
  /\ c \in [1 .. Len(groups) + 1 -> 1 .. k + 1] /\ c[1] = 1 /\ c[Len(groups) + 1] = k + 1
  /\ \A i, j \in 1 .. Len(groups) + 1 : i < j => c[i] < c[j]
  /\ \A i \in 1 .. Len(groups) : groups[i] = SubSeq(fields, c[i], c[i + 1] - 1)
  /\ \A i \in 1 .. Len(groups) : \A m \in c[i] + 1 .. c[i + 1] - 1 : TagOf(fields[m]) # "20"
  /\ \A m \in 1 .. k : \E i \in 1 .. Len(groups) : m \in c[i] .. c[i + 1] - 1

\* A field that starts a group.
LEMMA GroupStarted ==
  ASSUME NEW F, NEW fields \in Seq(F), NEW k \in 1 .. Len(fields), NEW q \in Seq(Seq(F)),
         NEW c, Starts(c, q, fields, k - 1)
  PROVE  \E d : Starts(d, Append(q, <<fields[k]>>), fields, k)
<1> DEFINE n == Len(q)
           f == <<fields[k]>>
           r == Append(q, f)
           d == [i \in 1 .. n + 2 |-> IF i = n + 2 THEN k + 1 ELSE c[i]]
<1>1. f \in Seq(F) /\ f = SubSeq(fields, k, k + 1 - 1)
  <2>1. fields[k] \in F
    OBVIOUS
  <2> QED
    BY <2>1
<1>2. /\ r \in Seq(Seq(F)) /\ Len(r) = n + 1 /\ r[n + 1] = f /\ n \in Nat
      /\ \A i \in 1 .. n : r[i] = q[i]
  <2> HIDE DEF f
  <2> QED BY <1>1
<1> HIDE DEF f, r
<1>3. /\ c \in [1 .. n + 1 -> 1 .. k] /\ c[1] = 1 /\ c[n + 1] = k
      /\ (\A i, j \in 1 .. n + 1 : i < j => c[i] < c[j])
  BY DEF Starts
<1>4. /\ \A i \in 1 .. n : q[i] = SubSeq(fields, c[i], c[i + 1] - 1)
      /\ \A i \in 1 .. n : \A m \in c[i] + 1 .. c[i + 1] - 1 : TagOf(fields[m]) # "20"
      /\ \A m \in 1 .. k - 1 : \E i \in 1 .. n : m \in c[i] .. c[i + 1] - 1
  BY DEF Starts
<1> HIDE DEF n
<1>5. /\ 1 .. n + 2 = (1 .. n + 1) \cup {n + 2} /\ n + 2 \notin 1 .. n + 1
      /\ 1 .. n + 1 = (1 .. n) \cup {n + 1} /\ (\A i \in 1 .. n : i + 1 \in 1 .. n + 1)
      /\ 1 \in 1 .. n + 1 /\ n + 1 \in 1 .. n + 1 /\ n + 1 + 1 = n + 2
  BY <1>2
<1>6. /\ (\A i \in 1 .. n + 1 : d[i] = c[i]) /\ d[n + 2] = k + 1
  BY <1>5
<1>7. d \in [1 .. n + 2 -> 1 .. k + 1]
  <2>1. k + 1 \in 1 .. k + 1 /\ \A i \in 1 .. k : i \in 1 .. k + 1
    OBVIOUS
  <2>2. \A i \in 1 .. n + 1 : c[i] \in 1 .. k
    BY <1>3, <1>5
  <2>3. \A i \in 1 .. n + 2 : (IF i = n + 2 THEN k + 1 ELSE c[i]) \in 1 .. k + 1
    BY <1>5, <2>1, <2>2
  <2> QED
    BY <2>3
<1> HIDE DEF d
<1>8. \A i, j \in 1 .. n + 2 : i < j => d[i] < d[j]
  <2> SUFFICES ASSUME NEW i \in 1 .. n + 2, NEW j \in 1 .. n + 2, i < j PROVE d[i] < d[j]
    OBVIOUS
  <2>1. i \in 1 .. n + 1
    BY <1>2
  <2>2. CASE j = n + 2
    BY <1>3, <1>6, <2>1, <2>2, SMTT(60)
  <2>3. CASE j \in 1 .. n + 1
    BY <1>3, <1>6, <2>1, <2>3
  <2> QED
    BY <1>5, <2>2, <2>3
<1>9. \A i \in 1 .. n + 1 : r[i] = SubSeq(fields, d[i], d[i + 1] - 1)
  <2> SUFFICES ASSUME NEW i \in 1 .. n + 1 PROVE r[i] = SubSeq(fields, d[i], d[i + 1] - 1)
    OBVIOUS
  <2>1. CASE i \in 1 .. n
    BY <1>2, <1>4, <1>5, <1>6, <2>1
  <2>2. CASE i = n + 1
    <3>1. d[i] = k /\ d[i + 1] = k + 1
      BY <1>3, <1>5, <1>6, <2>2
    <3> QED
      BY <1>1, <1>2, <2>2, <3>1
  <2> QED
    BY <1>5, <2>1, <2>2
<1>10. \A i \in 1 .. n + 1 : \A m \in d[i] + 1 .. d[i + 1] - 1 : TagOf(fields[m]) # "20"
  <2> SUFFICES ASSUME NEW i \in 1 .. n + 1, NEW m \in d[i] + 1 .. d[i + 1] - 1
               PROVE  TagOf(fields[m]) # "20"
    OBVIOUS
  <2>1. CASE i \in 1 .. n
    BY <1>4, <1>5, <1>6, <2>1
  <2>2. CASE i = n + 1
    <3>1. d[i] = k /\ d[i + 1] = k + 1
      BY <1>3, <1>5, <1>6, <2>2
    <3>2. m \in k + 1 .. k + 1 - 1
      BY <3>1
    <3> QED
      BY <3>2
  <2> QED
    BY <1>5, <2>1, <2>2
<1>11. \A m \in 1 .. k : \E i \in 1 .. n + 1 : m \in d[i] .. d[i + 1] - 1
  <2> SUFFICES ASSUME NEW m \in 1 .. k PROVE \E i \in 1 .. n + 1 : m \in d[i] .. d[i + 1] - 1
    OBVIOUS
  <2>1. CASE m \in 1 .. k - 1
    <3>1. PICK i \in 1 .. n : m \in c[i] .. c[i + 1] - 1
      BY <1>4, <2>1
    <3> QED
      BY <1>5, <1>6, <3>1
  <2>2. CASE m = k
    <3>1. d[n + 1] = k /\ d[n + 1 + 1] = k + 1
      BY <1>3, <1>5, <1>6
    <3>2. m \in d[n + 1] .. d[n + 1 + 1] - 1
      BY <2>2, <3>1
    <3> QED
      BY <1>5, <3>2
  <2> QED
    BY <2>1, <2>2
<1>12. d[1] = 1 /\ d[n + 1 + 1] = k + 1
  BY <1>3, <1>5, <1>6
<1>13. Starts(d, r, fields, k)
  <2>1. d \in [1 .. n + 1 + 1 -> 1 .. k + 1] /\ \A i, j \in 1 .. n + 1 + 1 : i < j => d[i] < d[j]
    BY <1>5, <1>7, <1>8
  <2> QED
    BY Zenon, <1>2, <1>9, <1>10, <1>11, <1>12, <2>1 DEF Starts
<1> QED
  BY <1>13 DEF r, f

\* A field that goes on with the last group.
LEMMA GroupContinued ==
  ASSUME NEW F, NEW fields \in Seq(F), NEW k \in 1 .. Len(fields), NEW q \in Seq(Seq(F)),
         NEW c, Starts(c, q, fields, k - 1), q # <<>>, TagOf(fields[k]) # "20",
         NEW r, LastChanged(r, q, Seq(F), Append(q[Len(q)], fields[k]))
  PROVE  \E d : Starts(d, r, fields, k)
<1> DEFINE n == Len(q)
           d == [i \in 1 .. n + 1 |-> IF i = n + 1 THEN k + 1 ELSE c[i]]
<1>1. /\ Len(r) = n /\ r[n] = Append(q[n], fields[k]) /\ n \in Nat \ {0}
      /\ \A i \in 1 .. n - 1 : r[i] = q[i]
  BY DEF LastChanged
<1>2. /\ c \in [1 .. n + 1 -> 1 .. k] /\ c[1] = 1 /\ c[n + 1] = k
      /\ (\A i, j \in 1 .. n + 1 : i < j => c[i] < c[j])
  BY DEF Starts
<1>3. /\ \A i \in 1 .. n : q[i] = SubSeq(fields, c[i], c[i + 1] - 1)
      /\ \A i \in 1 .. n : \A m \in c[i] + 1 .. c[i + 1] - 1 : TagOf(fields[m]) # "20"
      /\ \A m \in 1 .. k - 1 : \E i \in 1 .. n : m \in c[i] .. c[i + 1] - 1
  BY DEF Starts
<1> HIDE DEF n
<1>4. /\ 1 .. n + 1 = (1 .. n) \cup {n + 1} /\ n + 1 \notin 1 .. n
      /\ 1 .. n = (1 .. n - 1) \cup {n} /\ (\A i \in 1 .. n - 1 : i + 1 \in 1 .. n)
      /\ 1 \in 1 .. n /\ n \in 1 .. n /\ n + 1 \in 1 .. n + 1 /\ n < n + 1
  BY <1>1
<1>5. /\ (\A i \in 1 .. n : d[i] = c[i]) /\ d[n + 1] = k + 1
  BY <1>4
<1>6. d \in [1 .. n + 1 -> 1 .. k + 1]
  <2>1. k + 1 \in 1 .. k + 1 /\ \A i \in 1 .. k : i \in 1 .. k + 1
    OBVIOUS
  <2>2. \A i \in 1 .. n : c[i] \in 1 .. k
    BY <1>2, <1>4
  <2>3. \A i \in 1 .. n + 1 : (IF i = n + 1 THEN k + 1 ELSE c[i]) \in 1 .. k + 1
    BY <1>4, <2>1, <2>2
  <2> QED
    BY <2>3
<1> HIDE DEF d
<1>7. \A i, j \in 1 .. n + 1 : i < j => d[i] < d[j]
  <2> SUFFICES ASSUME NEW i \in 1 .. n + 1, NEW j \in 1 .. n + 1, i < j PROVE d[i] < d[j]
    OBVIOUS
  <2>1. i \in 1 .. n
    BY <1>1
  <2>2. CASE j = n + 1
    <3>1. c[i] \in 1 .. k
      BY <1>2, <1>4, <2>1
    <3>2. d[i] = c[i] /\ d[j] = k + 1
      BY <1>5, <2>1, <2>2
    <3> QED
      BY <3>1, <3>2
  <2>3. CASE j \in 1 .. n
    BY <1>2, <1>4, <1>5, <2>1, <2>3
  <2> QED
    BY <1>4, <2>2, <2>3
<1>8. c[n] \in 1 .. k - 1
  BY <1>2, <1>4
<1>9. \A i \in 1 .. n : r[i] = SubSeq(fields, d[i], d[i + 1] - 1)
  <2> SUFFICES ASSUME NEW i \in 1 .. n PROVE r[i] = SubSeq(fields, d[i], d[i + 1] - 1)
    OBVIOUS
  <2>1. CASE i \in 1 .. n - 1
    BY <1>1, <1>3, <1>4, <1>5, <2>1
  <2>2. CASE i = n
    <3>1. q[n] = SubSeq(fields, c[n], k - 1)
      BY <1>2, <1>3, <1>4
    <3>2. SubSeq(fields, c[n], k) = Append(SubSeq(fields, c[n], k - 1), fields[k])
      <4>1. c[n] \in 1 .. k
        BY <1>8
      <4> QED
        BY <4>1, PartLonger
    <3>3. d[i] = c[n] /\ d[i + 1] - 1 = k
      BY <1>4, <1>5, <2>2
    <3> QED
      BY <1>1, <2>2, <3>1, <3>2, <3>3
  <2> QED
    BY <1>4, <2>1, <2>2
<1>10. \A i \in 1 .. n : \A m \in d[i] + 1 .. d[i + 1] - 1 : TagOf(fields[m]) # "20"
  <2> SUFFICES ASSUME NEW i \in 1 .. n, NEW m \in d[i] + 1 .. d[i + 1] - 1
               PROVE  TagOf(fields[m]) # "20"
    OBVIOUS
  <2>1. CASE i \in 1 .. n - 1
    BY <1>3, <1>4, <1>5, <2>1
  <2>2. CASE i = n
    <3>1. d[i] = c[n] /\ d[i + 1] - 1 = k
      BY <1>4, <1>5, <2>2
    <3>2. m \in c[n] + 1 .. k - 1 \/ m = k
      BY <1>8, <3>1
    <3>3. m \in c[n] + 1 .. k - 1 => TagOf(fields[m]) # "20"
      BY <1>2, <1>3, <1>4
    <3> QED
      BY <3>2, <3>3
  <2> QED
    BY <1>4, <2>1, <2>2
<1>11. \A m \in 1 .. k : \E i \in 1 .. n : m \in d[i] .. d[i + 1] - 1
  <2> SUFFICES ASSUME NEW m \in 1 .. k PROVE \E i \in 1 .. n : m \in d[i] .. d[i + 1] - 1
    OBVIOUS
  <2>1. CASE m \in 1 .. k - 1
    <3>1. PICK i \in 1 .. n : m \in c[i] .. c[i + 1] - 1
      BY <1>3, <2>1
    <3>2. CASE i \in 1 .. n - 1
      BY <1>4, <1>5, <3>1, <3>2
    <3>3. CASE i = n
      <4>1. c[i + 1] = k /\ d[i] = c[i] /\ d[i + 1] = k + 1
        BY <1>2, <1>4, <1>5, <3>3
      <4>2. m \in d[i] .. d[i + 1] - 1
        BY <1>8, <3>1, <3>3, <4>1
      <4> QED
        BY <4>2
    <3> QED
      BY <1>4, <3>2, <3>3
  <2>2. CASE m = k
    <3>1. d[n] = c[n] /\ d[n + 1] = k + 1
      BY <1>4, <1>5
    <3>2. m \in d[n] .. d[n + 1] - 1
      BY <1>8, <2>2, <3>1
    <3> QED
      BY <1>4, <3>2
  <2> QED
    BY <2>1, <2>2
<1>12. d[1] = 1 /\ d[n + 1] = k + 1
  BY <1>2, <1>4, <1>5
<1>13. Starts(d, r, fields, k)
  BY Zenon, <1>1, <1>6, <1>7, <1>9, <1>10, <1>11, <1>12 DEF Starts
<1> QED
  BY <1>13

\* What split_statements makes of fields.
LEMMA SplitShape ==
  ASSUME NEW F, NEW fields \in Seq(F)
  PROVE  /\ SplitStatements(fields) \in Seq(Seq(F))
         /\ \E c : Starts(c, SplitStatements(fields), fields, Len(fields))
<1> DEFINE n == Len(fields)
<1>1. PICK p : SplitRuns(p, F, fields) /\ SplitStatements(fields) = p[n]
  BY SplitRecursion
<1>2. /\ p \in [0 .. n -> Seq(Seq(F))] /\ p[0] = <<>> /\ n \in Nat
      /\ \A k \in 1 .. n : p[k] = TakeField(p[k - 1], fields[k])
  BY <1>1 DEF SplitRuns
<1> DEFINE T == {k \in 0 .. n : \E c : Starts(c, p[k], fields, k)}
<1>3. 0 \in T
  <2> DEFINE c == [i \in 1 .. 1 |-> 1]
  <2>1. Len(<<>>) = 0 /\ (1 .. 0) = {} /\ 0 + 1 = 1
    OBVIOUS
  <2>2. c \in [1 .. 1 -> 1 .. 1] /\ c[1] = 1 /\ \A i, j \in 1 .. 1 : i < j => c[i] < c[j]
    OBVIOUS
  <2> HIDE DEF c
  <2>3. Starts(c, <<>>, fields, 0)
    BY <2>1, <2>2 DEF Starts
  <2> QED
    BY <1>2, <2>3
<1>4. ASSUME NEW k \in 1 .. n, k - 1 \in T PROVE k \in T
  <2>1. PICK c : Starts(c, p[k - 1], fields, k - 1)
    BY <1>4
  <2> DEFINE q == p[k - 1]
             f == fields[k]
             r == [q EXCEPT ![Len(q)] = Append(@, f)]
  <2>2. q \in Seq(Seq(F)) /\ k \in 0 .. n /\ p[k] = TakeField(q, f)
    BY <1>2
  <2>3. f \in F
    OBVIOUS
  <2>4. Starts(c, q, fields, k - 1)
    BY <2>1
  <2> HIDE DEF q
  <2>5. CASE TagOf(f) = "20" \/ q = <<>>
    <3>1. p[k] = Append(q, <<fields[k]>>)
      BY <2>2, <2>5 DEF TakeField
    <3>2. \E d : Starts(d, Append(q, <<fields[k]>>), fields, k)
      BY <2>2, <2>4, GroupStarted
    <3> QED
      BY <2>2, <3>1, <3>2
  <2>6. CASE TagOf(f) # "20" /\ q # <<>>
    <3>1. p[k] = r
      BY <2>2, <2>6 DEF TakeField
    <3>2. LastChanged(r, q, Seq(F), Append(q[Len(q)], f))
      BY <2>2, <2>3, <2>6, LongerLast
    <3> HIDE DEF r
    <3>3. \E d : Starts(d, r, fields, k)
      BY <2>2, <2>4, <2>6, <3>2, GroupContinued
    <3> QED
      BY <2>2, <3>1, <3>3
  <2> QED
    BY <2>5, <2>6
<1> HIDE DEF T
<1>5. n \in T
  <2> HIDE DEF n
  <2>1. 0 .. n \subseteq T
    BY <1>2, <1>3, <1>4, PrefixInduction
  <2> QED
    BY <1>2, <2>1
<1>6. n \in 0 .. n
  BY <1>2
<1> QED
  BY <1>1, <1>2, <1>5, <1>6 DEF T

\* How far the loop over blocks may have come, and what it has by then.
Found(S, t) == [from : 1 .. Len(t) + 1, bodies : Seq(Seq(S))]

\* What str::find may find.
LEMMA LinesAreIn ==
  ASSUME NEW t, NEW k, NEW kind, NEW i \in LinesFrom(t, k, kind)
  PROVE  i \in k .. Len(t) /\ t[i].kind = kind
BY DEF LinesFrom

\* A set of lines below one of them, for Min and Max.
LEMMA LinesBetween ==
  ASSUME NEW n \in Nat, NEW k \in Nat, NEW I, \A i \in I : i \in k .. n
  PROVE  I \in SUBSET (0 .. n)
OBVIOUS

\* What a search for a block finds: the line that opens it and the one that
\* closes it, or nothing.
LEMMA BlockFound ==
  ASSUME NEW S, NEW t \in Seq(S), NEW k \in 1 .. Len(t) + 1
  PROVE  \/ BlockFrom(t, k) = <<>>
         \/ \E s \in LinesFrom(t, k, "{4:") : \E e \in Balanced(t, s) :
              /\ s = Min(LinesFrom(t, k, "{4:"))
              /\ \A j \in Balanced(t, s) : e <= j
              /\ BlockFrom(t, k) = <<SubSeq(t, s + 1, e - 1)>>
<1> DEFINE starts == LinesFrom(t, k, "{4:")
           s == Min(starts)
           ends == Balanced(t, s)
           e == Min(ends)
<1>1. BlockFrom(t, k) = IF starts = {} \/ ends = {} THEN <<>> ELSE <<SubSeq(t, s + 1, e - 1)>>
  BY DEF BlockFrom
<1>2. starts \in SUBSET (0 .. Len(t)) /\ Len(t) \in Nat
  <2>1. Len(t) \in Nat /\ k \in Nat
    OBVIOUS
  <2>2. \A i \in starts : i \in k .. Len(t)
    BY LinesAreIn
  <2> HIDE DEF starts
  <2> QED
    BY <2>1, <2>2, LinesBetween
<1>3. ASSUME starts # {} PROVE s \in starts
  <2> HIDE DEF starts
  <2> QED
    BY <1>2, <1>3, LeastOf
<1>4. ASSUME s \in 0 .. Len(t) PROVE ends \in SUBSET (0 .. Len(t))
  <2> HIDE DEF s
  <2> QED
    BY <1>4 DEF Balanced
<1>5. ASSUME starts # {}, ends # {} PROVE e \in ends /\ \A j \in ends : e <= j
  <2>1. ends \in SUBSET (0 .. Len(t))
    BY <1>2, <1>3, <1>4, <1>5
  <2> HIDE DEF ends
  <2> QED
    BY <1>2, <1>5, <2>1, LeastOf
<1>6. ASSUME starts # {}, ends # {}
      PROVE  \E s1 \in starts : \E e1 \in Balanced(t, s1) :
               /\ s1 = s /\ \A j \in Balanced(t, s1) : e1 <= j
               /\ BlockFrom(t, k) = <<SubSeq(t, s1 + 1, e1 - 1)>>
  <2>1. BlockFrom(t, k) = <<SubSeq(t, s + 1, e - 1)>>
    BY <1>1, <1>6
  <2> HIDE DEF s, e, starts
  <2> QED
    BY <1>3, <1>5, <1>6, <2>1
<1>7. starts = {} \/ ends = {} => BlockFrom(t, k) = <<>>
  BY <1>1
<1> QED
  BY <1>6, <1>7

\* Behind a block the loop goes on further down.
LEMMA Advances ==
  ASSUME NEW S, NEW t \in Seq(S), NEW s \in 1 .. Len(t)
  PROVE  AdvancePast(t, s) \in s + 1 .. Len(t) + 1
<1> DEFINE braces == LinesFrom(t, s, "}")
<1>1. braces \in SUBSET (0 .. Len(t)) /\ Len(t) \in Nat /\ \A i \in braces : i \in s .. Len(t)
  <2>1. Len(t) \in Nat /\ s \in Nat
    OBVIOUS
  <2>2. \A i \in braces : i \in s .. Len(t)
    BY LinesAreIn
  <2> HIDE DEF braces
  <2> QED
    BY <2>1, <2>2, LinesBetween
<1>2. AdvancePast(t, s) = IF braces = {} THEN Len(t) + 1 ELSE Min(braces) + 1
  BY DEF AdvancePast
<1> HIDE DEF braces
<1>3. CASE braces = {}
  BY <1>1, <1>2, <1>3
<1>4. CASE braces # {}
  <2>1. Min(braces) \in braces
    BY <1>1, <1>4, LeastOf
  <2> HIDE DEF braces
  <2>2. Min(braces) \in s .. Len(t)
    BY <1>1, <2>1
  <2> QED
    BY <1>2, <1>4, <2>2
<1> QED
  BY <1>3, <1>4

\* A block that opens at s and ends at e is inside the text.
LEMMA BlockBounds ==
  ASSUME NEW n \in Nat, NEW k, k \in 1 .. n + 1, NEW s, s \in k .. n, NEW e, e \in s + 1 .. n
  PROVE  s \in 1 .. n /\ s + 1 \in 1 .. n + 1 /\ e - 1 \in (s + 1) - 1 .. n
OBVIOUS

\* Where the loop goes on is below where the block opens.
LEMMA BehindBlock ==
  ASSUME NEW n \in Nat, NEW s, s \in 1 .. n, NEW f, f \in s + 1 .. n + 1
  PROVE  f \in 1 .. n + 1 /\ f > s /\ f \in Nat
OBVIOUS

\* The loop over blocks keeps its type.
LEMMA FoundMore ==
  ASSUME NEW S, NEW t, NEW f, f \in 1 .. Len(t) + 1, NEW c, c \in Seq(Seq(S))
  PROVE  [from |-> f, bodies |-> c] \in Found(S, t)
<1> DEFINE A == 1 .. Len(t) + 1
           B == Seq(Seq(S))
<1>1. f \in A /\ c \in B
  OBVIOUS
<1>2. [from |-> f, bodies |-> c] \in [from : A, bodies : B]
  <2> HIDE DEF A, B
  <2> QED BY <1>1
<1> QED
  BY <1>2 DEF Found

\* One body more.
LEMMA BodyAppended ==
  ASSUME NEW X, NEW w \in Seq(X), NEW b \in X
  PROVE  w \o <<b>> = Append(w, b) /\ Append(w, b) \in Seq(X)
OBVIOUS

\* The block that opens first at or after line `from` opens at line s and is
\* closed at line e; the loop goes on at line f.
BlockAt(t, from, s, e, f) ==
  /\ s \in LinesFrom(t, from, "{4:") /\ e \in Balanced(t, s)
  /\ \A j \in Balanced(t, s) : e <= j
  /\ f \in Nat /\ f > s

\* A turn of the loop: nothing more is found, or one body.
LEMMA BlockTaken ==
  ASSUME NEW S, NEW t \in Seq(S), NEW q \in Found(S, t)
  PROVE  /\ TakeBlock(t, q) \in Found(S, t)
         /\ \/ TakeBlock(t, q) = q
            \/ \E s, e, f :
                 /\ BlockAt(t, q.from, s, e, f)
                 /\ TakeBlock(t, q) = [from |-> f, bodies |-> Append(q.bodies, SubSeq(t, s + 1, e - 1))]
<1> DEFINE k == q.from
<1>1. k \in 1 .. Len(t) + 1 /\ q.bodies \in Seq(Seq(S)) /\ Len(t) \in Nat
  BY DEF Found
<1>2. CASE BlockFrom(t, k) = <<>>
  BY <1>2 DEF TakeBlock
<1>3. CASE BlockFrom(t, k) # <<>>
  <2> HIDE DEF k
  <2>1. PICK s \in LinesFrom(t, k, "{4:") : \E e \in Balanced(t, s) :
               /\ s = Min(LinesFrom(t, k, "{4:"))
               /\ \A j \in Balanced(t, s) : e <= j
               /\ BlockFrom(t, k) = <<SubSeq(t, s + 1, e - 1)>>
    BY <1>1, <1>3, BlockFound
  <2>2. PICK e \in Balanced(t, s) :
               /\ s = Min(LinesFrom(t, k, "{4:"))
               /\ \A j \in Balanced(t, s) : e <= j
               /\ BlockFrom(t, k) = <<SubSeq(t, s + 1, e - 1)>>
    BY <2>1
  <2> DEFINE f == AdvancePast(t, s)
             b == SubSeq(t, s + 1, e - 1)
             n == Len(t)
  <2>3. s \in k .. n
    BY LinesAreIn
  <2>4. e \in s + 1 .. n
    BY DEF Balanced
  <2>5. n \in Nat /\ k \in 1 .. n + 1
    BY <1>1
  <2> HIDE DEF f, n
  <2>6. s \in 1 .. n /\ s + 1 \in 1 .. n + 1 /\ e - 1 \in (s + 1) - 1 .. n
    BY Zenon, <2>3, <2>4, <2>5, BlockBounds
  <2>7. f \in s + 1 .. n + 1
    BY Zenon, <2>6, Advances DEF f, n
  <2>8. f \in 1 .. n + 1 /\ f > s /\ f \in Nat
    BY Zenon, <2>5, <2>6, <2>7, BehindBlock
  <2>9. b \in Seq(S)
    BY Zenon, <2>6, PartShape DEF n
  <2>10. TakeBlock(t, q) = [from |-> f, bodies |-> q.bodies \o <<b>>]
    BY <1>3, <2>2 DEF TakeBlock, k, f
  <2> HIDE DEF b
  <2>11. q.bodies \o <<b>> = Append(q.bodies, b) /\ Append(q.bodies, b) \in Seq(Seq(S))
    <3> DEFINE X == Seq(S)
    <3>1. q.bodies \in Seq(X) /\ b \in X
      BY <1>1, <2>9
    <3> HIDE DEF X
    <3>2. q.bodies \o <<b>> = Append(q.bodies, b) /\ Append(q.bodies, b) \in Seq(X)
      BY Zenon, <3>1, BodyAppended
    <3> QED
      BY <3>2 DEF X
  <2>12. TakeBlock(t, q) \in Found(S, t)
    <3>1. f \in 1 .. Len(t) + 1
      BY <2>8 DEF n
    <3> DEFINE c == Append(q.bodies, b)
    <3>2. c \in Seq(Seq(S)) /\ TakeBlock(t, q) = [from |-> f, bodies |-> c]
      BY <2>10, <2>11
    <3> HIDE DEF c
    <3>3. [from |-> f, bodies |-> c] \in Found(S, t)
      BY Zenon, <3>1, <3>2, FoundMore
    <3> QED
      BY Zenon, <3>2, <3>3
  <2>13. BlockAt(t, k, s, e, f)
    BY <2>2, <2>8 DEF BlockAt
  <2> QED
    BY <2>10, <2>11, <2>12, <2>13 DEF b, k
<1> QED
  BY <1>2, <1>3

\* g is what block4_bodies has after each turn.
BlockRuns(g, S, t) ==
  /\ g \in [0 .. Len(t) -> Found(S, t)] /\ g[0] = [from |-> 1, bodies |-> <<>>]
  /\ \A k \in 1 .. Len(t) : g[k] = TakeBlock(t, g[k - 1])

\* What the loop has found in the end.
BodiesFound(t, bodies) == Block4Bodies(t) = IF bodies = <<>> THEN <<t>> ELSE bodies

\* Block4Bodies passes through it.
LEMMA BlockRecursion ==
  ASSUME NEW S, NEW t \in Seq(S)
  PROVE  \E g : BlockRuns(g, S, t) /\ BodiesFound(t, g[Len(t)].bodies)
<1> DEFINE n == Len(t)
           T == Found(S, t)
           b == [from |-> 1, bodies |-> <<>>]
           step(k, q) == TakeBlock(t, q)
           st == [k \in 1 .. n |-> [q \in T |-> step(k, q)]]
           Up(f) == f = [k \in 0 .. n |-> IF k = 0 THEN b ELSE step(k, f[k - 1])]
           h == CHOOSE f : Up(f)
<1>1. n \in Nat /\ b \in T /\ \A k \in 1 .. n : \A q \in T : step(k, q) \in T
  <2>1. n \in Nat /\ b \in T
    BY DEF Found
  <2> QED
    BY <2>1, BlockTaken
<1>2. BodiesFound(t, h[n].bodies)
  BY DEF Block4Bodies, BodiesFound
<1> HIDE DEF n, T, step, b
<1>3. st \in [1 .. n -> [T -> T]] /\ \A k \in 1 .. n : \A q \in T : st[k][q] = step(k, q)
  BY <1>1
<1> HIDE DEF st
<1>4. PICK g : Runs(g, n, T, b, st)
  BY <1>1, <1>3, Recursion
<1>5. g \in [0 .. n -> T] /\ \A k \in 0 .. n : g[k] = IF k = 0 THEN b ELSE step(k, g[k - 1])
  BY <1>1, <1>3, <1>4 DEF Runs
<1>6. Up(g)
  BY <1>5
<1>7. Up(h)
  BY <1>6
<1> HIDE DEF h
<1>8. \A k \in 0 .. n : h[k] = IF k = 0 THEN b ELSE step(k, h[k - 1])
  BY <1>7
<1>9. h[0] = b /\ \A k \in 1 .. n : h[k] = step(k, h[k - 1])
  <2>1. 0 \in 0 .. n /\ \A k \in 1 .. n : k \in 0 .. n /\ k # 0
    BY <1>1
  <2> QED
    BY <1>8, <2>1
<1>10. h \in [0 .. n -> T]
  <2> DEFINE A == {k \in 0 .. n : h[k] \in T}
  <2>1. 0 \in A /\ \A k \in 1 .. n : k - 1 \in A => k \in A
    BY <1>1, <1>9
  <2> HIDE DEF A
  <2>2. 0 .. n \subseteq A
    BY <1>1, <2>1, PrefixInduction
  <2> QED
    BY <1>7, <2>2 DEF A
<1> QED
  BY <1>2, <1>9, <1>10 DEF n, T, step, b, BlockRuns

\* t has no text block.
Bare(t) == \A i \in 1 .. Len(t) : t[i].kind # "{4:"

\* Without a text block the whole text is one body.
LEMMA NoBlocks ==
  ASSUME NEW S, NEW t, t \in Seq(S), Bare(t)
  PROVE  Block(t) = <<>> /\ Block4Bodies(t) = <<t>>
<1> DEFINE n == Len(t)
<1>1. \A k \in 1 .. n + 1 : BlockFrom(t, k) = <<>>
  <2> TAKE k \in 1 .. n + 1
  <2>1. \A i \in k .. n : i \in 1 .. n
    OBVIOUS
  <2>2. LinesFrom(t, k, "{4:") = {}
    BY Zenon, <2>1 DEF LinesFrom, Bare
  <2> QED
    BY Zenon, <2>2 DEF BlockFrom
<1>2. PICK p : BlockRuns(p, S, t) /\ BodiesFound(t, p[n].bodies)
  BY BlockRecursion
<1>3. /\ p \in [0 .. n -> Found(S, t)] /\ p[0] = [from |-> 1, bodies |-> <<>>] /\ n \in Nat
      /\ \A k \in 1 .. n : p[k] = TakeBlock(t, p[k - 1])
  BY <1>2 DEF BlockRuns
<1> DEFINE T == {k \in 0 .. n : p[k] = p[0]}
<1>4. 0 \in T
  BY <1>3
<1>5. ASSUME NEW k \in 1 .. n, k - 1 \in T PROVE k \in T
  <2> HIDE DEF n
  <2>1. k - 1 \in 0 .. n /\ k \in 0 .. n /\ 1 \in 1 .. n + 1
    BY <1>3
  <2>2. p[k] = TakeBlock(t, p[0]) /\ p[0].from = 1
    BY <1>3, <1>5
  <2>3. TakeBlock(t, p[0]) = p[0]
    BY <1>1, <2>1, <2>2 DEF TakeBlock
  <2> QED
    BY <2>1, <2>2, <2>3
<1>6. p[n].bodies = <<>>
  <2> HIDE DEF n, T
  <2>1. 0 .. n \subseteq T
    BY <1>3, <1>4, <1>5, PrefixInduction
  <2>2. n \in T
    BY <1>3, <2>1
  <2> QED
    BY <1>3, <2>2 DEF T
<1>7. Block4Bodies(t) = <<t>>
  BY <1>2, <1>6 DEF BodiesFound
<1>8. Block(t) = <<>>
  <2>1. 1 \in 1 .. n + 1
    BY <1>3
  <2> QED
    BY <1>1, <2>1 DEF Block
<1> QED
  BY <1>7, <1>8

\* and the groups are those of that body.
LEMMA BareGroups ==
  ASSUME NEW S, NEW t, t \in Seq(S), Bare(t)
  PROVE  Groups(t) = SplitStatements(ParseBody(t))
<1>1. Block4Bodies(t) = <<t>>
  BY NoBlocks
<1>2. <<t>> \in Seq(Seq(S)) /\ Len(<<t>>) = 1 /\ <<t>>[1] = t
  OBVIOUS
<1>3. PICK p : GroupRuns(p, S, Block4Bodies(t)) /\ Groups(t) = p[Len(Block4Bodies(t))]
  BY <1>1, <1>2, GroupRecursion
<1> DEFINE w == <<t>>
<1>4. w[1] = t /\ Len(w) = 1 /\ GroupRuns(p, S, w) /\ Groups(t) = p[1]
  BY <1>1, <1>2, <1>3
<1> HIDE DEF w
<1>5. Groups(t) = p[1] /\ p[0] = <<>> /\ p[1] = p[0] \o SplitStatements(ParseBody(t))
  <2>1. 1 \in 1 .. Len(w) /\ 1 - 1 = 0
    BY <1>4
  <2>2. p[0] = <<>> /\ \A k \in 1 .. Len(w) : p[k] = p[k - 1] \o SplitStatements(ParseBody(w[k]))
    BY <1>4 DEF GroupRuns
  <2>3. p[1] = p[1 - 1] \o SplitStatements(ParseBody(w[1]))
    BY <2>1, <2>2
  <2> QED
    BY <1>4, <2>1, <2>2, <2>3
<1> DEFINE gs == SplitStatements(ParseBody(t))
           X == Seq(Seq(S))
<1>6. gs \in Seq(X)
  BY Zenon, BodyGroups
<1> HIDE DEF gs, X
<1>7. <<>> \o gs = gs
  BY <1>6
<1> QED
  BY <1>5, <1>7 DEF gs

\* Block4::first gives a field with the tag, or None.
LEMMA FirstField ==
  ASSUME NEW F, NEW g, g \in Seq(F), NEW tag, First(g, tag) # <<>>
  PROVE  \E m \in 1 .. Len(g) : First(g, tag) = g[m] /\ TagOf(g[m]) = tag
<1> DEFINE I == {i \in 1 .. Len(g) : TagOf(g[i]) = tag}
           p == IF I # {} THEN Min(I) ELSE 0
<1>1. First(g, tag) = IF p = 0 THEN <<>> ELSE g[p]
  BY DEF First, SelectInSeq
<1>2. I # {} /\ First(g, tag) = g[Min(I)]
  BY <1>1
<1>3. Len(g) \in Nat
  OBVIOUS
<1>4. \A i \in I : i \in 1 .. Len(g) /\ TagOf(g[i]) = tag
  OBVIOUS
<1> HIDE DEF I
<1>5. I \in SUBSET (0 .. Len(g))
  BY <1>4
<1>6. Min(I) \in I
  BY <1>2, <1>3, <1>5, LeastOf
<1> QED
  BY <1>2, <1>4, <1>6
=============================================================================
