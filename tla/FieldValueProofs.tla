-------------------------- MODULE FieldValueProofs --------------------------
(***************************************************************************)
(* What holds of every field, for any fields and wherever a transfer cuts  *)
(* them off or damages them: a text of one-byte characters is not sliced   *)
(* out of range, a field that arrives whole is read as it was meant and    *)
(* one that is cut off as nothing else, every line of a party is in one    *)
(* column, the account in that column is the one that is checked, and the  *)
(* end-to-end id is a value of a marker.  Before that, of the check of an  *)
(* account: the fold of iban_mod97_ok computes the remainder of the whole  *)
(* number and does not overflow, for sequences of any length over any      *)
(* alphabet, and every slip next to a sequence that it accepts is found.   *)
(***************************************************************************)
EXTENDS FieldValues, SequenceLemmas

\* The inductive invariant: what was folded is the remainder of the number.
Folded ==
  /\ TypeOK
  /\ remainder = number % 97
  /\ i > 0 => Shape(iban)
  /\ verdict = "good" => Shape(iban) /\ i = Len(iban) /\ remainder = 1
  /\ verdict = "bad" /\ Shape(iban) /\ i = Len(iban) => remainder # 1

\* A character of the rearranged sequence is one of the sequence.
LEMMA RearrangedIsChar ==
  ASSUME NEW s \in Seq(Char), Shape(s), NEW k \in 1 .. Len(s)
  PROVE  Rearranged(s, k) \in Char
<1>1. Len(s) \in 5 .. 34
  BY DEF Shape
<1>2. CASE k + 4 <= Len(s)
  BY <1>1, <1>2 DEF Rearranged
<1>3. CASE ~(k + 4 <= Len(s))
  <2> DEFINE l == Len(s)
  <2>1. l \in 5 .. 34 /\ k \in 1 .. l /\ k + 4 > l
    BY <1>1, <1>3
  <2> HIDE DEF l
  <2>2. k + 4 - l \in 1 .. l
    BY <2>1
  <2> USE DEF l
  <2> QED
    BY <1>3, <2>2 DEF Rearranged
<1> QED
  BY <1>2, <1>3

\* Folding the remainder of a number leaves that of the number made longer.
LEMMA FoldIsExact ==
  ASSUME NEW n \in Nat, NEW r \in 0 .. 96, r = n % 97, NEW c \in Digit \cup Letter
  PROVE  /\ Fold(r, c) \in 0 .. 96
         /\ c \in Letter => Fold(r, c) = (n * 100 + c) % 97
         /\ c \notin Letter => Fold(r, c) = (n * 10 + c) % 97
<1>1. c \in Nat
  BY DEF Digit, Letter
<1>2. PICK q \in Nat : n = 97 * q + r
  <2>1. n = 97 * (n \div 97) + (n % 97)
    OBVIOUS
  <2>2. n \div 97 \in Nat
    OBVIOUS
  <2> QED
    BY <2>1, <2>2
<1>3. (n * 100 + c) = 97 * (q * 100) + (r * 100 + c)
  BY <1>1, <1>2
<1>4. (n * 10 + c) = 97 * (q * 10) + (r * 10 + c)
  BY <1>1, <1>2
<1>5. \A a, b \in Nat : (97 * a + b) % 97 = b % 97
  OBVIOUS
<1>6. q * 100 \in Nat /\ q * 10 \in Nat /\ r * 100 + c \in Nat /\ r * 10 + c \in Nat
  BY <1>1
<1>7. (n * 100 + c) % 97 = (r * 100 + c) % 97
  BY <1>3, <1>5, <1>6
<1>8. (n * 10 + c) % 97 = (r * 10 + c) % 97
  BY <1>4, <1>5, <1>6
<1>9. Fold(r, c) \in 0 .. 96
  BY <1>6 DEF Fold, Shifted
<1> QED
  BY <1>7, <1>8, <1>9 DEF Fold, Shifted

\* It holds before anything is folded.
LEMMA FoldedInit == Init => Folded
BY IbanAssumption DEF Init, Folded, TypeOK

\* A turn keeps it.
LEMMA FoldedTurn == Folded /\ FoldCharacter => Folded'
<1> SUFFICES ASSUME Folded, FoldCharacter PROVE Folded'
  OBVIOUS
<1> DEFINE c == Rearranged(iban, i + 1)
<1>1. iban \in Seq(Char) /\ Shape(iban) /\ i + 1 \in 1 .. Len(iban) /\ i \in Nat
  BY DEF Folded, TypeOK, FoldCharacter
<1>2. c \in Char
  BY <1>1, RearrangedIsChar
<1>3. CASE c = Other
  BY <1>1, <1>3 DEF Folded, TypeOK, FoldCharacter
<1>4. CASE c # Other
  <2>1. c \in Digit \cup Letter
    BY <1>2, <1>4 DEF Char, Other, Digit, Letter
  <2>2. /\ verdict = "none" /\ verdict' = verdict
        /\ i' = i + 1 /\ iban' = iban
        /\ remainder' = Fold(remainder, c)
        /\ number' = IF c \in Letter THEN number * 100 + c ELSE number * 10 + c
    BY <1>4 DEF FoldCharacter
  <2>3. number \in Nat /\ remainder \in 0 .. 96 /\ remainder = number % 97
    BY DEF Folded, TypeOK
  <2>4. c \in Nat
    BY <2>1 DEF Digit, Letter
  <2> HIDE DEF c
  <2>5. number' \in Nat
    BY <2>2, <2>3, <2>4
  <2>7. /\ Fold(remainder, c) \in 0 .. 96
        /\ c \in Letter => Fold(remainder, c) = (number * 100 + c) % 97
        /\ c \notin Letter => Fold(remainder, c) = (number * 10 + c) % 97
    BY <2>1, <2>3, FoldIsExact
  <2>6. remainder' \in 0 .. 96 /\ remainder' = number' % 97
    BY <2>2, <2>7
  <2> QED
    BY <1>1, <2>2, <2>5, <2>6 DEF Folded, TypeOK
<1> QED
  BY <1>3, <1>4

\* So does every step.
LEMMA FoldedStep == Folded /\ [Next]_vars => Folded'
<1> SUFFICES ASSUME Folded, [Next]_vars PROVE Folded'
  OBVIOUS
<1>1. CASE RejectShape
  BY <1>1 DEF RejectShape, Folded, TypeOK, Shape
<1>2. CASE FoldCharacter
  BY <1>2, FoldedTurn
<1>3. CASE Return
  BY <1>3 DEF Return, Folded, TypeOK, Shape
<1>4. CASE UNCHANGED vars
  BY <1>4 DEF vars, Folded, TypeOK, Shape
<1> QED
  BY <1>1, <1>2, <1>3, <1>4 DEF Next

\* The inductive invariant holds throughout.
LEMMA FoldedAlways == Spec => []Folded
BY FoldedInit, FoldedStep, PTL DEF Spec

(***************************************************************************)
(* The types are kept, for any sequence.                                   *)
(***************************************************************************)
THEOREM FoldTypes == Spec => []TypeOK
<1>1. Folded => TypeOK
  BY DEF Folded
<1> QED
  BY <1>1, FoldedAlways, PTL

(***************************************************************************)
(* iban_mod97_ok accepts a sequence exactly when it has the shape of an    *)
(* IBAN and its number, however long, is 1 modulo 97.                      *)
(***************************************************************************)
THEOREM FoldChecksTheNumber == Spec => []ChecksTheNumber
<1>1. Folded => ChecksTheNumber
  BY DEF Folded, ChecksTheNumber
<1> QED
  BY <1>1, FoldedAlways, PTL

(***************************************************************************)
(* The u32 of the fold does not overflow, for any sequence.                *)
(***************************************************************************)
THEOREM FoldDoesNotOverflow == Spec => []NoOverflow
<1>1. Folded => NoOverflow
  BY DEF Folded, TypeOK, NoOverflow, Shifted, Digit, Letter
<1> QED
  BY <1>1, FoldedAlways, PTL
-----------------------------------------------------------------------------
\* The remainders that the fold of a sequence passes through.
Folding(s, r) ==
  /\ r \in [0 .. Len(s) -> 0 .. 96] /\ r[0] = 0
  /\ \A k \in 1 .. Len(s) : r[k] = Fold(r[k - 1], Rearranged(s, k))

Trace(s) == CHOOSE r : Folding(s, r)

\* A remainder stays one.
LEMMA FoldIsRemainder ==
  ASSUME NEW r \in 0 .. 96, NEW c \in Char
  PROVE  Fold(r, c) \in 0 .. 96
<1>1. c \in Nat
  BY DEF Char, Other
<1>2. Shifted(r, c) \in Nat
  BY <1>1 DEF Shifted
<1> QED
  BY <1>2 DEF Fold

\* Every sequence has them, and the last is what RemainderOf computes.
LEMMA TraceExists ==
  ASSUME NEW s \in Seq(Char), Shape(s)
  PROVE  Folding(s, Trace(s)) /\ RemainderOf(s) = Trace(s)[Len(s)]
<1> DEFINE n == Len(s)
           R == 0 .. 96
           b == 0
           step(k, q) == Fold(q, Rearranged(s, k))
           st == [k \in 1 .. n |-> [q \in R |-> step(k, q)]]
           Up(f) == f = [k \in 0 .. n |-> IF k = 0 THEN b ELSE step(k, f[k - 1])]
           h == CHOOSE f : Up(f)
<1>1. n \in Nat /\ b \in R /\ \A k \in 1 .. n : \A q \in R : step(k, q) \in R
  <2>1. \A k \in 1 .. n : Rearranged(s, k) \in Char
    BY RearrangedIsChar
  <2>2. n \in Nat /\ b \in R
    OBVIOUS
  <2> QED
    BY <2>1, <2>2, FoldIsRemainder
<1>2. RemainderOf(s) = h[n]
  BY DEF RemainderOf
<1> HIDE DEF n, R, step, b
<1>3. st \in [1 .. n -> [R -> R]] /\ \A k \in 1 .. n : \A q \in R : st[k][q] = step(k, q)
  BY <1>1
<1> HIDE DEF st
<1>4. PICK g : Runs(g, n, R, b, st)
  BY <1>1, <1>3, Recursion
<1>5. g \in [0 .. n -> R] /\ \A k \in 0 .. n : g[k] = IF k = 0 THEN b ELSE step(k, g[k - 1])
  BY <1>1, <1>3, <1>4 DEF Runs
<1>6. Up(g)
  BY <1>5
<1>7. Up(h)
  BY <1>6
<1> HIDE DEF h
<1>8. h[0] = b /\ \A k \in 1 .. n : h[k] = step(k, h[k - 1])
  <2>1. \A k \in 0 .. n : h[k] = IF k = 0 THEN b ELSE step(k, h[k - 1])
    BY <1>7
  <2>2. 0 \in 0 .. n /\ \A k \in 1 .. n : k \in 0 .. n /\ k # 0
    BY <1>1
  <2> QED
    BY <2>1, <2>2
<1>9. g[0] = b /\ \A k \in 1 .. n : g[k] = step(k, g[k - 1])
  <2>2. 0 \in 0 .. n /\ \A k \in 1 .. n : k \in 0 .. n /\ k # 0
    BY <1>1
  <2> QED
    BY <1>5, <2>2
<1>10. Folding(s, g)
  BY <1>5, <1>9 DEF Folding, n, R, b, step
<1> DEFINE t == Trace(s)
<1>11. Folding(s, t)
  BY <1>10 DEF Trace
<1>12. t[0] = b /\ \A k \in 1 .. n : t[k] = step(k, t[k - 1])
  BY <1>11 DEF Folding, n, b, step
<1> HIDE DEF t
<1>13. t[n] = h[n]
  <2> DEFINE A == {k \in 0 .. n : t[k] = h[k]}
  <2>1. 0 \in A /\ \A k \in 1 .. n : k - 1 \in A => k \in A
    BY <1>1, <1>8, <1>12
  <2> HIDE DEF A
  <2>2. 0 .. n \subseteq A
    BY <1>1, <2>1, PrefixInduction
  <2> QED
    BY <1>1, <2>2 DEF A
<1> QED
  BY <1>2, <1>11, <1>13 DEF n, t

\* Different remainders stay different under the same character.
LEMMA StayDifferent ==
  ASSUME NEW x \in 0 .. 96, NEW y \in 0 .. 96, x # y, NEW c \in Char
  PROVE  Fold(x, c) # Fold(y, c)
<1>1. c \in Nat
  BY DEF Char, Other
<1>2. (x * 10 + c) % 97 # (y * 10 + c) % 97
  BY <1>1
<1>3. (x * 100 + c) % 97 # (y * 100 + c) % 97
  BY <1>1
<1> QED
  BY <1>2, <1>3 DEF Fold, Shifted

\* The fold of a digit.
LEMMA FoldOfDigit ==
  ASSUME NEW x \in 0 .. 96, NEW c \in Digit
  PROVE  /\ Shifted(x, c) = x * 10 + c /\ Shifted(x, c) \in Nat
         /\ Fold(x, c) = Shifted(x, c) % 97
<1>1. c \in 0 .. 9 /\ c \notin Letter
  BY DEF Digit, Letter
<1>2. Shifted(x, c) = x * 10 + c
  BY <1>1 DEF Shifted
<1> QED
  BY <1>1, <1>2 DEF Fold

\* A digit for another, or a letter for another, changes the remainder.
LEMMA SubstitutionShows ==
  ASSUME NEW x \in 0 .. 96, NEW c \in Char \ {Other}, NEW d \in Char \ {Other}, c # d,
         c \in Digit <=> d \in Digit
  PROVE  Fold(x, c) # Fold(x, d)
<1>1. (c \in 0 .. 9 /\ d \in 0 .. 9) \/ (c \in 10 .. 35 /\ d \in 10 .. 35)
  BY DEF Char, Other, Digit
<1>2. CASE c \in 0 .. 9 /\ d \in 0 .. 9
  BY <1>2 DEF Fold, Shifted, Letter
<1>3. CASE c \in 10 .. 35 /\ d \in 10 .. 35
  BY <1>3 DEF Fold, Shifted, Letter
<1> QED
  BY <1>1, <1>2, <1>3

\* So do two that are neighbours and swapped.
LEMMA SwapShows ==
  ASSUME NEW x \in 0 .. 96, NEW c \in Char \ {Other}, NEW d \in Char \ {Other}, c # d,
         c \in Digit <=> d \in Digit
  PROVE  Fold(Fold(x, c), d) # Fold(Fold(x, d), c)
<1>1. (c \in 0 .. 9 /\ d \in 0 .. 9) \/ (c \in 10 .. 35 /\ d \in 10 .. 35)
  BY DEF Char, Other, Digit
<1>2. CASE c \in 0 .. 9 /\ d \in 0 .. 9
  <2>1. (((x * 10 + c) % 97) * 10 + d) % 97 # (((x * 10 + d) % 97) * 10 + c) % 97
    BY <1>2
  <2> QED
    BY <1>2, <2>1 DEF Fold, Shifted, Letter
<1>3. CASE c \in 10 .. 35 /\ d \in 10 .. 35
  <2>1. (((x * 100 + c) % 97) * 100 + d) % 97 # (((x * 100 + d) % 97) * 100 + c) % 97
    BY <1>3
  <2> QED
    BY <1>3, <2>1 DEF Fold, Shifted, Letter
<1> QED
  BY <1>1, <1>2, <1>3

\* Once two traces differ they differ to the end of what is the same.
LEMMA DifferToTheEnd ==
  ASSUME NEW s \in Seq(Char), NEW t \in Seq(Char), Shape(s), Shape(t), Len(t) = Len(s),
         NEW p \in 1 .. Len(s), NEW e \in p .. Len(s), Trace(s)[p] # Trace(t)[p],
         \A k \in p + 1 .. e : Rearranged(t, k) = Rearranged(s, k)
  PROVE  Trace(s)[e] # Trace(t)[e]
<1> DEFINE n == Len(s)
           u == Trace(s)
           v == Trace(t)
           A == {m \in 0 .. e - p : u[p + m] # v[p + m]}
<1>1. Folding(s, u) /\ Folding(t, v) /\ n \in Nat /\ p \in 1 .. n /\ e \in p .. n
      /\ Len(t) = n
  <2>1. Folding(s, u) /\ Folding(t, v)
    BY TraceExists
  <2>2. n \in Nat
    OBVIOUS
  <2> QED
    BY <2>1, <2>2
<1>2. \A k \in 1 .. n : Rearranged(s, k) \in Char
  BY RearrangedIsChar
<1> HIDE DEF n, u, v
<1>3. /\ u \in [0 .. n -> 0 .. 96] /\ v \in [0 .. n -> 0 .. 96]
      /\ \A k \in 1 .. n : /\ u[k] = Fold(u[k - 1], Rearranged(s, k))
                           /\ v[k] = Fold(v[k - 1], Rearranged(t, k))
  BY <1>1 DEF Folding, n
<1>4. 0 \in A
  BY <1>1 DEF u, v
<1>5. ASSUME NEW m \in 1 .. e - p, m - 1 \in A PROVE m \in A
  <2> DEFINE k == p + m
  <2>1. k \in p + 1 .. e /\ k \in 1 .. n /\ k - 1 \in 0 .. n /\ p + (m - 1) = k - 1
    BY <1>1
  <2>2. u[k - 1] # v[k - 1]
    BY <1>5, <2>1
  <2>3. Rearranged(t, k) = Rearranged(s, k)
    BY <2>1
  <2>4. u[k - 1] \in 0 .. 96 /\ v[k - 1] \in 0 .. 96 /\ Rearranged(s, k) \in Char
    BY <1>2, <1>3, <2>1
  <2>5. u[k] = Fold(u[k - 1], Rearranged(s, k)) /\ v[k] = Fold(v[k - 1], Rearranged(s, k))
    BY <1>3, <2>1, <2>3
  <2> HIDE DEF k
  <2>6. u[k] # v[k]
    BY <2>2, <2>4, <2>5, StayDifferent
  <2> QED
    BY <2>6 DEF k
<1> HIDE DEF A
<1>6. e - p \in Nat
  BY <1>1
<1>7. 0 .. e - p \subseteq A
  BY <1>4, <1>5, <1>6, PrefixInduction
<1>8. e - p \in A
  BY <1>6, <1>7
<1>9. p + (e - p) = e
  BY <1>1
<1> QED
  BY <1>8, <1>9 DEF A, u, v

\* What is the same before them leaves the same.
LEMMA SameBefore ==
  ASSUME NEW s \in Seq(Char), NEW t \in Seq(Char), Shape(s), Shape(t), Len(t) = Len(s),
         NEW p \in 0 .. Len(s),
         \A k \in 1 .. p : Rearranged(t, k) = Rearranged(s, k)
  PROVE  Trace(s)[p] = Trace(t)[p]
<1> DEFINE n == Len(s)
           u == Trace(s)
           v == Trace(t)
           A == {m \in 0 .. p : u[m] = v[m]}
<1>1. Folding(s, u) /\ Folding(t, v) /\ n \in Nat /\ p \in 0 .. n /\ Len(t) = n
  <2>1. Folding(s, u) /\ Folding(t, v)
    BY TraceExists
  <2>2. n \in Nat
    OBVIOUS
  <2> QED
    BY <2>1, <2>2
<1> HIDE DEF n, u, v
<1>2. /\ u[0] = 0 /\ v[0] = 0
      /\ \A k \in 1 .. n : /\ u[k] = Fold(u[k - 1], Rearranged(s, k))
                           /\ v[k] = Fold(v[k - 1], Rearranged(t, k))
  BY <1>1 DEF Folding, n
<1>3. 0 \in A /\ \A m \in 1 .. p : m - 1 \in A => m \in A
  <2>1. \A m \in 1 .. p : m \in 1 .. n /\ m \in 0 .. p
    BY <1>1
  <2>2. 0 \in A
    BY <1>1, <1>2
  <2> QED
    BY <1>2, <2>1, <2>2
<1> HIDE DEF A
<1>4. 0 .. p \subseteq A
  <2>1. p \in Nat
    BY <1>1
  <2> QED
    BY <1>3, <2>1, PrefixInduction
<1> QED
  BY <1>1, <1>4 DEF A, u, v

\* The remainders of the powers of ten, as far as an IBAN reaches.
Powers(g) ==
  /\ g \in [0 .. 66 -> 0 .. 96] /\ g[0] = 1
  /\ \A k \in 1 .. 66 : g[k] = (g[k - 1] * 10) % 97

\* There are such.
LEMMA PowersExist == \E g : Powers(g)
<1> DEFINE n == 66
           R == 0 .. 96
           b == 1
           next(x) == (x * 10) % 97
           st == [k \in 1 .. n |-> [x \in R |-> next(x)]]
<1>1. n \in Nat /\ b \in R /\ \A x \in R : next(x) \in R
  OBVIOUS
<1> HIDE DEF n, R, b, next
<1>2. st \in [1 .. n -> [R -> R]] /\ \A k \in 1 .. n : \A x \in R : st[k][x] = next(x)
  BY <1>1
<1> HIDE DEF st
<1>3. PICK g : Runs(g, n, R, b, st)
  BY <1>1, <1>2, Recursion
<1>4. g \in [0 .. n -> R] /\ g[0] = b /\ \A k \in 1 .. n : g[k] = st[k][g[k - 1]]
  BY <1>3 DEF Runs
<1>5. \A k \in 1 .. n : g[k] = next(g[k - 1])
  BY <1>1, <1>2, <1>4, SMTT(60)
<1>6. Powers(g)
  BY <1>4, <1>5 DEF Powers, n, R, b, next
<1> QED
  BY <1>6

\* None of them is 1 again.
LEMMA PowersAreNotOne ==
  ASSUME NEW g, Powers(g)
  PROVE  \A k \in 1 .. 66 : g[k] \in 2 .. 96
<1>0. g[0] = 1 /\ \A k \in 1 .. 66 : g[k] = (g[k - 1] * 10) % 97
  BY DEF Powers
<1>1. /\ g[1] = 10 /\ g[2] = 3 /\ g[3] = 30
      /\ g[4] = 9 /\ g[5] = 90 /\ g[6] = 27
  BY <1>0
<1>2. /\ g[7] = 76 /\ g[8] = 81 /\ g[9] = 34
      /\ g[10] = 49 /\ g[11] = 5 /\ g[12] = 50
  BY <1>0, <1>1
<1>3. /\ g[13] = 15 /\ g[14] = 53 /\ g[15] = 45
      /\ g[16] = 62 /\ g[17] = 38 /\ g[18] = 89
  BY <1>0, <1>2
<1>4. /\ g[19] = 17 /\ g[20] = 73 /\ g[21] = 51
      /\ g[22] = 25 /\ g[23] = 56 /\ g[24] = 75
  BY <1>0, <1>3
<1>5. /\ g[25] = 71 /\ g[26] = 31 /\ g[27] = 19
      /\ g[28] = 93 /\ g[29] = 57 /\ g[30] = 85
  BY <1>0, <1>4
<1>6. /\ g[31] = 74 /\ g[32] = 61 /\ g[33] = 28
      /\ g[34] = 86 /\ g[35] = 84 /\ g[36] = 64
  BY <1>0, <1>5
<1>7. /\ g[37] = 58 /\ g[38] = 95 /\ g[39] = 77
      /\ g[40] = 91 /\ g[41] = 37 /\ g[42] = 79
  BY <1>0, <1>6
<1>8. /\ g[43] = 14 /\ g[44] = 43 /\ g[45] = 42
      /\ g[46] = 32 /\ g[47] = 29 /\ g[48] = 96
  BY <1>0, <1>7
<1>9. /\ g[49] = 87 /\ g[50] = 94 /\ g[51] = 67
      /\ g[52] = 88 /\ g[53] = 7 /\ g[54] = 70
  BY <1>0, <1>8
<1>10. /\ g[55] = 21 /\ g[56] = 16 /\ g[57] = 63
      /\ g[58] = 48 /\ g[59] = 92 /\ g[60] = 47
  BY <1>0, <1>9
<1>11. /\ g[61] = 82 /\ g[62] = 44 /\ g[63] = 52
      /\ g[64] = 35 /\ g[65] = 59 /\ g[66] = 8
  BY <1>0, <1>10
<1> QED
  BY <1>1, <1>2, <1>3, <1>4, <1>5, <1>6, <1>7, <1>8, <1>9, <1>10, <1>11, SMTT(60)

\* One after the other.
LEMMA NextPower ==
  ASSUME NEW g, Powers(g), NEW e \in 0 .. 65
  PROVE  /\ g[e] \in Nat /\ g[e + 1] \in 2 .. 96
         /\ g[e + 1] = (g[e] * 10) % 97
<1> DEFINE f == e + 1
<1>1. f \in 1 .. 66 /\ f - 1 = e /\ e \in 0 .. 66
  OBVIOUS
<1> HIDE DEF f
<1>2. g[f] \in 2 .. 96
  BY <1>1, PowersAreNotOne
<1>3. g[f] = (g[f - 1] * 10) % 97 /\ g[e] \in 0 .. 96
  BY <1>1 DEF Powers
<1>4. g[f - 1] = g[e]
  BY <1>1
<1> QED
  BY <1>2, <1>3, <1>4 DEF f

\* 97 is a prime: it divides no product of two that are smaller.
LEMMA NoDivisor ==
  ASSUME NEW x \in 1 .. 95, NEW d \in -9 .. 9, d # 0, NEW z \in Int
  PROVE  x * d # 97 * z
<1>1. \A y \in 1 .. 9, w \in Int : x * y # 97 * w
  <2>1. \A w \in Int : x # 97 * w /\ 2 * x # 97 * w /\ 3 * x # 97 * w
    OBVIOUS
  <2>2. \A w \in Int : 4 * x # 97 * w /\ 5 * x # 97 * w /\ 6 * x # 97 * w
    OBVIOUS
  <2>3. \A w \in Int : 7 * x # 97 * w /\ 8 * x # 97 * w /\ 9 * x # 97 * w
    OBVIOUS
  <2> QED
    BY <2>1, <2>2, <2>3
<1>2. d \in 1 .. 9 \/ (-d \in 1 .. 9 /\ x * (-d) = -(x * d) /\ -(97 * z) = 97 * (-z) /\ -z \in Int)
  OBVIOUS
<1> QED
  BY <1>1, <1>2

\* What a remainder leaves out is a multiple.
LEMMA LeftOut == \A x \in Nat : \E a \in Int : x % 97 = x - 97 * a
<1> TAKE x \in Nat
<1>1. x = 97 * (x \div 97) + (x % 97) /\ x \div 97 \in Int /\ x % 97 \in Int
  OBVIOUS
<1> QED
  BY <1>1

\* x is w times d, but for multiples of 97.
Times(x, w, d) == \E z \in Int : x = w * d + 97 * z

\* Ten times that is so of the next power.
LEMMA TenTimes ==
  ASSUME NEW x \in Int, NEW u \in Nat, NEW v \in Nat, NEW d \in Int, Times(x, u, d),
         v = (u * 10) % 97
  PROVE  Times(10 * x, v, d)
<1>1. PICK z \in Int : x = u * d + 97 * z
  BY DEF Times
<1>2. PICK a \in Int : v = u * 10 - 97 * a
  <2>1. u * 10 \in Nat
    OBVIOUS
  <2> QED
    BY <2>1, LeftOut
<1> DEFINE w == a * d + 10 * z
<1>3. w \in Int
  OBVIOUS
<1>4. 10 * x = 10 * (u * d) + 970 * z
  BY <1>1
<1>5. v * d = 10 * (u * d) - 97 * (a * d)
  BY <1>2
<1>6. 97 * w = 97 * (a * d) + 970 * z
  OBVIOUS
<1> HIDE DEF w
<1>7. 10 * x = v * d + 97 * w
  <2>1. u * d \in Int /\ a * d \in Int /\ v * d \in Int
    OBVIOUS
  <2> QED
    BY <1>3, <1>4, <1>5, <1>6, <2>1
<1> QED
  BY <1>3, <1>7 DEF Times

\* What is added on both sides, and taken off by the remainders, changes nothing.
LEMMA SameTimes ==
  ASSUME NEW x \in 0 .. 96, NEW y \in 0 .. 96, NEW c \in Char, NEW w \in Nat, NEW d \in Int,
         Times(Shifted(x, c) - Shifted(y, c), w, d)
  PROVE  Times(Fold(x, c) - Fold(y, c), w, d)
<1>1. Shifted(x, c) \in Nat /\ Shifted(y, c) \in Nat
  <2>1. c \in Nat
    BY DEF Char, Other
  <2> QED
    BY <2>1 DEF Shifted
<1>2. PICK z \in Int : Shifted(x, c) - Shifted(y, c) = w * d + 97 * z
  BY DEF Times
<1>3. PICK p \in Int : Fold(x, c) = Shifted(x, c) - 97 * p
  BY <1>1, LeftOut DEF Fold
<1>4. PICK q \in Int : Fold(y, c) = Shifted(y, c) - 97 * q
  BY <1>1, LeftOut DEF Fold
<1> DEFINE u == w * d
           v == z + q - p
<1>5. u \in Int /\ Shifted(x, c) - Shifted(y, c) = u + 97 * z
  BY <1>2
<1> HIDE DEF u
<1>6. v \in Int /\ Fold(x, c) - Fold(y, c) = u + 97 * v
  BY <1>1, <1>3, <1>4, <1>5
<1> HIDE DEF v
<1> USE DEF u
<1> QED
  BY <1>6 DEF Times

\* A turn multiplies a difference by ten or by a hundred.
LEMMA DifferenceGrows ==
  ASSUME NEW g, Powers(g), NEW d \in Int, NEW e \in 0 .. 64,
         NEW x \in 0 .. 96, NEW y \in 0 .. 96, Times(x - y, g[e], d), NEW c \in Char
  PROVE  Times(Fold(x, c) - Fold(y, c), g[e + 1], d) \/ Times(Fold(x, c) - Fold(y, c), g[e + 2], d)
<1> DEFINE g0 == g[e]
           g1 == g[e + 1]
           g2 == g[e + 2]
           h0 == x - y
           h1 == 10 * h0
           h2 == 10 * h1
<1>1. g0 \in Nat /\ g1 \in Nat /\ g2 \in Nat /\ g1 = (g0 * 10) % 97 /\ g2 = (g1 * 10) % 97
  <2> DEFINE f == e + 1
  <2>1. e \in 0 .. 65 /\ f \in 0 .. 65 /\ f + 1 = e + 2
    OBVIOUS
  <2> HIDE DEF f
  <2>2. g[e] \in Nat /\ g[e + 1] \in 2 .. 96 /\ g[e + 1] = (g[e] * 10) % 97
    BY <2>1, NextPower
  <2>3. g[f] \in Nat /\ g[f + 1] \in 2 .. 96 /\ g[f + 1] = (g[f] * 10) % 97
    BY <2>1, NextPower
  <2> QED
    BY <2>1, <2>2, <2>3 DEF f
<1>2. c \in Nat
  BY DEF Char, Other
<1>3. h0 \in Int /\ h1 \in Int /\ h2 \in Int /\ Times(h0, g0, d)
  OBVIOUS
<1>4. c \in Letter => Shifted(x, c) - Shifted(y, c) = h2
  BY <1>2 DEF Shifted
<1>5. c \notin Letter => Shifted(x, c) - Shifted(y, c) = h1
  BY <1>2 DEF Shifted
<1> HIDE DEF g0, g1, g2, h0
<1>6. Times(h1, g1, d)
  BY <1>1, <1>3, TenTimes
<1> HIDE DEF h1
<1>7. Times(h2, g2, d)
  BY <1>1, <1>3, <1>6, TenTimes
<1> HIDE DEF h2
<1>8. c \in Letter => Times(Fold(x, c) - Fold(y, c), g2, d)
  BY <1>1, <1>4, <1>7, SameTimes, ZenonT(60)
<1>9. c \notin Letter => Times(Fold(x, c) - Fold(y, c), g1, d)
  BY <1>1, <1>5, <1>6, SameTimes, ZenonT(60)
<1> QED
  BY <1>8, <1>9 DEF g1, g2

\* The first turns with two digits leave their difference.
LEMMA FirstTurn ==
  ASSUME NEW g, Powers(g), NEW a \in Digit, NEW b \in Digit
  PROVE  Times(Fold(0, a) - Fold(0, b), g[0], a - b)
<1>1. 0 \in 0 .. 96 /\ a \in 0 .. 9 /\ b \in 0 .. 9
  BY DEF Digit
<1>2. \A c \in 0 .. 9 : c % 97 = c /\ 0 * 10 + c = c
  OBVIOUS
<1>3. Fold(0, a) = a /\ Fold(0, b) = b
  <2>1. /\ Shifted(0, a) = 0 * 10 + a /\ Fold(0, a) = Shifted(0, a) % 97
        /\ Shifted(0, b) = 0 * 10 + b /\ Fold(0, b) = Shifted(0, b) % 97
    BY <1>1, FoldOfDigit
  <2> QED
    BY <1>1, <1>2, <2>1
<1>4. g[0] = 1
  BY DEF Powers
<1> DEFINE d == a - b
<1>5. d = 1 * d + 97 * 0
  BY <1>1
<1> HIDE DEF d
<1>6. Times(d, g[0], d)
  BY <1>4, <1>5 DEF Times
<1> QED
  BY <1>3, <1>6 DEF d

\* The last turns, with the digits the other way round, do not make up for it.
LEMMA LastTurn ==
  ASSUME NEW g, Powers(g), NEW a \in Digit, NEW b \in Digit, a # b, NEW e \in 0 .. 65,
         NEW x \in 0 .. 96, NEW y \in 0 .. 96, NEW h0, h0 = x - y, NEW d, d = a - b,
         Times(h0, g[e], d)
  PROVE  Fold(x, b) # Fold(y, a)
<1> DEFINE g0 == g[e]
           g1 == g[e + 1]
<1>1. g0 \in Nat /\ g1 \in 2 .. 96 /\ g1 = (g0 * 10) % 97
  BY NextPower
<1>2. h0 \in Int /\ Times(h0, g0, d)
  OBVIOUS
<1>3. d \in -9 .. 9 /\ d # 0 /\ d \in Int /\ d = a - b /\ a \in 0 .. 9 /\ b \in 0 .. 9
  BY DEF Digit
<1> HIDE DEF g0, g1
<1>4. PICK w \in Int : 10 * h0 = g1 * d + 97 * w
  <2>1. Times(10 * h0, g1, d)
    BY <1>1, <1>2, <1>3, TenTimes
  <2> QED
    BY <2>1 DEF Times
<1>5. /\ Fold(x, b) = Shifted(x, b) % 97 /\ Shifted(x, b) \in Nat /\ Shifted(x, b) = x * 10 + b
      /\ Fold(y, a) = Shifted(y, a) % 97 /\ Shifted(y, a) \in Nat /\ Shifted(y, a) = y * 10 + a
  BY FoldOfDigit
<1>6. PICK p \in Int : Fold(x, b) = Shifted(x, b) - 97 * p
  BY <1>5, LeftOut
<1>7. PICK q \in Int : Fold(y, a) = Shifted(y, a) - 97 * q
  BY <1>5, LeftOut
<1>8. SUFFICES ASSUME Fold(x, b) = Fold(y, a) PROVE FALSE
  OBVIOUS
<1>9. x * 10 + b - 97 * p = y * 10 + a - 97 * q
  <2>1. Shifted(x, b) - 97 * p = Shifted(y, a) - 97 * q
    BY <1>6, <1>7, <1>8
  <2>2. Shifted(x, b) = x * 10 + b /\ Shifted(y, a) = y * 10 + a
    BY <1>5
  <2> QED
    BY <1>3, <2>1, <2>2
<1>10. 10 * h0 = d + 97 * (p - q)
  BY <1>3, <1>9
<1> DEFINE f == g1 - 1
           j == p - q - w
           m == g1 * d
<1>11. f \in 1 .. 95 /\ j \in Int /\ m \in Int /\ f * d = m - d
  BY <1>1, <1>3
<1>12. m = d + 97 * j
  <2> HIDE DEF m
  <2>1. 10 * h0 = m + 97 * w
    BY <1>4 DEF m
  <2> QED
    BY <1>3, <1>10, <1>11, <2>1
<1> HIDE DEF m
<1>13. f * d = 97 * j
  <2> DEFINE l == f * d
  <2> HIDE DEF l, j
  <2> QED
    BY <1>3, <1>11, <1>12 DEF l
<1>14. f \in 1 .. 95 /\ j \in Int /\ d \in -9 .. 9 /\ d # 0
  BY <1>3, <1>11
<1> HIDE DEF f, j
<1> QED
  BY <1>13, <1>14, NoDivisor

\* A difference is that power of ten of another, but for multiples of 97.
LiesApart(g, d, m, h) == \E e \in m .. 2 * m : Times(h, g[e], d)

\* The numbers of s and t differ in that the first and last character change places.
Mirrored(s, t, a, b) ==
  /\ Rearranged(s, 1) = a /\ Rearranged(s, Len(s)) = b
  /\ Rearranged(t, 1) = b /\ Rearranged(t, Len(s)) = a
  /\ \A k \in 2 .. Len(s) - 1 : Rearranged(t, k) = Rearranged(s, k)

\* The first and the last digit of the number swapped show too.
LEMMA EndsShow ==
  ASSUME NEW s \in Seq(Char), NEW t \in Seq(Char), Shape(s), Shape(t), Len(t) = Len(s),
         NEW a \in Digit, NEW b \in Digit, a # b, Mirrored(s, t, a, b)
  PROVE  Trace(s)[Len(s)] # Trace(t)[Len(s)]
<1> DEFINE n == Len(s)
           u == Trace(s)
           v == Trace(t)
           d == a - b
<1>1. n \in 5 .. 34
  BY DEF Shape
<1>2. Folding(s, u) /\ Folding(t, v)
  BY TraceExists
<1>3. \A k \in 1 .. n : Rearranged(s, k) \in Char
  BY RearrangedIsChar
<1>4. PICK g : Powers(g)
  BY PowersExist
<1>5. d \in -9 .. 9 /\ d # 0 /\ a \in 0 .. 9 /\ b \in 0 .. 9
  BY DEF Digit
<1>6. /\ u \in [0 .. n -> 0 .. 96] /\ v \in [0 .. n -> 0 .. 96] /\ u[0] = 0 /\ v[0] = 0
      /\ \A k \in 1 .. n : /\ u[k] = Fold(u[k - 1], Rearranged(s, k))
                           /\ v[k] = Fold(v[k - 1], Rearranged(t, k))
  BY <1>2 DEF Folding
<1>0. /\ Rearranged(s, 1) = a /\ Rearranged(s, n) = b
      /\ Rearranged(t, 1) = b /\ Rearranged(t, n) = a
      /\ \A k \in 2 .. n - 1 : Rearranged(t, k) = Rearranged(s, k)
  BY DEF Mirrored
<1> HIDE DEF u, v, n
<1> DEFINE A == {m \in 0 .. n - 2 : LiesApart(g, d, m, u[m + 1] - v[m + 1])}
<1>7. 0 \in A
  <2>1. u[1] = Fold(0, a) /\ v[1] = Fold(0, b)
    <3>1. 1 \in 1 .. n /\ 1 - 1 = 0
      BY <1>1
    <3> QED
      BY <1>0, <1>6, <3>1
  <2>2. Times(u[0 + 1] - v[0 + 1], g[0], d)
    BY <1>4, <2>1, FirstTurn
  <2>3. 0 \in 0 .. 2 * 0 /\ 0 \in 0 .. n - 2
    BY <1>1
  <2> HIDE DEF d
  <2> QED
    BY <2>2, <2>3 DEF LiesApart
<1>8. ASSUME NEW m \in 1 .. n - 2, m - 1 \in A PROVE m \in A
  <2> DEFINE x == u[m]
             y == v[m]
             c == Rearranged(s, m + 1)
  <2>1. m \in 0 .. n /\ m + 1 \in 1 .. n /\ m + 1 - 1 = m /\ m + 1 \in 2 .. n - 1
        /\ m - 1 + 1 = m
    BY <1>1
  <2>2. x \in 0 .. 96 /\ y \in 0 .. 96 /\ c \in Char
    BY <1>3, <1>6, <2>1
  <2>3. u[m + 1] = Fold(x, c) /\ v[m + 1] = Fold(y, c)
    BY <1>0, <1>6, <2>1
  <2>4. LiesApart(g, d, m - 1, x - y)
    BY <1>8, <2>1
  <2> HIDE DEF x, y, c, d
  <2>5. PICK e \in m - 1 .. 2 * (m - 1) : Times(x - y, g[e], d)
    BY <2>4 DEF LiesApart
  <2>6. e \in 0 .. 64 /\ e + 1 \in m .. 2 * m /\ e + 2 \in m .. 2 * m
    BY <1>1
  <2>7. d \in Int
    BY <1>5
  <2>8. Times(Fold(x, c) - Fold(y, c), g[e + 1], d) \/ Times(Fold(x, c) - Fold(y, c), g[e + 2], d)
    BY <1>4, <2>2, <2>5, <2>6, <2>7, DifferenceGrows
  <2>9. LiesApart(g, d, m, u[m + 1] - v[m + 1])
    BY <2>3, <2>6, <2>8 DEF LiesApart
  <2> QED
    BY <2>9, <1>1
<1> HIDE DEF A
<1>9. n - 2 \in A
  <2>1. n - 2 \in Nat
    BY <1>1
  <2>2. 0 .. n - 2 \subseteq A
    BY <1>7, <1>8, <2>1, PrefixInduction
  <2> QED
    BY <2>1, <2>2
<1> DEFINE x == u[n - 1]
           y == v[n - 1]
<1>10. n - 2 + 1 = n - 1 /\ LiesApart(g, d, n - 2, x - y)
  BY <1>1, <1>9 DEF A
<1>11. x \in 0 .. 96 /\ y \in 0 .. 96 /\ u[n] = Fold(x, b) /\ v[n] = Fold(y, a)
  <2>1. n \in 1 .. n /\ n - 1 \in 0 .. n
    BY <1>1
  <2> QED
    BY <1>0, <1>6, <2>1
<1> HIDE DEF x, y, d
<1>12. PICK e \in n - 2 .. 2 * (n - 2) : Times(x - y, g[e], d)
  BY <1>10 DEF LiesApart
<1>13. e \in 0 .. 65
  BY <1>1, SMTT(60)
<1>14. Fold(x, b) # Fold(y, a)
  <2> DEFINE h == x - y
  <2>1. Times(h, g[e], d) /\ h = x - y
    BY <1>12
  <2>2. d = a - b
    BY DEF d
  <2> HIDE DEF h
  <2>3. Powers(g) /\ x \in 0 .. 96 /\ y \in 0 .. 96
    BY <1>4, <1>11
  <2> QED
    BY <1>13, <2>1, <2>2, <2>3, LastTurn
<1> QED
  BY <1>11, <1>14 DEF u, v, n

\* Where a position of a sequence comes to lie in the rearranged one.
Place(s, k) == IF k > 4 THEN k - 4 ELSE k + Len(s) - 4

\* It is what stands there, and nothing else does.
LEMMA PlaceIsInverse ==
  ASSUME NEW s \in Seq(Char), Shape(s), NEW k \in 1 .. Len(s)
  PROVE  /\ Place(s, k) \in 1 .. Len(s)
         /\ \A t : Len(t) = Len(s) =>
              /\ Rearranged(t, Place(s, k)) = t[k]
              /\ \A j \in 1 .. Len(s) : j # Place(s, k) =>
                   \E o \in 1 .. Len(s) : o # k /\ Place(s, o) = j
<1> DEFINE n == Len(s)
<1>1. n \in 5 .. 34 /\ k \in 1 .. n
  BY DEF Shape
<1> HIDE DEF n
<1>2. Place(s, k) = IF k > 4 THEN k - 4 ELSE k + n - 4
  BY DEF Place, n
<1>3. Place(s, k) \in 1 .. n
  BY <1>1, <1>2
<1>4. ASSUME NEW t, Len(t) = n PROVE Rearranged(t, Place(s, k)) = t[k]
  <2>1. CASE k > 4
    <3>1. k - 4 + 4 = k /\ k <= n
      BY <1>1, <2>1
    <3> QED
      BY <1>2, <1>4, <2>1, <3>1 DEF Rearranged
  <2>2. CASE ~(k > 4)
    <3>1. ~(k + n - 4 + 4 <= n) /\ k + n - 4 + 4 - n = k
      BY <1>1, <2>2
    <3> QED
      BY <1>2, <1>4, <2>2, <3>1 DEF Rearranged
  <2> QED
    BY <2>1, <2>2
<1>5. ASSUME NEW j \in 1 .. n, j # Place(s, k)
      PROVE  \E o \in 1 .. n : o # k /\ Place(s, o) = j
  <2> DEFINE o == IF j + 4 <= n THEN j + 4 ELSE j + 4 - n
  <2>1. o \in 1 .. n /\ o # k
    BY <1>1, <1>2, <1>5
  <2>2. Place(s, o) = j
    <3>1. Place(s, o) = IF o > 4 THEN o - 4 ELSE o + n - 4
      BY DEF Place, n
    <3> QED
      BY <1>1, <3>1
  <2> QED
    BY <2>1, <2>2
<1> QED
  BY <1>3, <1>4, <1>5 DEF n

\* Characters that are neither a digit nor a letter end the fold.
Plain(s) == s \in Seq(Char \ {Other})

\* Its characters are of the alphabet.
LEMMA PlainIsChar ==
  ASSUME NEW s, Plain(s), Shape(s)
  PROVE  s \in Seq(Char) /\ Len(s) \in 5 .. 34 /\ \A k \in 1 .. Len(s) : s[k] \in Char \ {Other}
<1>1. s \in Seq(Char \ {Other})
  BY DEF Plain
<1>2. Char \ {Other} \subseteq Char
  OBVIOUS
<1> HIDE DEF Plain
<1>3. s \in Seq(Char) /\ \A k \in 1 .. Len(s) : s[k] \in Char \ {Other}
  BY <1>1, <1>2
<1> QED
  BY <1>3 DEF Shape

\* One character for another of its class.
LEMMA SubstitutionFound ==
  ASSUME NEW s, Plain(s), Shape(s), NEW t, Plain(t), Shape(t), Len(t) = Len(s),
         NEW k \in 1 .. Len(s), s[k] # t[k], s[k] \in Digit <=> t[k] \in Digit,
         \A j \in 1 .. Len(s) : j # k => t[j] = s[j]
  PROVE  Trace(s)[Len(s)] # Trace(t)[Len(s)]
<1> DEFINE n == Len(s)
           p == Place(s, k)
           u == Trace(s)
           v == Trace(t)
<1>1. s \in Seq(Char) /\ t \in Seq(Char) /\ n \in 5 .. 34
  BY PlainIsChar
<1>2. p \in 1 .. n /\ Rearranged(s, p) = s[k] /\ Rearranged(t, p) = t[k]
  BY <1>1, PlaceIsInverse
<1>3. ASSUME NEW j \in 1 .. n, j # p PROVE Rearranged(t, j) = Rearranged(s, j)
  <2>1. PICK o \in 1 .. n : o # k /\ Place(s, o) = j
    BY <1>1, <1>3, PlaceIsInverse
  <2>2. Rearranged(s, j) = s[o] /\ Rearranged(t, j) = t[o]
    BY <1>1, <2>1, PlaceIsInverse, ZenonT(60)
  <2> QED
    BY <2>1, <2>2
<1>4. Folding(s, u) /\ Folding(t, v)
  BY <1>1, TraceExists
<1> HIDE DEF p, u, v
<1>5. u[p] = Fold(u[p - 1], s[k]) /\ v[p] = Fold(v[p - 1], t[k]) /\ u[p - 1] \in 0 .. 96
  <2>1. p - 1 \in 0 .. n
    BY <1>1, <1>2
  <2> QED
    BY <1>2, <1>4, <2>1 DEF Folding
<1> USE DEF u, v
<1>6. u[p - 1] = v[p - 1]
  <2>1. p - 1 \in 0 .. n /\ \A j \in 1 .. p - 1 : Rearranged(t, j) = Rearranged(s, j)
    BY <1>1, <1>2, <1>3
  <2> QED
    BY <1>1, <2>1, SameBefore
<1>7. s[k] \in Char \ {Other} /\ t[k] \in Char \ {Other}
  BY PlainIsChar
<1>8. u[p] # v[p]
  BY <1>5, <1>6, <1>7, SubstitutionShows
<1>9. n \in p .. n /\ \A j \in p + 1 .. n : Rearranged(t, j) = Rearranged(s, j)
  BY <1>1, <1>2, <1>3
<1> QED
  BY <1>1, <1>2, <1>8, <1>9, DifferToTheEnd

\* Two neighbours of a class the other way round.
LEMMA SwapFound ==
  ASSUME NEW s, Plain(s), Shape(s), NEW t, Plain(t), Shape(t), Len(t) = Len(s),
         NEW k \in 1 .. Len(s) - 1, s[k] # s[k + 1], s[k] \in Digit <=> s[k + 1] \in Digit,
         t[k] = s[k + 1], t[k + 1] = s[k],
         \A j \in 1 .. Len(s) : j # k /\ j # k + 1 => t[j] = s[j]
  PROVE  Trace(s)[Len(s)] # Trace(t)[Len(s)]
<1> DEFINE n == Len(s)
           p == Place(s, k)
           q == Place(s, k + 1)
           u == Trace(s)
           v == Trace(t)
<1>1. s \in Seq(Char) /\ t \in Seq(Char) /\ n \in 5 .. 34 /\ k \in 1 .. n /\ k + 1 \in 1 .. n
      /\ k \in 1 .. n - 1
  <2>1. s \in Seq(Char) /\ t \in Seq(Char) /\ n \in 5 .. 34
    BY PlainIsChar
  <2>2. k \in 1 .. n - 1
    OBVIOUS
  <2> HIDE DEF n
  <2> QED
    BY <2>1, <2>2
<1>2. /\ p \in 1 .. n /\ Rearranged(s, p) = s[k] /\ Rearranged(t, p) = s[k + 1]
      /\ q \in 1 .. n /\ Rearranged(s, q) = s[k + 1] /\ Rearranged(t, q) = s[k]
  BY <1>1, PlaceIsInverse
<1>3. ASSUME NEW j \in 1 .. n, j # p, j # q PROVE Rearranged(t, j) = Rearranged(s, j)
  <2>1. PICK o \in 1 .. n : o # k /\ Place(s, o) = j
    BY <1>1, <1>3, PlaceIsInverse
  <2>2. Rearranged(s, j) = s[o] /\ Rearranged(t, j) = t[o]
    BY <1>1, <2>1, PlaceIsInverse
  <2> QED
    BY <1>3, <2>1, <2>2
<1>4. Folding(s, u) /\ Folding(t, v)
  BY <1>1, TraceExists
<1>5. s[k] \in Char \ {Other} /\ s[k + 1] \in Char \ {Other}
  BY <1>1, PlainIsChar
<1>6. p = (IF k > 4 THEN k - 4 ELSE k + n - 4) /\ q = IF k + 1 > 4 THEN k + 1 - 4 ELSE k + 1 + n - 4
  BY DEF Place
<1> HIDE DEF n, u, v, p, q
<1>7. CASE k = 4
  <2>1. p = n /\ q = 1
    BY <1>1, <1>6, <1>7
  <2>2. s[k] \in Digit
    BY <1>7 DEF Shape
  <2>3. \A j \in 2 .. n - 1 : Rearranged(t, j) = Rearranged(s, j)
    BY <1>1, <1>3, <2>1
  <2> QED
    <3>1. Mirrored(s, t, s[k + 1], s[k])
      BY <1>2, <2>1, <2>3 DEF Mirrored, n
    <3>2. s[k + 1] \in Digit
      BY <2>2
    <3> QED
      BY <1>1, <2>2, <3>1, <3>2, EndsShow
<1>8. CASE k # 4
  <2>1. q = p + 1
    BY <1>1, <1>6, <1>8
  <2> DEFINE x == u[p - 1]
  <2>2. /\ u[p] = Fold(u[p - 1], s[k]) /\ u[q] = Fold(u[p], s[k + 1])
        /\ v[p] = Fold(v[p - 1], s[k + 1]) /\ v[q] = Fold(v[p], s[k])
        /\ u[p - 1] \in 0 .. 96
    <3>1. q - 1 = p /\ p - 1 \in 0 .. n
      BY <1>1, <1>2, <2>1
    <3> QED
      BY <1>2, <1>4, <3>1 DEF Folding, n
  <2>3. u[p - 1] = v[p - 1]
    <3>1. p - 1 \in 0 .. n /\ \A j \in 1 .. p - 1 : Rearranged(t, j) = Rearranged(s, j)
      BY <1>1, <1>2, <1>3, <2>1
    <3> QED
      BY <1>1, <3>1, SameBefore DEF n, u, v
  <2> HIDE DEF x
  <2>4. u[q] # v[q]
    BY <1>5, <2>2, <2>3, SwapShows
  <2>5. n \in q .. n /\ \A j \in q + 1 .. n : Rearranged(t, j) = Rearranged(s, j)
    BY <1>1, <1>2, <1>3, <2>1
  <2> QED
    BY <1>1, <1>2, <2>4, <2>5, DifferToTheEnd DEF n, u, v
<1> QED
  BY <1>7, <1>8

\* A sequence with the classes of an IBAN has its shape.
LEMMA ClassesShape ==
  ASSUME NEW s, Plain(s), Shape(s), NEW t, Plain(t), Len(t) = Len(s),
         \A k \in 1 .. Len(s) : t[k] \in Digit <=> s[k] \in Digit
  PROVE  Shape(t)
<1>1. Len(s) \in 5 .. 34
  BY DEF Shape
<1>2. 1 \in 1 .. Len(s) /\ 2 \in 1 .. Len(s) /\ 3 \in 1 .. Len(s) /\ 4 \in 1 .. Len(s)
  BY <1>1
<1>3. \A k \in 1 .. Len(s) : t[k] \in Char \ {Other}
  BY DEF Plain
<1>4. t[1] \in Letter /\ t[2] \in Letter
  <2>2. s[1] \notin Digit /\ s[2] \notin Digit
    <3>1. s[1] \in Letter /\ s[2] \in Letter
      BY DEF Shape
    <3>2. \A c \in Letter : c \notin Digit
      BY DEF Letter, Digit
    <3> QED
      BY <3>1, <3>2
  <2>1. t[1] \notin Digit /\ t[2] \notin Digit
    BY <1>2, <2>2
  <2> QED
    BY <1>2, <1>3, <2>1 DEF Letter, Digit, Char, Other
<1>5. t[3] \in Digit /\ t[4] \in Digit
  BY <1>2 DEF Shape
<1> QED
  BY <1>1, <1>4, <1>5 DEF Shape

\* What is next to a sequence that leaves 1 leaves something else.
LEMMA SlipFound ==
  ASSUME NEW s, Plain(s), Shape(s), RemainderOf(s) = 1,
         NEW t \in Substitutions(s) \cup Swaps(s), t # s, SameClasses(t, s)
  PROVE  RemainderOf(t) # 1
<1> DEFINE n == Len(s)
<1>1. s \in Seq(Char) /\ n \in 5 .. 34 /\ \A k \in 1 .. n : s[k] \in Char \ {Other}
  BY PlainIsChar
<1>4. s \in [1 .. n -> Char \ {Other}]
  BY DEF Plain
<1>2. CASE t \in Substitutions(s)
  <2>1. PICK k \in 1 .. n, c \in Digit \cup Letter : t = [s EXCEPT ![k] = c]
    BY <1>1, <1>2 DEF Substitutions
  <2>2. c \in Char \ {Other}
    BY DEF Digit, Letter, Char, Other
  <2>3. /\ DOMAIN t = 1 .. n /\ t[k] = c /\ \A j \in 1 .. n : j # k => t[j] = s[j]
        /\ t \in [1 .. n -> Char \ {Other}]
    BY <1>4, <2>1, <2>2
  <2>4. t \in Seq(Char \ {Other}) /\ Len(t) = n
    BY <1>1, <2>3
  <2>5. \A j \in 1 .. n : t[j] \in Digit <=> s[j] \in Digit
    BY <2>3 DEF SameClasses
  <2>6. Plain(t) /\ Shape(t)
    BY <1>1, <2>4, <2>5, ClassesShape DEF Plain
  <2>7. t[k] # s[k]
    BY <1>1, <2>3
  <2>8. Trace(s)[n] # Trace(t)[n]
    BY <2>3, <2>4, <2>5, <2>6, <2>7, SubstitutionFound
  <2> QED
    BY <1>1, <2>4, <2>6, <2>8, PlainIsChar, TraceExists
<1>3. CASE t \in Swaps(s)
  <2>1. PICK k \in 1 .. n - 1 : t = [s EXCEPT ![k] = s[k + 1], ![k + 1] = s[k]]
    BY <1>3 DEF Swaps
  <2>2. k \in 1 .. n /\ k + 1 \in 1 .. n /\ k + 1 # k
    BY <1>1
  <2>3. /\ DOMAIN t = 1 .. n /\ t[k] = s[k + 1] /\ t[k + 1] = s[k]
        /\ \A j \in 1 .. n : j # k /\ j # k + 1 => t[j] = s[j]
        /\ t \in [1 .. n -> Char \ {Other}]
    <3> DEFINE l == k + 1
               a == s[k]
               b == s[l]
               w == [s EXCEPT ![k] = b]
    <3>1. k \in 1 .. n /\ l \in 1 .. n /\ l # k /\ t = [w EXCEPT ![l] = a]
      BY <2>1, <2>2
    <3> HIDE DEF l
    <3>2. a \in Char \ {Other} /\ b \in Char \ {Other}
      BY <1>1, <3>1
    <3> HIDE DEF a, b
    <3>3. /\ w \in [1 .. n -> Char \ {Other}] /\ w[k] = b
          /\ \A j \in 1 .. n : j # k => w[j] = s[j]
      BY <1>4, <3>1, <3>2
    <3> HIDE DEF w
    <3>4. /\ t \in [1 .. n -> Char \ {Other}] /\ t[l] = a
          /\ \A j \in 1 .. n : j # l => t[j] = w[j]
      BY <3>1, <3>2, <3>3
    <3>5. t[k] = b /\ t[l] = a /\ \A j \in 1 .. n : j # k /\ j # l => t[j] = s[j]
      BY <3>1, <3>3, <3>4
    <3>6. DOMAIN t = 1 .. n
      BY <3>4
    <3> QED
      BY Zenon, <3>4, <3>5, <3>6 DEF a, b, l
  <2>4. t \in Seq(Char \ {Other}) /\ Len(t) = n
    BY <1>1, <2>3
  <2>5. \A j \in 1 .. n : t[j] \in Digit <=> s[j] \in Digit
    BY <2>3 DEF SameClasses
  <2>6. Plain(t) /\ Shape(t)
    BY <1>1, <2>4, <2>5, ClassesShape DEF Plain
  <2>7. s[k] # s[k + 1]
    BY <1>1, <2>2, <2>3
  <2>8. s[k] \in Digit <=> s[k + 1] \in Digit
    BY <2>2, <2>3, <2>5
  <2>9. Trace(s)[n] # Trace(t)[n]
    BY <2>3, <2>4, <2>6, <2>7, <2>8, SwapFound
  <2> QED
    BY <1>1, <2>4, <2>6, <2>9, PlainIsChar, TraceExists
<1> QED
  BY <1>2, <1>3

\* What the loop has left is what the sequence's trace says, and no character
\* so far has ended it.
Traced ==
  /\ Folded
  /\ Shape(iban) => remainder = Trace(iban)[i]
  /\ \A k \in 1 .. i : Rearranged(iban, k) # Other

\* A turn keeps that.
LEMMA TracedTurn == Traced /\ FoldCharacter => Traced'
<1> SUFFICES ASSUME Traced, FoldCharacter PROVE Traced'
  OBVIOUS
<1> DEFINE c == Rearranged(iban, i + 1)
<1>1. Folded /\ Folded' /\ iban' = iban
  BY FoldedTurn DEF Traced, FoldCharacter
<1>2. iban \in Seq(Char) /\ Shape(iban) /\ i + 1 \in 1 .. Len(iban) /\ i \in Nat
  BY DEF Traced, Folded, TypeOK, FoldCharacter
<1>3. remainder = Trace(iban)[i] /\ \A k \in 1 .. i : Rearranged(iban, k) # Other
  BY <1>2 DEF Traced
<1>4. CASE c = Other
  BY <1>1, <1>2, <1>3, <1>4 DEF FoldCharacter, Traced
<1>5. CASE c # Other
  <2>1. i' = i + 1 /\ remainder' = Fold(remainder, c)
    BY <1>5 DEF FoldCharacter
  <2>2. Folding(iban, Trace(iban))
    BY <1>2, TraceExists
  <2> DEFINE l == i + 1
  <2>3. l \in 1 .. Len(iban) /\ l - 1 = i
    BY <1>2
  <2> HIDE DEF l
  <2>4. Trace(iban)[l] = Fold(Trace(iban)[l - 1], Rearranged(iban, l))
    BY <2>2, <2>3 DEF Folding
  <2>5. remainder' = Trace(iban)[l]
    BY <1>3, <2>1, <2>3, <2>4 DEF l
  <2>6. \A k \in 1 .. l : k \in 1 .. i \/ k = l
    BY <1>2, <2>3
  <2>7. \A k \in 1 .. l : Rearranged(iban, k) # Other
    BY <1>3, <1>5, <2>6 DEF l
  <2> QED
    BY <1>1, <2>1, <2>5, <2>7 DEF Traced, l
<1> QED
  BY <1>4, <1>5

\* So does every step; it holds before anything is folded.
LEMMA TracedAlways == Spec => []Traced
<1>1. Init => Traced
  <2> SUFFICES ASSUME Init PROVE Traced
    OBVIOUS
  <2>1. Folded /\ i = 0 /\ remainder = 0 /\ iban \in Seq(Char)
    BY FoldedInit DEF Init, Folded, TypeOK
  <2>2. Shape(iban) => Trace(iban)[0] = 0
    BY <2>1, TraceExists DEF Folding
  <2> QED
    BY <2>1, <2>2 DEF Traced
<1>2. Traced /\ [Next]_vars => Traced'
  <2> SUFFICES ASSUME Traced, [Next]_vars PROVE Traced'
    OBVIOUS
  <2>1. Folded'
    BY FoldedStep DEF Traced
  <2>2. CASE FoldCharacter
    BY <2>2, TracedTurn
  <2>3. CASE UNCHANGED <<iban, i, remainder>>
    BY <2>1, <2>3 DEF Traced
  <2> QED
    BY <2>2, <2>3 DEF Next, vars, RejectShape, Return
<1> QED
  BY <1>1, <1>2, PTL DEF Spec

(***************************************************************************)
(* What iban_mod97_ok is there for (validate.rs 320-332), for every        *)
(* sequence and not only short ones: beside one that it accepts, it does   *)
(* not accept one with a digit taken for another digit, a letter for       *)
(* another letter, or two neighbouring digits or letters swapped, those at *)
(* the seam of the rearranged number included.                             *)
(***************************************************************************)
THEOREM SlipsAreAlwaysFound == Spec => []SlipsAreFound
<1>1. Traced => SlipsAreFound
  <2> SUFFICES ASSUME Traced, verdict = "good",
                      NEW s \in Substitutions(iban) \cup Swaps(iban),
                      s # iban, SameClasses(s, iban)
               PROVE  RemainderOf(s) # 1
    BY DEF SlipsAreFound
  <2>1. iban \in Seq(Char) /\ Shape(iban) /\ i = Len(iban) /\ remainder = 1
    BY DEF Traced, Folded, TypeOK
  <2>2. RemainderOf(iban) = 1
    BY <2>1, TraceExists DEF Traced
  <2>3. \A k \in 1 .. Len(iban) : iban[k] # Other
    BY <2>1, PlaceIsInverse DEF Traced
  <2>4. Plain(iban)
    BY <2>1, <2>3 DEF Plain
  <2> QED
    BY <2>1, <2>2, <2>4, SlipFound
<1> QED
  BY <1>1, TracedAlways, PTL
-----------------------------------------------------------------------------
\* The inductive invariant: the text is one of bytes, and what was read of it
\* is what its parser returns.
ReadInv ==
  /\ field # Unread => /\ field \in Fields
                       /\ IF field.kind = "party" THEN value \in Seq(Text) \ {<<>>}
                          ELSE value \in Seq(Byte)
                       /\ stage # "arrived" => read = Parse(field.kind, value)
  /\ field = Unread => read = Unread /\ stage # "arrived"

\* Without bytes that continue a character every position is a boundary.
LEMMA AllBoundaries ==
  ASSUME NEW v \in Seq(Byte), Cont \notin ToSet(v), NEW p \in 0 .. Len(v)
  PROVE  Boundary(v, p)
BY DEF ToSet, Boundary

\* parse_13d never slices within a character then.
LEMMA Parse13dReturns ==
  ASSUME NEW v \in Seq(Byte), Cont \notin ToSet(v)
  PROVE  Parse13d(v) # Panic
<1> DEFINE bad == {k \in 1 .. 6 : ~Sliceable(v, Parts13d[k][1], Parts13d[k][2])}
<1>1. CASE ~LongEnough13d(v)
  BY <1>1 DEF Parse13d, Panic, None
<1>2. CASE LongEnough13d(v)
  <2>1. Len(v) \in Nat /\ Len(v) >= 15
    BY <1>2 DEF LongEnough13d
  <2>2. ASSUME NEW k \in 1 .. 6
        PROVE  /\ Parts13d[k][1] \in 0 .. 15 /\ Parts13d[k][2] \in 0 .. 15
               /\ Parts13d[k][1] <= Parts13d[k][2]
    BY DEF Parts13d
  <2>3. \A p \in 0 .. 15 : Boundary(v, p)
    BY <2>1, AllBoundaries
  <2>4. bad = {}
    BY <2>2, <2>3 DEF Sliceable
  <2>5. ASSUME NEW d, NEW h, NEW m, NEW o PROVE Moment(d, h, m, o) # Panic
    <3>1. None # Panic /\ [date |-> d, minutes |-> 60 * h + m - o] # Panic
      BY DEF Panic, None
    <3> QED
      BY <3>1, SMT DEF Moment
  <2> HIDE DEF bad
  <2> QED
    BY <1>2, <2>4, <2>5 DEF Parse13d, Panic, None, bad
<1> QED
  BY <1>1, <1>2

\* Nor does the slice of the transaction type.
LEMMA SplitTypeReturns ==
  ASSUME NEW v \in Seq(Byte), Cont \notin ToSet(v)
  PROVE  SplitType(v) # Panic
<1>1. CASE Len(v) >= 4 /\ v[1] \in TypeLetters
  <2>1. Sliceable(v, 0, 4)
    BY <1>1, AllBoundaries DEF Sliceable
  <2>2. [type |-> Get(v, 0, 4), refs |-> GetFrom(v, 4)] # Panic
    BY DEF Panic
  <2> QED
    BY <1>1, <2>1, <2>2, Zenon DEF SplitType
<1>2. CASE ~(Len(v) >= 4 /\ v[1] \in TypeLetters)
  BY <1>2 DEF SplitType, Panic
<1> QED
  BY <1>1, <1>2

\* No parser panics then; the others slice where they may.
LEMMA ParseReturns ==
  ASSUME NEW kind \in {"60F", "32A", "33B", "34F", "90D", "13D", "28C", "61", "72"},
         NEW v \in Seq(Byte), Cont \notin ToSet(v)
  PROVE  Parse(kind, v) # Panic
<1>1. CASE kind = "60F"
  BY <1>1 DEF Parse, ParseBalance, Panic
<1>2. CASE kind = "32A"
  BY <1>2 DEF Parse, Parse32a, Panic
<1>3. CASE kind = "33B"
  BY <1>3 DEF Parse, ParseCcyAmount, Panic
<1>4. CASE kind = "34F"
  BY <1>4 DEF Parse, Parse34f, Panic
<1>5. CASE kind = "90D"
  BY <1>5 DEF Parse, Parse90, Panic
<1>6. CASE kind = "13D"
  BY <1>6, Parse13dReturns DEF Parse
<1>7. CASE kind = "28C"
  BY <1>7 DEF Parse, Split28c, Panic
<1>8. CASE kind = "61"
  BY <1>8, SplitTypeReturns DEF Parse
<1>9. CASE kind = "72"
  BY <1>9 DEF Parse, Panic
<1> QED
  BY <1>1, <1>2, <1>3, <1>4, <1>5, <1>6, <1>7, <1>8, <1>9

\* What a transfer makes of a text is a text.
LEMMA TransferKeepsBytes ==
  ASSUME NEW v \in Seq(Byte), NEW w \in CutOff(v) \cup Damaged(v)
  PROVE  w \in Seq(Byte)
<1>1. ASSUME w \in CutOff(v) PROVE w \in Seq(Byte)
  BY <1>1 DEF CutOff
<1>2. ASSUME w \in Damaged(v) PROVE w \in Seq(Byte)
  <2>1. PICK p \in DOMAIN v, c \in {<<Wide, Cont>>, <<Wide, Cont, Cont>>} :
          w = SubSeq(v, 1, p - 1) \o c \o SubSeq(v, p + 1, Len(v))
    BY <1>2 DEF Damaged
  <2>2. c \in Seq(Byte)
    <3>1. Wide \in Byte /\ Cont \in Byte
      BY DEF Wide, Cont, Byte
    <3>2. <<Wide, Cont>> \in Seq(Byte) /\ <<Wide, Cont, Cont>> \in Seq(Byte)
      BY <3>1
    <3> QED
      BY <3>2
  <2>3. p \in 1 .. Len(v)
    OBVIOUS
  <2>4. SubSeq(v, 1, p - 1) \in Seq(Byte) /\ SubSeq(v, p + 1, Len(v)) \in Seq(Byte)
    BY <2>3
  <2> QED
    BY <2>1, <2>2, <2>4
<1> QED
  BY <1>1, <1>2

\* The invariant holds when a field arrives.
LEMMA ReadInit == FieldInit => ReadInv
<1> SUFFICES ASSUME FieldInit PROVE ReadInv
  OBVIOUS
<1>1. CASE stage = "check" /\ field = Unread /\ read = Unread
  BY <1>1 DEF ReadInv
<1>2. CASE field \in Fields /\ stage = "arrived" /\ read = Unread
  <2>1. IF field.kind = "party" THEN value \in Seq(Text) \ {<<>>} ELSE value \in Seq(Byte)
    <3>0. CASE field.kind = "party"
      <4>1. value = field.means
        BY <1>2, <3>0 DEF FieldInit, Encode
      <4> QED
        BY <1>2, <3>0, <4>1, EncodeAssumption
    <3>1. CASE field.kind = "72"
      BY <1>2, <3>1, EncodeAssumption DEF FieldInit
    <3>2. CASE field.kind \notin {"party", "72"}
      <4> DEFINE v == Encode(field.kind, field.means)
      <4>1. v \in Seq(Byte)
        BY <1>2, <3>2, EncodeAssumption
      <4>2. value \in CutOff(v) \cup Damaged(v)
        BY <1>2, <3>2 DEF FieldInit
      <4> QED
        BY <3>2, <4>1, <4>2, TransferKeepsBytes
    <3> QED
      BY <3>0, <3>1, <3>2
  <2> QED
    BY <1>2, <2>1, EncodeAssumption DEF ReadInv
<1> QED
  BY <1>1, <1>2 DEF FieldInit

\* Every step keeps it.
LEMMA ReadStep == ReadInv /\ [FieldNext]_all => ReadInv'
<1> SUFFICES ASSUME ReadInv, [FieldNext]_all PROVE ReadInv'
  OBVIOUS
<1>1. CASE ReadField
  BY <1>1 DEF ReadField, ReadInv
<1>2. CASE CheckIban
  <2>1. stage # "arrived" /\ stage' # "arrived"
    BY <1>2 DEF CheckIban
  <2>2. field' = field /\ value' = value /\ read' = read
    BY <1>2 DEF CheckIban
  <2> QED
    BY <2>1, <2>2, Zenon DEF ReadInv
<1>3. CASE UNCHANGED all
  BY <1>3 DEF all, ReadInv
<1> QED
  BY <1>1, <1>2, <1>3 DEF FieldNext

(***************************************************************************)
(* A text of one-byte characters is never sliced out of range (lib.rs 6),  *)
(* for any fields.                                                         *)
(***************************************************************************)
THEOREM OneByteTextsNeverPanic == FieldSpec => []AsciiNeverPanics
<1>1. ReadInv => AsciiNeverPanics
  BY ParseReturns, FieldAssumption DEF ReadInv, AsciiNeverPanics, WasRead
<1> QED
  BY <1>1, ReadInit, ReadStep, PTL DEF FieldSpec
-----------------------------------------------------------------------------
\* lo and hi enclose all of a text but the blanks at its ends.
Encloses(v, lo, hi) ==
  /\ lo \in 1 .. Len(v) /\ hi \in lo .. Len(v) /\ v[lo] # Blank /\ v[hi] # Blank
  /\ \A p \in 1 .. Len(v) : p < lo \/ p > hi => v[p] = Blank

\* Trim takes what they enclose, and nothing when all of the text is blank.
LEMMA TrimIs ==
  ASSUME NEW v \in Seq(Byte), NEW lo, NEW hi, Encloses(v, lo, hi)
  PROVE  Trim(v) = SubSeq(v, lo, hi)
<1> DEFINE I == {p \in DOMAIN v : v[p] # Blank}
<1>0. Len(v) \in Nat
  OBVIOUS
<1>1. I \in SUBSET (0 .. Len(v)) /\ lo \in I /\ hi \in I /\ \A p \in I : lo <= p /\ p <= hi
  BY DEF Encloses
<1>2. Trim(v) = IF I = {} THEN <<>> ELSE SubSeq(v, Min(I), Max(I))
  BY DEF Trim
<1> HIDE DEF I
<1>3. Min(I) \in I /\ Min(I) <= lo
  BY <1>0, <1>1, LeastOf
<1>4. Max(I) \in I /\ hi <= Max(I)
  BY <1>0, <1>1, GreatestOf
<1>5. Min(I) = lo /\ Max(I) = hi
  <2>0. I \subseteq Int
    BY <1>0, <1>1
  <2>1. Min(I) \in Int /\ Max(I) \in Int /\ lo \in Int /\ hi \in Int
    BY <1>1, <1>3, <1>4, <2>0
  <2>2. lo <= Min(I) /\ Max(I) <= hi
    BY <1>1, <1>3, <1>4
  <2> QED
    BY <1>3, <1>4, <2>1, <2>2
<1> QED
  BY <1>1, <1>2, <1>5

\* Nothing is left of blanks.
LEMMA TrimBlank ==
  ASSUME NEW v \in Seq(Byte), \A p \in 1 .. Len(v) : v[p] = Blank
  PROVE  Trim(v) = <<>>
BY DEF Trim

\* A text is blanks, or has first and last characters that are none.
LEMMA TrimShape ==
  ASSUME NEW v \in Seq(Byte)
  PROVE  \/ \A p \in 1 .. Len(v) : v[p] = Blank
         \/ \E lo, hi : Encloses(v, lo, hi)
<1> DEFINE I == {p \in DOMAIN v : v[p] # Blank}
<1>1. SUFFICES ASSUME I # {} PROVE \E lo, hi : Encloses(v, lo, hi)
  OBVIOUS
<1>2. I \in SUBSET (0 .. Len(v)) /\ Len(v) \in Nat
  OBVIOUS
<1> HIDE DEF I
<1>3. Min(I) \in I /\ \A p \in I : Min(I) <= p
  BY <1>1, <1>2, LeastOf
<1>4. Max(I) \in I /\ \A p \in I : p <= Max(I)
  BY <1>1, <1>2, GreatestOf
<1> DEFINE lo == Min(I) hi == Max(I)
<1> HIDE DEF lo, hi
<1>5. Encloses(v, lo, hi)
  <2>1. lo \in I /\ hi \in I /\ \A p \in I : lo <= p /\ p <= hi
    BY <1>3, <1>4 DEF lo, hi
  <2>2. lo \in 1 .. Len(v) /\ hi \in 1 .. Len(v) /\ lo <= hi /\ v[lo] # Blank /\ v[hi] # Blank
    BY <2>1 DEF I
  <2>3. ASSUME NEW p \in 1 .. Len(v), p < lo \/ p > hi PROVE v[p] = Blank
    BY <2>1, <2>2, <2>3 DEF I
  <2> QED
    BY <2>2, <2>3 DEF Encloses
<1> QED
  BY <1>5

\* What ParseParty makes of lines that are texts.
LEMMA PartyShape ==
  ASSUME NEW lines \in Seq(Text) \ {<<>>}
  PROVE  LET first == IF lines[1] # <<>> /\ lines[1][1] = Slash THEN 2 ELSE 1
             party == ParseParty(lines)
             name(p) == party.name[p] = Sanitize(lines[first + p - 1])
             later(p) == party.name[p] = Sanitize(lines[first + p])
         IN \/ /\ party.bic = <<>> /\ Len(party.name) = Len(lines) - first + 1
               /\ \A p \in DOMAIN party.name : name(p)
            \/ \E b \in first .. Len(lines) :
                 /\ party.bic = Trim(lines[b]) /\ IsBic(party.bic)
                 /\ Len(party.name) = Len(lines) - first
                 /\ \A p \in DOMAIN party.name :
                      IF first + p - 1 < b THEN name(p) ELSE later(p)
<1> DEFINE first == IF lines[1] # <<>> /\ lines[1][1] = Slash THEN 2 ELSE 1
           rest == IF Head(lines) # <<>> /\ Head(lines)[1] = Slash THEN Tail(lines) ELSE lines
           I == {p \in 1 .. Len(rest) : IsBic(Trim(rest[p]))}
           b == IF I # {} THEN Min(I) ELSE 0
           names == NameLines(rest, b)
           party == ParseParty(lines)
<1>1. /\ first \in 1 .. 2 /\ rest \in Seq(Text) /\ Len(rest) = Len(lines) - first + 1
      /\ Len(lines) \in Nat /\ \A p \in 1 .. Len(rest) : rest[p] = lines[first + p - 1]
  <2>1. Head(lines) = lines[1]
    OBVIOUS
  <2>2. CASE lines[1] # <<>> /\ lines[1][1] = Slash
    <3>1. first = 2 /\ rest = Tail(lines)
      BY <2>1, <2>2
    <3>2. /\ Tail(lines) \in Seq(Text) /\ Len(Tail(lines)) = Len(lines) - 1 /\ Len(lines) \in Nat
          /\ \A p \in 1 .. Len(lines) - 1 : Tail(lines)[p] = lines[p + 1]
      OBVIOUS
    <3> HIDE DEF first, rest
    <3> QED
      BY <3>1, <3>2
  <2>3. CASE ~(lines[1] # <<>> /\ lines[1][1] = Slash)
    <3>1. first = 1 /\ rest = lines
      BY <2>1, <2>3
    <3> HIDE DEF first, rest
    <3> QED
      BY <3>1
  <2> QED
    BY <2>2, <2>3
<1>2. /\ party.bic = IF b = 0 THEN <<>> ELSE Trim(rest[b])
      /\ party.name = [p \in DOMAIN names |-> Sanitize(names[p])]
  BY DEF ParseParty, SelectInSeq
<1> HIDE DEF first, rest, party
<1>3. CASE I = {}
  <2>1. b = 0 /\ names = rest
    BY <1>3 DEF NameLines
  <2> HIDE DEF b, names
  <2>2. /\ party.bic = <<>> /\ DOMAIN party.name = 1 .. Len(rest) /\ Len(party.name) = Len(rest)
        /\ \A p \in 1 .. Len(rest) : party.name[p] = Sanitize(rest[p])
    BY <1>1, <1>2, <2>1
  <2> QED
    BY <1>1, <2>2, ZenonT(60) DEF first, party
<1>4. CASE I # {}
  <2>1. I \in SUBSET (0 .. Len(rest)) /\ Len(rest) \in Nat
    BY <1>1
  <2>2. b \in I
    <3> HIDE DEF I
    <3> QED BY <1>4, <2>1, LeastOf
  <2>3. b \in 1 .. Len(rest) /\ IsBic(Trim(rest[b]))
    BY <2>2
  <2> HIDE DEF b, I
  <2>4. names = SubSeq(rest, 1, b - 1) \o SubSeq(rest, b + 1, Len(rest))
    <3>1. b # 0
      BY <2>3
    <3> QED
      BY <3>1 DEF NameLines
  <2> HIDE DEF names
  <2> DEFINE before == SubSeq(rest, 1, b - 1)
             after == SubSeq(rest, b + 1, Len(rest))
  <2>11. /\ before \in Seq(Text) /\ Len(before) = b - 1 /\ after \in Seq(Text)
         /\ Len(after) = Len(rest) - b
         /\ \A p \in 1 .. b - 1 : before[p] = rest[p]
         /\ \A p \in 1 .. Len(rest) - b : after[p] = rest[b + p]
    BY <1>1, <2>3
  <2>12. names = before \o after
    BY <2>4
  <2> HIDE DEF before, after
  <2>13. /\ names \in Seq(Text) /\ Len(names) = Len(before) + Len(after)
         /\ \A p \in 1 .. Len(before) : names[p] = before[p]
         /\ \A p \in Len(before) + 1 .. Len(before) + Len(after) :
              names[p] = after[p - Len(before)]
    <3> DEFINE whole == before \o after
    <3>1. /\ whole \in Seq(Text) /\ Len(whole) = Len(before) + Len(after)
          /\ \A p \in 1 .. Len(before) : whole[p] = before[p]
          /\ \A p \in Len(before) + 1 .. Len(before) + Len(after) :
               whole[p] = after[p - Len(before)]
      <4>1. before \in Seq(Text) /\ after \in Seq(Text)
        BY <2>11
      <4> QED
        BY ONLY <4>1, Concat, Zenon
    <3>2. names = whole
      BY <2>12
    <3> HIDE DEF whole
    <3> QED
      BY ONLY <3>1, <3>2, Zenon
  <2>5. /\ names \in Seq(Text) /\ Len(names) = Len(rest) - 1
        /\ \A p \in 1 .. Len(rest) - 1 : names[p] = IF p < b THEN rest[p] ELSE rest[p + 1]
    <3>1. ASSUME NEW p \in 1 .. Len(rest) - 1
          PROVE  names[p] = IF p < b THEN rest[p] ELSE rest[p + 1]
      <4>1. CASE p < b
        BY <1>1, <2>3, <2>11, <2>13, <4>1
      <4>2. CASE ~(p < b)
        <5>1. p \in Len(before) + 1 .. Len(before) + Len(after)
          BY <1>1, <2>3, <2>11, <4>2
        <5>2. p - Len(before) \in 1 .. Len(rest) - b /\ b + (p - Len(before)) = p + 1
          BY <1>1, <2>3, <2>11, <4>2
        <5> QED
          BY <2>11, <2>13, <4>2, <5>1, <5>2
      <4> QED
        BY <4>1, <4>2
    <3>2. Len(names) = Len(rest) - 1
      BY <1>1, <2>3, <2>11, <2>13
    <3> QED
      BY <2>13, <3>1, <3>2
  <2>6. /\ party.bic = Trim(rest[b]) /\ DOMAIN party.name = 1 .. Len(rest) - 1
        /\ Len(party.name) = Len(rest) - 1
        /\ \A p \in 1 .. Len(rest) - 1 :
             party.name[p] = Sanitize(IF p < b THEN rest[p] ELSE rest[p + 1])
    BY <1>2, <2>3, <2>5
  <2> DEFINE c == first + b - 1
  <2>7. c \in first .. Len(lines) /\ rest[b] = lines[c]
    BY <1>1, <2>3
  <2>8. \A p \in DOMAIN party.name :
          IF first + p - 1 < c THEN party.name[p] = Sanitize(lines[first + p - 1])
                               ELSE party.name[p] = Sanitize(lines[first + p])
    <3> SUFFICES ASSUME NEW p \in 1 .. Len(rest) - 1
                 PROVE  IF first + p - 1 < c
                        THEN party.name[p] = Sanitize(lines[first + p - 1])
                        ELSE party.name[p] = Sanitize(lines[first + p])
      BY <2>6
    <3>1. first + p - 1 < c <=> p < b
      BY <1>1, <2>3
    <3>2. rest[p] = lines[first + p - 1] /\ rest[p + 1] = lines[first + p]
      <4>1. first + (p + 1) - 1 = first + p /\ p + 1 \in 1 .. Len(rest) /\ p \in 1 .. Len(rest)
        BY <1>1
      <4> QED
        BY <1>1, <4>1
    <3>3. party.name[p] = Sanitize(IF p < b THEN rest[p] ELSE rest[p + 1])
      BY <2>6
    <3> QED
      BY <3>1, <3>2, <3>3
  <2>9. Len(party.name) = Len(lines) - first
    BY <1>1, <2>6
  <2> HIDE DEF c
  <2>10. party.bic = Trim(lines[c]) /\ IsBic(party.bic)
    BY <2>3, <2>6, <2>7
  <2> QED
    BY <2>7, <2>8, <2>9, <2>10 DEF first, party
<1> QED
  BY <1>3, <1>4

(***************************************************************************)
(* Every line of a party is in one column and in one only, for any lines.  *)
(***************************************************************************)
THEOREM PartyKeepsEveryLine == FieldSpec => []PartyLosesNothing
<1>1. ReadInv => PartyLosesNothing
  <2> SUFFICES ASSUME ReadInv, Is({"party"}) PROVE PartyLosesNothing
    BY DEF PartyLosesNothing
  <2>1. value \in Seq(Text) \ {<<>>} /\ read = ParseParty(value)
    BY DEF ReadInv, Is, WasRead, Parse
  <2> QED
    BY <2>1, PartyShape DEF PartyLosesNothing
<1> QED
  BY <1>1, ReadInit, ReadStep, PTL DEF FieldSpec
-----------------------------------------------------------------------------
\* The first p - 1 characters of a text are its leading slashes.
Leads(v, p) ==
  /\ p \in 1 .. Len(v) + 1
  /\ p <= Len(v) => v[p] # Slash
  /\ \A q \in 1 .. p - 1 : v[q] = Slash

\* What is left behind the slashes a text begins with.
LEMMA DropSlashesIs ==
  ASSUME NEW v \in Seq(Byte), NEW p, Leads(v, p)
  PROVE  DropSlashes(v) = SubSeq(v, p, Len(v))
<1> DEFINE I == {q \in 1 .. Len(v) : v[q] # Slash}
           first == IF (IF I # {} THEN Min(I) ELSE 0) = 0 THEN Len(v) + 1
                    ELSE (IF I # {} THEN Min(I) ELSE 0)
<1>1. DropSlashes(v) = SubSeq(v, first, Len(v))
  BY DEF DropSlashes, FirstAt, SelectInSeq
<1>2. Len(v) \in Nat /\ I \in SUBSET (0 .. Len(v)) /\ I \subseteq Int
  OBVIOUS
<1>3. CASE p = Len(v) + 1
  <2>1. I = {}
    BY <1>2, <1>3 DEF Leads
  <2> QED
    BY <1>1, <1>3, <2>1
<1>4. CASE p # Len(v) + 1
  <2>0. p \in 1 .. Len(v) /\ v[p] # Slash /\ \A q \in 1 .. p - 1 : v[q] = Slash
    BY <1>2, <1>4 DEF Leads
  <2>1. p \in I /\ \A q \in I : p <= q /\ q # 0
    <3>1. ASSUME NEW q \in I, ~(p <= q) PROVE FALSE
      <4>1. q \in 1 .. p - 1
        BY <1>2, <2>0, <3>1
      <4> QED
        BY <2>0, <4>1
    <3>2. p \in I /\ \A q \in I : q # 0
      BY <2>0
    <3> QED
      BY <3>1, <3>2
  <2> HIDE DEF I
  <2>2. Min(I) \in I /\ \A q \in I : Min(I) <= q
    BY <1>2, <2>1, LeastOf
  <2>3. Min(I) = p /\ p # 0
    <3>1. Min(I) \in Int /\ p \in Int /\ Min(I) <= p /\ p <= Min(I)
      BY <1>2, <2>1, <2>2
    <3> QED
      BY <2>1, <3>1
  <2> QED
    BY <1>1, <2>1, <2>3
<1> QED
  BY <1>3, <1>4

\* The slashes that a text begins with end somewhere.
LEMMA SlashesEnd == ASSUME NEW v \in Seq(Byte) PROVE \E p : Leads(v, p)
<1> DEFINE I == {q \in 1 .. Len(v) : v[q] # Slash}
<1>1. CASE I = {}
  <2>1. Leads(v, Len(v) + 1)
    BY <1>1 DEF Leads
  <2> QED
    BY <2>1
<1>2. CASE I # {}
  <2>1. Len(v) \in Nat /\ I \in SUBSET (0 .. Len(v))
    OBVIOUS
  <2> HIDE DEF I
  <2>2. PICK p \in I : \A q \in I : p <= q
    BY <1>2, <2>1, LeastOf
  <2>3. p \in 1 .. Len(v) /\ v[p] # Slash /\ \A q \in 1 .. p - 1 : v[q] = Slash
    <3>1. p \in 1 .. Len(v) /\ v[p] # Slash
      BY DEF I
    <3>2. ASSUME NEW q \in 1 .. p - 1, v[q] # Slash PROVE FALSE
      <4>1. q \in I /\ ~(p <= q)
        BY <3>1, <3>2 DEF I
      <4> QED
        BY <2>2, <4>1
    <3> QED
      BY <3>1, <3>2
  <2>4. Leads(v, p)
    BY <2>3 DEF Leads
  <2> QED
    BY <2>4
<1> QED
  BY <1>1, <1>2

\* a is what stands in v between the slashes or blanks before lo and the end.
IsAccount(v, a, lo, hi) ==
  /\ lo \in 2 .. Len(v) /\ hi \in lo .. Len(v) /\ v[lo - 1] \in {Slash, Blank}
  /\ a = SubSeq(v, lo, hi)

\* The reader and the validation cut the same account from a line that begins
\* with a slash, though one drops the slashes first and one the blanks.
LEMMA SameAccount ==
  ASSUME NEW v \in Seq(Byte), v # <<>>, v[1] = Slash
  PROVE  /\ Trim(v) # <<>> /\ Trim(v)[1] = Slash
         /\ Trim(DropSlashes(Trim(v))) = Trim(DropSlashes(v))
         /\ \/ Trim(DropSlashes(v)) = <<>>
            \/ \E lo, hi : IsAccount(v, Trim(DropSlashes(v)), lo, hi)
<1> DEFINE n == Len(v)
<1>1. n \in Nat /\ n >= 1 /\ Slash # Blank
  BY DEF Slash, Blank
<1>2. PICK p : Leads(v, p)
  BY SlashesEnd
<1>3. p \in 2 .. n + 1 /\ (p <= n => v[p] # Slash) /\ \A q \in 1 .. p - 1 : v[q] = Slash
  <2>1. p \in 1 .. n + 1 /\ (p <= n => v[p] # Slash) /\ \A q \in 1 .. p - 1 : v[q] = Slash
    BY <1>2 DEF Leads
  <2>2. p # 1
    BY <1>1, <2>1
  <2> QED
    BY <1>1, <2>1, <2>2
<1> DEFINE t == SubSeq(v, p, n)
<1>4. DropSlashes(v) = t
  BY <1>2, DropSlashesIs
<1>5. t \in Seq(Byte) /\ Len(t) = n - p + 1 /\ \A q \in 1 .. n - p + 1 : t[q] = v[p + q - 1]
  BY <1>1, <1>3
<1> HIDE DEF n, t
<1>6. CASE \A q \in 1 .. Len(t) : t[q] = Blank
  <2> DEFINE f == SubSeq(v, 1, p - 1)
  <2>1. Trim(t) = <<>>
    BY <1>5, <1>6, TrimBlank
  <2>2. ASSUME NEW q \in 1 .. n, q < 1 \/ q > p - 1 PROVE v[q] = Blank
    <3>1. q - p + 1 \in 1 .. n - p + 1 /\ p + (q - p + 1) - 1 = q
      BY <1>1, <1>3, <2>2
    <3> QED
      BY <1>5, <1>6, <3>1
  <2>3. Encloses(v, 1, p - 1)
    BY <1>1, <1>3, <2>2 DEF Encloses, n
  <2>4. Trim(v) = f
    BY <2>3, TrimIs
  <2>5. f \in Seq(Byte) /\ Len(f) = p - 1 /\ \A q \in 1 .. p - 1 : f[q] = v[q]
    BY <1>1, <1>3 DEF n
  <2> HIDE DEF f
  <2>6. Leads(f, p)
    BY <1>3, <2>5 DEF Leads
  <2>7. DropSlashes(f) = SubSeq(f, p, Len(f))
    BY <2>5, <2>6, DropSlashesIs
  <2>8. SubSeq(f, p, Len(f)) = <<>>
    BY <1>3, <2>5
  <2>9. Trim(<<>>) = <<>>
    <3>1. <<>> \in Seq(Byte) /\ \A q \in 1 .. Len(<<>>) : <<>>[q] = Blank
      OBVIOUS
    <3> QED
      BY <3>1, TrimBlank
  <2>10. f # <<>> /\ f[1] = Slash
    BY <1>1, <1>3, <2>5
  <2> QED
    BY <1>4, <2>1, <2>4, <2>7, <2>8, <2>9, <2>10
<1>7. CASE \E l, h : Encloses(t, l, h)
  <2>1. PICK l, h : Encloses(t, l, h)
    BY <1>7
  <2>2. /\ l \in 1 .. n - p + 1 /\ h \in l .. n - p + 1 /\ t[l] # Blank /\ t[h] # Blank
        /\ \A q \in 1 .. n - p + 1 : q < l \/ q > h => t[q] = Blank
    BY <1>5, <2>1 DEF Encloses
  <2> DEFINE lo == p + l - 1 hi == p + h - 1 f == SubSeq(v, 1, hi) u == SubSeq(v, p, hi)
  <2>3. lo \in p .. n /\ hi \in lo .. n
    BY <1>1, <1>3, <2>2
  <2>4. Trim(t) = SubSeq(v, lo, hi)
    <3>1. Trim(t) = SubSeq(t, l, h)
      BY <1>5, <2>1, TrimIs
    <3>2. /\ p \in 1 .. Len(v) + 1 /\ Len(v) \in p - 1 .. Len(v)
          /\ l \in 1 .. Len(v) - p + 2 /\ h \in l - 1 .. Len(v) - p + 1
      BY <1>1, <1>3, <2>2 DEF n
    <3>3. SubSeq(SubSeq(v, p, Len(v)), l, h) = SubSeq(v, p + l - 1, p + h - 1)
      BY <3>2, PartOfPart
    <3> QED
      BY <3>1, <3>3 DEF t, n
  <2>5. v[lo - 1] \in {Slash, Blank}
    <3>1. CASE l = 1
      BY <1>3, <3>1
    <3>2. CASE l # 1
      <4>1. l - 1 \in 1 .. n - p + 1 /\ l - 1 < l /\ p + (l - 1) - 1 = lo - 1
        BY <1>1, <1>3, <2>2, <3>2
      <4> QED
        BY <1>5, <2>2, <4>1
    <3> QED
      BY <3>1, <3>2
  <2>6. v[hi] # Blank
    BY <1>5, <2>2
  <2>7. ASSUME NEW q \in 1 .. n, q < 1 \/ q > hi PROVE v[q] = Blank
    <3>1. q - p + 1 \in 1 .. n - p + 1 /\ p + (q - p + 1) - 1 = q /\ q - p + 1 > h
      BY <1>1, <1>3, <2>2, <2>7
    <3> QED
      BY <1>5, <2>2, <3>1
  <2> HIDE DEF lo, hi
  <2>8. Encloses(v, 1, hi)
    BY <1>1, <1>3, <2>3, <2>6, <2>7 DEF Encloses, n
  <2>9. Trim(v) = f
    BY <2>8, TrimIs
  <2>10. f \in Seq(Byte) /\ Len(f) = hi /\ \A q \in 1 .. hi : f[q] = v[q]
    BY <1>1, <1>3, <2>3 DEF n
  <2>11. u \in Seq(Byte) /\ Len(u) = hi - p + 1 /\ \A q \in 1 .. hi - p + 1 : u[q] = v[p + q - 1]
    BY <1>1, <1>3, <2>3 DEF n
  <2>12. SubSeq(f, p, hi) = u
    <3>1. /\ 1 \in 1 .. Len(v) + 1 /\ hi \in 1 - 1 .. Len(v)
          /\ p \in 1 .. hi - 1 + 2 /\ hi \in p - 1 .. hi - 1 + 1
      BY <1>1, <1>3, <2>3 DEF n
    <3>2. SubSeq(SubSeq(v, 1, hi), p, hi) = SubSeq(v, 1 + p - 1, 1 + hi - 1)
      BY <3>1, PartOfPart
    <3>3. 1 + p - 1 = p /\ 1 + hi - 1 = hi
      BY <1>3, <2>3
    <3> QED
      BY <3>2, <3>3
  <2>13. Leads(f, p)
    <3>1. p \in 1 .. hi + 1 /\ (p <= hi => f[p] # Slash) /\ \A q \in 1 .. p - 1 : q \in 1 .. hi
      BY <1>1, <1>3, <2>3, <2>10
    <3> QED
      BY <1>3, <2>10, <3>1 DEF Leads
  <2>14. SubSeq(u, l, h) = SubSeq(v, lo, hi)
    <3>1. /\ p \in 1 .. Len(v) + 1 /\ hi \in p - 1 .. Len(v)
          /\ l \in 1 .. hi - p + 2 /\ h \in l - 1 .. hi - p + 1
      BY <1>1, <1>3, <2>2, <2>3 DEF n, hi
    <3>2. SubSeq(SubSeq(v, p, hi), l, h) = SubSeq(v, p + l - 1, p + h - 1)
      BY <3>1, PartOfPart
    <3> QED
      BY <3>2 DEF lo, hi
  <2> HIDE DEF f, u
  <2>15. DropSlashes(f) = u
    BY <2>10, <2>12, <2>13, DropSlashesIs
  <2>16. Encloses(u, l, h)
    <3>1. l \in 1 .. Len(u) /\ h \in l .. Len(u) /\ Len(u) <= n - p + 1 /\ Len(u) = h
      BY <1>3, <2>2, <2>3, <2>11 DEF hi
    <3>2. \A q \in 1 .. Len(u) : u[q] = t[q]
      BY <1>5, <2>11, <3>1
    <3>3. u[l] # Blank /\ u[h] # Blank
      BY <2>2, <3>1, <3>2
    <3>4. ASSUME NEW q \in 1 .. Len(u), q < l \/ q > h PROVE u[q] = Blank
      BY <1>1, <1>3, <2>2, <3>1, <3>2, <3>4
    <3> QED
      BY <3>1, <3>3, <3>4 DEF Encloses
  <2>17. Trim(u) = SubSeq(u, l, h)
    BY <2>11, <2>16, TrimIs
  <2>18. f # <<>> /\ f[1] = Slash
    BY <1>1, <1>3, <2>3, <2>10
  <2>19. IsAccount(v, Trim(t), lo, hi)
    BY <1>1, <1>3, <2>3, <2>4, <2>5 DEF IsAccount, n
  <2> QED
    BY <1>4, <2>4, <2>9, <2>14, <2>15, <2>17, <2>18, <2>19
<1> QED
  BY <1>5, <1>6, <1>7, TrimShape

\* What looks like an IBAN, character by character.
LEMMA IbanLikeIs ==
  ASSUME NEW v \in Seq(Int)
  PROVE  IbanLike(v) <=> /\ Len(v) >= 5 /\ v[1] \in Letter /\ v[2] \in Letter
                         /\ v[3] \in Digit /\ v[4] \in Digit
<1>1. CASE ~(Len(v) >= 5)
  BY <1>1 DEF IbanLike
<1>2. CASE Len(v) >= 5
  <2> DEFINE a == SubSeq(v, 1, 2) b == SubSeq(v, 3, 4)
  <2>1. /\ Len(a) = 2 /\ DOMAIN a = 1 .. 2 /\ a[1] = v[1] /\ a[2] = v[2]
        /\ Len(b) = 2 /\ DOMAIN b = 1 .. 2 /\ b[1] = v[3] /\ b[2] = v[4]
    BY <1>2
  <2> HIDE DEF a, b
  <2>2. AllIn(a, Letter) <=> v[1] \in Letter /\ v[2] \in Letter
    BY <2>1 DEF AllIn
  <2>3. AllIn(b, Digit) <=> v[3] \in Digit /\ v[4] \in Digit
    BY <2>1 DEF AllIn
  <2> QED
    BY <1>2, <2>2, <2>3 DEF IbanLike, a, b
<1> QED
  BY <1>1, <1>2

\* Nothing looks like an IBAN.
LEMMA NothingIsNoIban == ~IbanLike(<<>>)
<1>1. <<>> \in Seq(Int) /\ ~(Len(<<>>) >= 5)
  OBVIOUS
<1> QED
  BY <1>1, IbanLikeIs

\* A character of an IBAN is none of those that sanitizing changes or drops.
LEMMA PlainCharacters ==
  ASSUME NEW c \in Letter \cup Digit
  PROVE  c # Cont /\ c # Wide /\ c # Blank /\ c # Other
BY DEF Letter, Digit, Cont, Wide, Blank, Other

\* Bytes are numbers, and texts are bytes of which none begins with Cont.
LEMMA BytesAreNumbers ==
  ASSUME NEW v \in Seq(Byte)
  PROVE  v \in Seq(Int) /\ Len(v) \in Nat /\ \A p \in 1 .. Len(v) : v[p] \in Byte /\ v[p] \in Int
<1>1. Byte \subseteq Int
  BY DEF Byte
<1>2. \A p \in 1 .. Len(v) : v[p] \in Byte
  OBVIOUS
<1>3. v \in Seq(Int)
  BY <1>1, WiderSeq
<1> QED
  BY <1>1, <1>2, <1>3

\* Text, as a condition on each byte.
LEMMA TextIs ==
  ASSUME NEW v
  PROVE  v \in Text <=> /\ v \in Seq(Byte)
                       /\ \A p \in 1 .. Len(v) : v[p] = Cont =>
                            p > 1 /\ v[p - 1] \in {Wide, Cont}
<1>1. v \in Seq(Byte) => DOMAIN v = 1 .. Len(v)
  OBVIOUS
<1> QED
  BY <1>1, Zenon DEF Text

\* What Sanitize leaves of a text, position by position.
LEMMA SanitizeShape ==
  ASSUME NEW v \in Seq(Byte)
  PROVE  /\ Sanitize(v) \in Seq(Int)
         /\ \E c, at : /\ c \in Seq(Byte) /\ Len(Sanitize(v)) = Len(c)
                       /\ IsKept(v, {p \in DOMAIN v : v[p] # Cont}, c, at)
                       /\ \A p \in 1 .. Len(c) :
                            Sanitize(v)[p] = IF c[p] = Wide THEN Other ELSE c[p]
<1> DEFINE I == {p \in DOMAIN v : v[p] # Cont}
           c == Keep(v, I)
<1>1. I \in SUBSET (1 .. Len(v))
  OBVIOUS
<1>2. Sanitize(v) = [p \in DOMAIN c |-> IF c[p] = Wide THEN Other ELSE c[p]]
  BY DEF Sanitize
<1> HIDE DEF I
<1>3. c \in Seq(Byte) /\ \E at : IsKept(v, I, c, at)
  BY <1>1, KeepShape
<1> HIDE DEF c
<1>4. Other \in Int /\ \A p \in 1 .. Len(c) : c[p] \in Int
  BY <1>3, BytesAreNumbers DEF Other
<1>5. /\ Sanitize(v) \in Seq(Int) /\ Len(Sanitize(v)) = Len(c)
      /\ \A p \in 1 .. Len(c) : Sanitize(v)[p] = IF c[p] = Wide THEN Other ELSE c[p]
  <2>1. \A p \in 1 .. Len(c) : (IF c[p] = Wide THEN Other ELSE c[p]) \in Int
    BY <1>4
  <2>2. DOMAIN c = 1 .. Len(c) /\ Len(c) \in Nat
    BY <1>3
  <2>3. Sanitize(v) = [p \in 1 .. Len(c) |-> IF c[p] = Wide THEN Other ELSE c[p]]
    BY <1>2, <2>2
  <2> QED
    BY <2>1, <2>2, <2>3
<1> QED
  BY <1>3, <1>5 DEF I

\* A text that looks like an IBAN when it is sanitized does so before.
LEMMA SanitizedLooksAlike ==
  ASSUME NEW a \in Text, IbanLike(Sanitize(a))
  PROVE  IbanLike(a)
<1> DEFINE I == {p \in DOMAIN a : a[p] # Cont}
           s == Sanitize(a)
<1>1. a \in Seq(Byte) /\ a \in Seq(Int) /\ Len(a) \in Nat
  BY TextIs, BytesAreNumbers
<1>2. \A p \in 1 .. Len(a) : a[p] = Cont => p > 1 /\ a[p - 1] \in {Wide, Cont}
  BY TextIs
<1>3. s \in Seq(Int)
  BY <1>1, SanitizeShape
<1>4. PICK c, at : /\ c \in Seq(Byte) /\ Len(s) = Len(c) /\ IsKept(a, I, c, at)
                   /\ \A p \in 1 .. Len(c) : s[p] = IF c[p] = Wide THEN Other ELSE c[p]
  BY <1>1, SanitizeShape
<1>5. I \subseteq 1 .. Len(a) /\ \A p \in 1 .. Len(a) : p \in I <=> a[p] # Cont
  <2>1. DOMAIN a = 1 .. Len(a)
    BY <1>1
  <2> QED
    BY <2>1
<1> HIDE DEF I, s
<1>6. Len(s) >= 5 /\ s[1] \in Letter /\ s[2] \in Letter /\ s[3] \in Digit /\ s[4] \in Digit
  BY <1>3, IbanLikeIs DEF s
<1> DEFINE l == Len(c) n == Len(a)
<1>7. l \in Nat /\ l >= 5
  BY <1>4, <1>6
<1>8. /\ at \in [1 .. l -> I] /\ (\A j \in 1 .. l : c[j] = a[at[j]])
      /\ (\A j, k \in 1 .. l : j < k => at[j] < at[k])
      /\ \A p \in I : \E j \in 1 .. l : at[j] = p
  BY <1>4 DEF IsKept
<1>9. \A j \in 1 .. 4 : /\ s[j] = c[j] /\ s[j] \in Letter \cup Digit
                        /\ c[j] = a[at[j]] /\ at[j] \in 1 .. n
  <2> SUFFICES ASSUME NEW j \in 1 .. 4
               PROVE  /\ s[j] = c[j] /\ s[j] \in Letter \cup Digit
                      /\ c[j] = a[at[j]] /\ at[j] \in 1 .. n
    OBVIOUS
  <2>1. s[j] \in Letter \cup Digit /\ j \in 1 .. l
    BY <1>6, <1>7
  <2>2. s[j] # Other
    BY <2>1, PlainCharacters
  <2> QED
    BY <1>4, <1>5, <1>8, <2>1, <2>2
<1> HIDE DEF l, n
<1>10. \A p \in 1 .. n : a[p] \in Letter \cup Digit /\ p + 1 \in 1 .. n
          => a[p + 1] # Cont
  <2> SUFFICES ASSUME NEW p \in 1 .. n, a[p] \in Letter \cup Digit, p + 1 \in 1 .. n,
                      a[p + 1] = Cont
               PROVE  FALSE
    OBVIOUS
  <2>1. p + 1 - 1 = p
    OBVIOUS
  <2>2. a[p] \in {Wide, Cont}
    BY <1>2, <2>1 DEF n
  <2> QED
    BY <2>2, PlainCharacters
<1>11. n \in Nat /\ I \subseteq 1 .. n /\ n >= 1
  <2>1. 1 \in 1 .. l
    BY <1>7
  <2>2. at[1] \in I /\ I \subseteq 1 .. n /\ n \in Nat
    BY <1>1, <1>5, <1>8, <2>1 DEF n
  <2>3. at[1] \in 1 .. n
    BY <2>2
  <2> QED
    BY <2>2, <2>3
<1>12. at[1] = 1
  <2>1. a[1] # Cont
    BY <1>2, <1>11 DEF n
  <2>2. 1 \in I
    BY <1>5, <1>11, <2>1 DEF n
  <2>3. PICK j \in 1 .. l : at[j] = 1
    BY <1>8, <2>2
  <2>0. 1 \in 1 .. l
    BY <1>7
  <2>4. 1 \in 1 .. l /\ at[1] \in 1 .. n
    BY <1>8, <1>11, <2>0
  <2> QED
    BY <1>7, <1>8, <2>3, <2>4
<1>13. ASSUME NEW j \in 1 .. 3, at[j] = j PROVE at[j + 1] = j + 1
  <2>1. a[j] \in Letter \cup Digit /\ j \in 1 .. n
    BY <1>9, <1>13
  <2>0. j + 1 \in 1 .. l /\ j \in 1 .. l /\ j < j + 1
    BY <1>7
  <2>2. j + 1 \in 1 .. l /\ j \in 1 .. l /\ at[j + 1] \in 1 .. n /\ at[j + 1] > j
    <3>1. at[j] < at[j + 1] /\ at[j + 1] \in I
      BY <1>8, <2>0
    <3> QED
      BY <1>11, <1>13, <2>0, <3>1
  <2>3. j + 1 \in 1 .. n
    BY <1>11, <2>2
  <2>4. j + 1 \in I
    BY <1>5, <1>10, <2>1, <2>3 DEF n
  <2>5. PICK k \in 1 .. l : at[k] = j + 1
    BY <1>8, <2>4
  <2>6. k > j
    <3> SUFFICES ASSUME k <= j PROVE FALSE
      BY <1>7
    <3>1. k = j \/ k < j
      BY <1>7
    <3> QED
      BY <1>8, <1>13, <2>2, <2>5, <3>1
  <2>7. k = j + 1 \/ j + 1 < k
    BY <1>7, <2>6
  <2> QED
    BY <1>8, <2>2, <2>5, <2>7
<1>14. at[2] = 2 /\ at[3] = 3 /\ at[4] = 4
  BY <1>12, <1>13
<1>15. Len(a) >= 5
  <2>0. 4 \in 1 .. l /\ 5 \in 1 .. l /\ 4 < 5
    BY <1>7
  <2>1. at[4] < at[5] /\ at[5] \in 1 .. n
    BY <1>8, <1>11, <2>0
  <2> QED
    BY <1>11, <1>14, <2>1 DEF n
<1>16. a[1] = s[1] /\ a[2] = s[2] /\ a[3] = s[3] /\ a[4] = s[4]
  BY <1>9, <1>12, <1>14
<1> QED
  BY <1>1, <1>6, <1>15, <1>16, IbanLikeIs

\* The characters of an account that are folded, and that none of them is
\* Other only when sanitizing the account changes nothing.
LEMMA FoldedAccount ==
  ASSUME NEW a \in Seq(Byte)
  PROVE  /\ IbanOf(a) \in Seq(Char)
         /\ (\A p \in 1 .. Len(IbanOf(a)) : IbanOf(a)[p] # Other) => Sanitize(a) = a
<1> DEFINE I == {p \in DOMAIN a : a[p] # Blank}
           s == Keep(a, I)
           n == Len(a)
<1>1. I \in SUBSET (1 .. n) /\ n \in Nat /\ DOMAIN a = 1 .. n
  OBVIOUS
<1>2. IbanOf(a) = [p \in DOMAIN s |-> IF s[p] \in Digit \cup Letter THEN s[p] ELSE Other]
  BY DEF IbanOf
<1>3. \A p \in 1 .. n : a[p] # Blank => p \in I
  OBVIOUS
<1> HIDE DEF I
<1>4. s \in Seq(Byte) /\ \E at : IsKept(a, I, s, at)
  BY <1>1, KeepShape DEF n
<1> HIDE DEF s
<1>5. DOMAIN s = 1 .. Len(s) /\ Len(s) \in Nat
  BY <1>4
<1>6. /\ IbanOf(a) \in Seq(Char) /\ Len(IbanOf(a)) = Len(s)
      /\ \A p \in 1 .. Len(s) :
           IbanOf(a)[p] = IF s[p] \in Digit \cup Letter THEN s[p] ELSE Other
  <2>1. \A p : (IF s[p] \in Digit \cup Letter THEN s[p] ELSE Other) \in Char
    BY DEF Digit, Letter, Other, Char
  <2> QED
    BY <1>2, <1>5, <2>1
<1>7. ASSUME \A p \in 1 .. Len(IbanOf(a)) : IbanOf(a)[p] # Other
      PROVE  Sanitize(a) = a
  <2>1. \A p \in 1 .. Len(s) : s[p] \in Digit \cup Letter
    BY <1>6, <1>7
  <2>2. PICK at : IsKept(a, I, s, at)
    BY <1>4
  <2>3. \A p \in 1 .. n : a[p] = Blank \/ a[p] \in Digit \cup Letter
    <3> SUFFICES ASSUME NEW p \in 1 .. n, a[p] # Blank PROVE a[p] \in Digit \cup Letter
      OBVIOUS
    <3>1. PICK j \in 1 .. Len(s) : at[j] = p
      BY <1>3, <2>2 DEF IsKept
    <3> QED
      BY <2>1, <2>2, <3>1 DEF IsKept
  <2>4. Blank # Cont /\ Blank # Wide
    BY DEF Blank, Cont, Wide
  <2>5. \A p \in 1 .. n : a[p] # Cont /\ a[p] # Wide
    BY <2>3, <2>4, PlainCharacters
  <2>6. {p \in DOMAIN a : a[p] # Cont} = 1 .. Len(a)
    BY <1>1, <2>5
  <2>7. Keep(a, {p \in DOMAIN a : a[p] # Cont}) = a
    BY <2>6, KeepAll
  <2>8. Sanitize(a) = [p \in DOMAIN a |-> IF a[p] = Wide THEN Other ELSE a[p]]
    BY <2>7 DEF Sanitize
  <2>9. Sanitize(a) = [p \in 1 .. n |-> a[p]]
    BY <1>1, <2>5, <2>8
  <2> QED
    BY <1>1, <2>9
<1> QED
  BY <1>6, <1>7

\* The account that is cut from a line is a text, and begins with a character.
LEMMA AccountIsText ==
  ASSUME NEW v \in Seq(Byte), NEW lines, Head(lines) = v
  PROVE  FirstAccountLine(lines) \in Seq(Byte)
<1>1. \A w \in Seq(Byte) : Trim(w) \in Seq(Byte)
  <2> SUFFICES ASSUME NEW w \in Seq(Byte) PROVE Trim(w) \in Seq(Byte)
    OBVIOUS
  <2>1. CASE \A p \in 1 .. Len(w) : w[p] = Blank
    <3>1. <<>> \in Seq(Byte)
      OBVIOUS
    <3> QED
      BY <2>1, <3>1, TrimBlank
  <2>2. CASE \E lo, hi : Encloses(w, lo, hi)
    <3>1. PICK lo, hi : Encloses(w, lo, hi)
      BY <2>2
    <3>2. Trim(w) = SubSeq(w, lo, hi)
      BY <3>1, TrimIs
    <3>3. lo \in 1 .. Len(w) /\ hi \in lo .. Len(w)
      BY <3>1 DEF Encloses
    <3>4. SubSeq(w, lo, hi) \in Seq(Byte)
      BY <3>3
    <3> QED
      BY <3>2, <3>4
  <2> QED
    BY <2>1, <2>2, TrimShape
<1>2. \A w \in Seq(Byte) : DropSlashes(w) \in Seq(Byte)
  <2> SUFFICES ASSUME NEW w \in Seq(Byte) PROVE DropSlashes(w) \in Seq(Byte)
    OBVIOUS
  <2>1. PICK p : Leads(w, p)
    BY SlashesEnd
  <2>2. DropSlashes(w) = SubSeq(w, p, Len(w)) /\ p \in 1 .. Len(w) + 1
    BY <2>1, DropSlashesIs DEF Leads
  <2> QED
    BY <2>2
<1>3. <<>> \in Seq(Byte)
  OBVIOUS
<1> QED
  BY <1>1, <1>2, <1>3 DEF FirstAccountLine

\* The account of a party line ends at no half of a character.
LEMMA AccountIsCharacters ==
  ASSUME NEW v \in Text, v # <<>>, v[1] = Slash
  PROVE  Trim(DropSlashes(v)) \in Text
<1> DEFINE a == Trim(DropSlashes(v))
<1>1. v \in Seq(Byte) /\ \A p \in 1 .. Len(v) : v[p] = Cont => p > 1 /\ v[p - 1] \in {Wide, Cont}
  BY TextIs
<1>2. a = <<>> \/ \E lo, hi : IsAccount(v, a, lo, hi)
  BY <1>1, SameAccount
<1> HIDE DEF a
<1>3. CASE a = <<>>
  <2>1. <<>> \in Seq(Byte) /\ \A p \in 1 .. Len(<<>>) : FALSE
    OBVIOUS
  <2>2. <<>> \in Text
    BY <2>1, TextIs
  <2> QED
    BY <1>3, <2>2 DEF a
<1>4. CASE \E lo, hi : IsAccount(v, a, lo, hi)
  <2>1. PICK lo, hi : IsAccount(v, a, lo, hi)
    BY <1>4
  <2>2. /\ lo \in 2 .. Len(v) /\ hi \in lo .. Len(v) /\ v[lo - 1] \in {Slash, Blank}
        /\ a = SubSeq(v, lo, hi)
    BY <2>1 DEF IsAccount
  <2>3. /\ a \in Seq(Byte) /\ Len(a) = hi - lo + 1 /\ Len(v) \in Nat
        /\ \A p \in 1 .. hi - lo + 1 : a[p] = v[lo + p - 1]
    BY <1>1, <2>2
  <2>4. ASSUME NEW p \in 1 .. Len(a), a[p] = Cont PROVE p > 1 /\ a[p - 1] \in {Wide, Cont}
    <3> DEFINE q == lo + p - 1
    <3>1. q \in 1 .. Len(v) /\ v[q] = Cont
      BY <2>2, <2>3, <2>4
    <3>2. v[q - 1] \in {Wide, Cont}
      <4> HIDE DEF q
      <4> QED
        BY <1>1, <3>1
    <3>3. Slash \notin {Wide, Cont} /\ Blank \notin {Wide, Cont}
      BY DEF Slash, Blank, Wide, Cont
    <3>4. p # 1
      <4> SUFFICES ASSUME p = 1 PROVE FALSE
        OBVIOUS
      <4>1. lo + p - 1 - 1 = lo - 1
        BY <2>2
      <4> QED
        BY <2>2, <3>2, <3>3, <4>1
    <3>5. p - 1 \in 1 .. hi - lo + 1 /\ lo + (p - 1) - 1 = q - 1
      BY <2>2, <2>3, <3>4
    <3> HIDE DEF q
    <3>6. a[p - 1] = v[q - 1]
      BY <2>3, <3>5
    <3> QED
      BY <3>2, <3>4, <3>5, <3>6
  <2>5. a \in Text
    BY <2>3, <2>4, TextIs
  <2> QED
    BY <2>5 DEF a
<1> QED
  BY <1>2, <1>3, <1>4

\* The inductive invariant of the check: what was folded is the remainder of
\* the number and holds no other character, a check has not begun before its
\* field is read, and one follows whenever the account looks like an IBAN.
CheckInv ==
  /\ ReadInv
  /\ Folded
  /\ \A k \in 1 .. i : Rearranged(iban, k) # Other
  /\ stage = "arrived" => i = 0 /\ remainder = 0 /\ number = 0 /\ verdict = "none"
  /\ WasRead /\ field.kind = "party" /\ IbanLike(FirstAccountLine(value)) =>
       iban = IbanOf(FirstAccountLine(value)) /\ (stage = "done" => verdict # "none")

\* It holds when a field arrives, or an IBAN from elsewhere.
LEMMA CheckInit == FieldInit => CheckInv
<1> SUFFICES ASSUME FieldInit PROVE CheckInv
  OBVIOUS
<1>1. ReadInv
  BY ReadInit
<1>2. i = 0 /\ remainder = 0 /\ number = 0 /\ verdict = "none"
  BY DEF FieldInit, Init
<1>3. iban \in Seq(Char)
  <2>1. <<>> \in Seq(Char)
    OBVIOUS
  <2> QED
    BY <2>1, IbanAssumption DEF FieldInit, Init
<1>4. Folded
  BY <1>2, <1>3 DEF Folded, TypeOK
<1>5. ~WasRead
  BY DEF FieldInit, WasRead
<1> QED
  BY <1>1, <1>2, <1>4, <1>5 DEF CheckInv

\* Reading a field begins a check.
LEMMA CheckReadStep == CheckInv /\ ReadField => CheckInv'
<1> SUFFICES ASSUME CheckInv, ReadField PROVE CheckInv'
  OBVIOUS
<1> DEFINE account == IF field.kind = "party" THEN FirstAccountLine(value) ELSE <<>>
<1>1. /\ stage = "arrived" /\ i = 0 /\ remainder = 0 /\ number = 0 /\ verdict = "none"
      /\ i' = 0 /\ remainder' = 0 /\ number' = 0 /\ verdict' = "none"
      /\ field' = field /\ value' = value
      /\ IF IbanLike(account) THEN stage' = "check" /\ iban' = IbanOf(account)
         ELSE stage' = "done" /\ iban' = iban
  BY DEF CheckInv, ReadField
<1>2. ReadInv'
  BY ReadStep DEF CheckInv, FieldNext
<1>3. iban \in Seq(Char)
  BY DEF CheckInv, Folded, TypeOK
<1>4. field # Unread
  BY <1>1 DEF CheckInv, ReadInv
<1>5. iban' \in Seq(Char)
  <2>1. CASE IbanLike(account)
    <3>1. field.kind = "party"
      <4>1. ~IbanLike(<<>>)
        BY NothingIsNoIban
      <4> QED
        BY <2>1, <4>1
    <3>2. value \in Seq(Text) \ {<<>>}
      BY <1>4, <3>1 DEF CheckInv, ReadInv
    <3>3. Head(value) \in Seq(Byte)
      <4>1. Head(value) \in Text
        BY <3>2
      <4> QED
        BY <4>1, TextIs
    <3>4. FirstAccountLine(value) \in Seq(Byte)
      BY <3>3, AccountIsText
    <3> QED
      BY <1>1, <2>1, <3>1, <3>4, FoldedAccount
  <2>2. CASE ~IbanLike(account)
    BY <1>1, <1>3, <2>2
  <2> QED
    BY <2>1, <2>2
<1>6. Folded'
  BY <1>1, <1>5 DEF Folded, TypeOK
<1>7. \A k \in 1 .. i' : Rearranged(iban', k) # Other
  BY <1>1
<1>8. (WasRead /\ field.kind = "party" /\ IbanLike(FirstAccountLine(value)))' =>
        (iban = IbanOf(FirstAccountLine(value)) /\ (stage = "done" => verdict # "none"))'
  BY <1>1
<1>9. stage' # "arrived"
  BY <1>1
<1> QED
  BY <1>2, <1>6, <1>7, <1>8, <1>9 DEF CheckInv

\* A turn of the check goes on with it.
LEMMA CheckTurnStep == CheckInv /\ CheckIban => CheckInv'
<1> SUFFICES ASSUME CheckInv, CheckIban PROVE CheckInv'
  OBVIOUS
<1>1. /\ stage = "check" /\ Next /\ field' = field /\ value' = value /\ iban' = iban
      /\ stage' = IF verdict' = "none" THEN "check" ELSE "done"
  BY DEF CheckIban, Next, RejectShape, FoldCharacter, Return
<1>2. ReadInv'
  BY ReadStep DEF CheckInv, FieldNext
<1>3. Folded'
  BY <1>1, FoldedStep DEF CheckInv
<1>4. \A k \in 1 .. i' : Rearranged(iban', k) # Other
  <2>1. i \in Nat /\ \A k \in 1 .. i : Rearranged(iban, k) # Other
    BY DEF CheckInv, Folded, TypeOK
  <2>2. i' = i \/ (i' = i + 1 /\ Rearranged(iban, i + 1) # Other)
    BY <1>1 DEF Next, RejectShape, FoldCharacter, Return
  <2> QED
    BY <1>1, <2>1, <2>2
<1>5. WasRead' => WasRead
  BY <1>1 DEF WasRead
<1> QED
  BY <1>1, <1>2, <1>3, <1>4, <1>5 DEF CheckInv

\* Every step keeps CheckInv.
LEMMA CheckStep == CheckInv /\ [FieldNext]_all => CheckInv'
<1> SUFFICES ASSUME CheckInv, UNCHANGED all PROVE CheckInv'
  BY CheckReadStep, CheckTurnStep DEF FieldNext
<1>1. ReadInv'
  BY ReadStep DEF CheckInv
<1>2. Folded'
  BY FoldedStep DEF CheckInv, all, vars
<1>3. /\ stage' = stage /\ iban' = iban /\ i' = i /\ remainder' = remainder
      /\ number' = number /\ verdict' = verdict /\ field' = field /\ value' = value
  BY DEF all, vars
<1>4. WasRead' <=> WasRead
  BY <1>3 DEF WasRead
<1> QED
  BY <1>1, <1>2, <1>3, <1>4 DEF CheckInv

(***************************************************************************)
(* An account in the reader's column that looks like an IBAN was checked:  *)
(* when no error was found, it is 1 modulo 97.  For any party, though      *)
(* validate.rs cuts the account out by a rule of its own.                  *)
(***************************************************************************)
THEOREM ReadAccountsAreChecked == FieldSpec => []ReadAccountIsChecked
<1>1. CheckInv => ReadAccountIsChecked
  <2> SUFFICES ASSUME CheckInv, stage = "done", Is({"party"}), IbanLike(read.account)
               PROVE  /\ verdict # "none"
                      /\ verdict = "good" => iban = IbanOf(read.account) /\ number % 97 = 1
    BY DEF ReadAccountIsChecked
  <2> DEFINE v == value[1]
             a == Trim(DropSlashes(v))
  <2>1. /\ value \in Seq(Text) \ {<<>>} /\ read = ParseParty(value)
        /\ WasRead /\ field.kind = "party"
    BY DEF CheckInv, ReadInv, Is, WasRead, Parse
  <2>2. v \in Text /\ v \in Seq(Byte) /\ Head(value) = v
    <3>1. v \in Text /\ Head(value) = v
      BY <2>1
    <3> QED
      BY <3>1, TextIs
  <2> HIDE DEF v
  <2>3. v # <<>> /\ v[1] = Slash /\ read.account = Sanitize(a)
    <3>1. ~IbanLike(<<>>)
      BY NothingIsNoIban
    <3>2. Tail(value) # value
      BY <2>1
    <3>3. read.account = IF v # <<>> /\ v[1] = Slash THEN Sanitize(a) ELSE <<>>
      BY <2>1, <2>2, <3>2 DEF ParseParty
    <3> QED
      BY <3>1, <3>3
  <2>4. FirstAccountLine(value) = a
    BY <2>2, <2>3, SameAccount DEF FirstAccountLine
  <2>5. a \in Text
    BY <2>2, <2>3, AccountIsCharacters
  <2> HIDE DEF a
  <2>6. IbanLike(a)
    BY <2>3, <2>5, SanitizedLooksAlike
  <2>7. iban = IbanOf(a) /\ verdict # "none"
    BY <2>1, <2>4, <2>6 DEF CheckInv
  <2>8. ASSUME verdict = "good"
        PROVE  iban = IbanOf(read.account) /\ number % 97 = 1
    <3>1. /\ iban \in Seq(Char) /\ Shape(iban) /\ i = Len(iban) /\ number % 97 = 1
          /\ \A k \in 1 .. i : Rearranged(iban, k) # Other
      BY <2>8 DEF CheckInv, Folded, TypeOK
    <3>2. \A k \in 1 .. Len(iban) : iban[k] # Other
      BY <3>1, PlaceIsInverse
    <3>3. Sanitize(a) = a
      BY <2>5, <2>7, <3>2, FoldedAccount, TextIs
    <3> QED
      BY <2>3, <2>7, <3>1, <3>3
  <2> QED
    BY <2>7, <2>8
<1> QED
  BY <1>1, CheckInit, CheckStep, PTL DEF FieldSpec
-----------------------------------------------------------------------------
\* k is where a text is cut: at its first separator, or past its end.
Ends(v, k) ==
  /\ k \in 1 .. Len(v) + 1
  /\ k <= Len(v) => v[k] \in {Slash, Newline}
  /\ \A q \in 1 .. k - 1 : v[q] \notin {Slash, Newline}

\* Where a reference ends: at a slash, a line break or the end.
LEMMA TextEnds ==
  ASSUME NEW v \in Seq(Byte)
  PROVE  Ends(v, FirstAt(v, LAMBDA c : c \in {Slash, Newline}))
<1> DEFINE I == {q \in 1 .. Len(v) : v[q] \in {Slash, Newline}}
           p == IF I # {} THEN Min(I) ELSE 0
           k == IF p = 0 THEN Len(v) + 1 ELSE p
<1>1. FirstAt(v, LAMBDA c : c \in {Slash, Newline}) = k
  BY DEF FirstAt, SelectInSeq
<1>2. Len(v) \in Nat /\ I \in SUBSET (0 .. Len(v)) /\ I \subseteq Int
  OBVIOUS
<1>3. CASE I = {}
  <2>1. k = Len(v) + 1 /\ \A q \in 1 .. Len(v) : v[q] \notin {Slash, Newline}
    BY <1>3
  <2> HIDE DEF k
  <2>2. Ends(v, k)
    BY <1>2, <2>1 DEF Ends
  <2> QED
    BY <1>1, <2>2
<1>4. CASE I # {}
  <2>1. Min(I) \in I /\ \A q \in I : Min(I) <= q
    <3> HIDE DEF I
    <3> QED
      BY <1>2, <1>4, LeastOf
  <2>2. k = Min(I) /\ k \in 1 .. Len(v)
    BY <1>4, <2>1
  <2>3. v[k] \in {Slash, Newline}
    BY <2>1, <2>2
  <2>4. ASSUME NEW q \in 1 .. k - 1, v[q] \in {Slash, Newline} PROVE FALSE
    <3> HIDE DEF k
    <3>1. q \in 1 .. Len(v) /\ ~(k <= q)
      BY <1>2, <2>2
    <3>2. q \in I
      BY <2>4, <3>1
    <3> QED
      BY <2>1, <2>2, <3>1, <3>2
  <2> HIDE DEF k
  <2>5. Ends(v, k)
    BY <1>2, <2>2, <2>3, <2>4 DEF Ends
  <2> QED
    BY <1>1, <2>5
<1> QED
  BY <1>3, <1>4

\* A marker of a word at p, and the first character q of the value it has.
Marks(v, word, p) ==
  p \in 1 .. Len(v) - 2 /\ v[p] = Slash /\ v[p + 1] = word /\ v[p + 2] = Slash

Begins(v, p, q) ==
  /\ q \in p + 3 .. Len(v) /\ v[q] \notin {Slash, Newline, Blank}
  /\ \A r \in p + 3 .. q - 1 : v[r] \notin {Slash, Newline}

\* The value after a marker at p.
AfterMarker(v, p) ==
  LET tail == SubSeq(v, p + 3, Len(v))
  IN Trim(SubSeq(tail, 1, FirstAt(tail, LAMBDA c : c \in {Slash, Newline}) - 1))

\* What is read behind a marker: nothing, or a text that begins there.
LEMMA AfterMarkerShape ==
  ASSUME NEW v \in Seq(Byte), NEW p \in 1 .. Len(v) - 2
  PROVE  IF AfterMarker(v, p) = <<>> THEN ~ \E q : Begins(v, p, q)
         ELSE /\ Slash \notin ToSet(AfterMarker(v, p))
              /\ \E q : /\ Begins(v, p, q)
                        /\ SubSeq(v, q, q + Len(AfterMarker(v, p)) - 1) = AfterMarker(v, p)
<1> DEFINE n == Len(v)
           tail == SubSeq(v, p + 3, n)
           k == FirstAt(tail, LAMBDA c : c \in {Slash, Newline})
           u == SubSeq(tail, 1, k - 1)
           token == Trim(u)
<1>1. n \in Nat /\ p \in 1 .. n - 2
  OBVIOUS
<1>2. /\ tail \in Seq(Byte) /\ Len(tail) = n - p - 2
      /\ \A j \in 1 .. n - p - 2 : tail[j] = v[p + 2 + j]
  <2>1. p + 3 \in 1 .. n + 1
    BY <1>1
  <2>2. tail \in Seq(Byte) /\ Len(tail) = n - (p + 3) + 1
    BY <2>1
  <2>3. \A j \in 1 .. n - (p + 3) + 1 : tail[j] = v[p + 3 + j - 1]
    BY <2>1
  <2>4. n - (p + 3) + 1 = n - p - 2 /\ \A j \in Int : p + 3 + j - 1 = p + 2 + j
    BY <1>1
  <2> HIDE DEF tail
  <2> QED
    BY <2>2, <2>3, <2>4
<1>3. Ends(tail, k)
  BY <1>2, TextEnds
<1> HIDE DEF k
<1>4. /\ k \in 1 .. n - p - 1 /\ (k <= n - p - 2 => tail[k] \in {Slash, Newline})
      /\ \A j \in 1 .. k - 1 : tail[j] \notin {Slash, Newline}
  <2>1. Len(tail) + 1 = n - p - 1
    BY <1>1, <1>2
  <2> HIDE DEF tail, n
  <2> QED
    BY <1>2, <1>3, <2>1 DEF Ends
<1>5. u \in Seq(Byte) /\ Len(u) = k - 1 /\ \A j \in 1 .. k - 1 : u[j] = v[p + 2 + j]
  <2> HIDE DEF tail
  <2>1. 1 \in 1 .. Len(tail) + 1 /\ k - 1 \in 0 .. Len(tail) /\ Len(tail) \in Nat
    BY <1>1, <1>2, <1>4
  <2>2. u \in Seq(Byte) /\ Len(u) = k - 1 /\ \A j \in 1 .. k - 1 : u[j] = tail[j]
    BY <1>2, <2>1
  <2>3. \A j \in 1 .. k - 1 : tail[j] = v[p + 2 + j]
    BY <1>1, <1>2, <1>4
  <2> QED
    BY <2>2, <2>3
<1>6. AfterMarker(v, p) = token
  BY DEF AfterMarker, k
<1>7. CASE \A j \in 1 .. Len(u) : u[j] = Blank
  <2>1. token = <<>>
    BY <1>5, <1>7, TrimBlank
  <2>2. ASSUME NEW q, Begins(v, p, q) PROVE FALSE
    <3> DEFINE j == q - p - 2
    <3>1. /\ q \in p + 3 .. n /\ v[q] \notin {Slash, Newline, Blank}
          /\ \A r \in p + 3 .. q - 1 : v[r] \notin {Slash, Newline}
      BY <2>2 DEF Begins
    <3>2. j \in 1 .. n - p - 2 /\ p + 2 + j = q
      BY <1>1, <3>1
    <3> HIDE DEF n, tail, u
    <3>3. CASE j < k
      <4>1. j \in 1 .. k - 1
        BY <1>1, <1>4, <3>2, <3>3
      <4> HIDE DEF j
      <4> QED
        BY <1>5, <1>7, <3>1, <3>2, <4>1
    <3>4. CASE ~(j < k)
      <4>1. k \in 1 .. n - p - 2 /\ p + 2 + k \in p + 3 .. q /\ q \in Int
        BY <1>1, <1>4, <3>1, <3>2, <3>4
      <4>2. v[p + 2 + k] \in {Slash, Newline}
        BY <1>1, <1>2, <1>4, <4>1
      <4>3. p + 2 + k = q \/ p + 2 + k \in p + 3 .. q - 1
        BY <1>1, <4>1
      <4> DEFINE r == p + 2 + k
      <4> HIDE DEF r
      <4> QED
        BY <3>1, <4>2, <4>3 DEF r
    <3> QED
      BY <3>3, <3>4
  <2> QED
    BY <1>6, <2>1, <2>2
<1>8. CASE \E l, h : Encloses(u, l, h)
  <2>1. PICK l, h : Encloses(u, l, h)
    BY <1>8
  <2>2. l \in 1 .. k - 1 /\ h \in l .. k - 1 /\ u[l] # Blank
    BY <1>5, <2>1 DEF Encloses
  <2>3. token = SubSeq(u, l, h)
    BY <1>5, <2>1, TrimIs
  <2> DEFINE q == p + 2 + l
  <2>4. Begins(v, p, q)
    <3>1. q \in p + 3 .. n
      <4> HIDE DEF n, tail, u
      <4> QED
        BY <1>1, <1>4, <2>2
    <3>2. v[q] = u[l] /\ v[q] = tail[l]
      <4> HIDE DEF tail, u, n
      <4>1. l \in 1 .. n - p - 2
        BY <1>1, <1>4, <2>2
      <4> QED
        BY <1>2, <1>5, <2>2, <4>1
    <3>3. v[q] \notin {Slash, Newline, Blank}
      <4> HIDE DEF tail, u, q
      <4> QED
        BY <1>4, <2>2, <3>2
    <3>4. ASSUME NEW r \in p + 3 .. q - 1 PROVE v[r] \notin {Slash, Newline}
      <4> DEFINE j == r - p - 2
      <4>1. j \in 1 .. k - 1 /\ j \in 1 .. n - p - 2 /\ p + 2 + j = r
        BY <1>1, <1>4, <2>2
      <4> HIDE DEF j, tail, n
      <4> QED
        BY <1>2, <1>4, <4>1
    <3> QED
      BY <3>1, <3>3, <3>4 DEF Begins
  <2>5. token \in Seq(Byte) /\ Len(token) = h - l + 1 /\ \A j \in 1 .. h - l + 1 : token[j] = u[l + j - 1]
    <3> HIDE DEF u, token
    <3>1. /\ SubSeq(u, l, h) \in Seq(Byte) /\ Len(SubSeq(u, l, h)) = h - l + 1
          /\ \A j \in 1 .. h - l + 1 : SubSeq(u, l, h)[j] = u[l + j - 1]
      <4>1. l \in 1 .. Len(u) + 1 /\ h \in l - 1 .. Len(u)
        BY <1>4, <1>5, <2>2
      <4> QED
        BY <1>5, <4>1, PartShape, SMTT(60)
    <3> QED
      BY <2>3, <3>1
  <2>6. SubSeq(v, q, q + Len(token) - 1) = token
    <3>1. q + Len(token) - 1 = p + 2 + h
      <4> HIDE DEF n, token
      <4> QED
        BY <1>1, <1>4, <2>2, <2>5
    <3>2. /\ p + 3 \in 1 .. Len(v) + 1 /\ n \in p + 3 - 1 .. Len(v)
          /\ 1 \in 1 .. n - (p + 3) + 2 /\ k - 1 \in 1 - 1 .. n - (p + 3) + 1
      BY <1>1, <1>4
    <3>3. u = SubSeq(v, p + 3 + 1 - 1, p + 3 + (k - 1) - 1)
      <4> HIDE DEF n
      <4> QED
        BY <3>2, PartOfPart
    <3>4. p + 3 + 1 - 1 = p + 3 /\ p + 3 + (k - 1) - 1 = p + 1 + k
      BY <1>1, <1>4
    <3>5. u = SubSeq(v, p + 3, p + 1 + k)
      <4> HIDE DEF u
      <4> QED
        BY <3>3, <3>4
    <3>6. /\ p + 3 \in 1 .. Len(v) + 1 /\ p + 1 + k \in p + 3 - 1 .. Len(v)
          /\ l \in 1 .. p + 1 + k - (p + 3) + 2 /\ h \in l - 1 .. p + 1 + k - (p + 3) + 1
      BY <1>1, <1>4, <2>2
    <3>7. SubSeq(SubSeq(v, p + 3, p + 1 + k), l, h) = SubSeq(v, p + 3 + l - 1, p + 3 + h - 1)
      <4> DEFINE a == p + 3 b == p + 1 + k
      <4>1. /\ a \in 1 .. Len(v) + 1 /\ b \in a - 1 .. Len(v)
            /\ l \in 1 .. b - a + 2 /\ h \in l - 1 .. b - a + 1
        <5>1. a \in 1 .. Len(v) + 1 /\ l \in 1 .. b - a + 2
          BY <1>1, <1>4, <2>2
        <5>2. b \in a - 1 .. Len(v) /\ h \in l - 1 .. b - a + 1
          BY <1>1, <1>4, <2>2
        <5> HIDE DEF a, b
        <5> QED
          BY <5>1, <5>2
      <4> HIDE DEF a, b
      <4>2. SubSeq(SubSeq(v, a, b), l, h) = SubSeq(v, a + l - 1, a + h - 1)
        BY <4>1, PartOfPart
      <4> QED
        BY <4>2 DEF a, b
    <3>8. p + 3 + l - 1 = q /\ p + 3 + h - 1 = p + 2 + h
      BY <1>1, <1>4, <2>2
    <3> HIDE DEF u, q, token
    <3> QED
      BY <2>3, <3>1, <3>5, <3>7, <3>8
  <2>7. Slash \notin ToSet(token)
    <3> SUFFICES ASSUME NEW j \in 1 .. h - l + 1, token[j] = Slash PROVE FALSE
      <4> HIDE DEF token
      <4> QED
        BY <2>5 DEF ToSet
    <3> DEFINE m == l + j - 1
    <3>1. m \in 1 .. k - 1 /\ m \in 1 .. n - p - 2
      BY <1>1, <1>4, <2>2
    <3>2. token[j] = u[m]
      BY <2>5
    <3> HIDE DEF m, tail, u, token, n
    <3>3. u[m] = tail[m]
      BY <1>2, <1>5, <3>1
    <3> QED
      BY <1>4, <3>1, <3>2, <3>3
  <2>8. token # <<>>
    <3> HIDE DEF token
    <3> QED
      BY <1>4, <2>2, <2>5
  <2> HIDE DEF q, token
  <2> QED
    BY <1>6, <2>4, <2>6, <2>7, <2>8
<1> QED
  BY <1>5, <1>7, <1>8, TrimShape

\* The value after the first marker of a word: there is none without a marker.
LEMMA TokenShape ==
  ASSUME NEW v \in Seq(Byte), NEW word
  PROVE  \/ StructuredToken(v, word) = <<>> /\ \A p : ~Marks(v, word, p)
         \/ \E p : /\ Marks(v, word, p) /\ \A o : Marks(v, word, o) => p <= o
                   /\ StructuredToken(v, word) = AfterMarker(v, p)
<1> DEFINE I == {p \in 1 .. Len(v) - 2 : SubSeq(v, p, p + 2) = <<Slash, word, Slash>>}
<1>1. ASSUME NEW p PROVE p \in I <=> Marks(v, word, p)
  <2>1. CASE p \notin 1 .. Len(v) - 2
    BY <2>1 DEF Marks
  <2>2. CASE p \in 1 .. Len(v) - 2
    <3> DEFINE t == SubSeq(v, p, p + 2)
    <3>1. p \in 1 .. Len(v) + 1 /\ p + 2 \in p - 1 .. Len(v) /\ p + 2 - p + 1 = 3
      BY <2>2
    <3>2. /\ t \in Seq(Byte) /\ Len(t) = 3 /\ t[1] = v[p + 1 - 1] /\ t[2] = v[p + 2 - 1]
          /\ t[3] = v[p + 3 - 1]
      <4>1. /\ t \in Seq(Byte) /\ Len(t) = p + 2 - p + 1
            /\ \A j \in 1 .. p + 2 - p + 1 : t[j] = v[p + j - 1]
        <5> HIDE DEF I
        <5> QED
          BY <3>1, PartShape
      <4> HIDE DEF t
      <4> QED
        BY <3>1, <4>1
    <3>3. p + 1 - 1 = p /\ p + 2 - 1 = p + 1 /\ p + 3 - 1 = p + 2
      BY <2>2
    <3> HIDE DEF t
    <3>4. t = <<Slash, word, Slash>> <=> t[1] = Slash /\ t[2] = word /\ t[3] = Slash
      <4>1. <<Slash, word, Slash>> \in Seq({Slash, word})
        OBVIOUS
      <4>2. ASSUME t[1] = Slash, t[2] = word, t[3] = Slash PROVE t = <<Slash, word, Slash>>
        <5>1. t = <<t[1], t[2], t[3]>>
          BY <3>2
        <5> QED
          BY <4>2, <5>1
      <4> QED
        BY <3>2, <4>2
    <3> QED
      BY <2>2, <3>2, <3>3, <3>4 DEF Marks, t
  <2> QED
    BY <2>1, <2>2
<1>2. StructuredToken(v, word) = IF I = {} THEN <<>> ELSE AfterMarker(v, Min(I))
  BY DEF StructuredToken, AfterMarker
<1>3. I \in SUBSET (0 .. Len(v)) /\ Len(v) \in Nat
  OBVIOUS
<1> HIDE DEF I
<1>4. CASE I = {}
  BY <1>1, <1>2, <1>4
<1>5. CASE I # {}
  <2>1. Min(I) \in I /\ \A p \in I : Min(I) <= p
    BY <1>3, <1>5, LeastOf
  <2> QED
    BY <1>1, <1>2, <1>5, <2>1
<1> QED
  BY <1>4, <1>5

\* The first of the words whose marker has a value decides.
LEMMA DerivedShape ==
  ASSUME NEW v
  PROVE  \/ \E w \in {EToE, ETOE, UETR} : DeriveEndToEnd(v) = StructuredToken(v, w)
                                          /\ DeriveEndToEnd(v) # <<>>
         \/ /\ DeriveEndToEnd(v) = <<>>
            /\ \A w \in {EToE, ETOE, UETR} : StructuredToken(v, w) = <<>>
<1> DEFINE words == <<EToE, ETOE, UETR>>
           I == {j \in 1 .. Len(words) : StructuredToken(v, words[j]) # <<>>}
           m == IF I # {} THEN Min(I) ELSE 0
<1>1. DeriveEndToEnd(v) = IF m = 0 THEN <<>> ELSE StructuredToken(v, words[m])
  BY DEF DeriveEndToEnd, SelectInSeq
<1>2. /\ Len(words) = 3 /\ words[1] = EToE /\ words[2] = ETOE /\ words[3] = UETR
      /\ \A j \in 1 .. 3 : words[j] \in {EToE, ETOE, UETR}
  OBVIOUS
<1> HIDE DEF words
<1>3. CASE I = {}
  <2>1. \A j \in 1 .. 3 : StructuredToken(v, words[j]) = <<>>
    BY <1>2, <1>3
  <2>2. \A w \in {EToE, ETOE, UETR} : StructuredToken(v, w) = <<>>
    BY <1>2, <2>1
  <2> QED
    BY <1>1, <1>3, <2>2
<1>4. CASE I # {}
  <2>1. I \in SUBSET (0 .. 3)
    BY <1>2
  <2>2. m \in I
    <3> HIDE DEF I
    <3>1. 3 \in Nat
      OBVIOUS
    <3> QED
      BY <1>4, <2>1, <3>1, LeastOf
  <2>3. m \in 1 .. 3 /\ StructuredToken(v, words[m]) # <<>>
    BY <1>2, <2>2
  <2> HIDE DEF m
  <2> QED
    BY <1>1, <1>2, <2>3
<1> QED
  BY <1>3, <1>4

(***************************************************************************)
(* The end-to-end id is a value that follows a marker of :72:, and there is*)
(* one as soon as any marker has a value, unless one of the same name      *)
(* without a value stands before it; for any text.                         *)
(***************************************************************************)
THEOREM EndToEndIsOfAMarker == FieldSpec => []EndToEndOfItsMarker
<1>1. ReadInv => EndToEndOfItsMarker
  <2> SUFFICES ASSUME ReadInv, Is({"72"}) PROVE EndToEndOfItsMarker
    BY DEF EndToEndOfItsMarker
  <2> DEFINE v == value
             words == {EToE, ETOE, UETR}
             marks == {p \in 1 .. Len(v) - 2 : /\ v[p] = Slash /\ v[p + 2] = Slash
                                              /\ v[p + 1] \in words}
             from(p, q) == q \in p + 3 .. Len(v) /\ v[q] \notin {Slash, Newline, Blank}
                           /\ \A r \in p + 3 .. q - 1 : v[r] \notin {Slash, Newline}
             valued == {p \in marks : \E q \in DOMAIN v : from(p, q)}
             id == read.end_to_end
  <2>1. v \in Seq(Byte) /\ id = DeriveEndToEnd(v)
    BY DEF ReadInv, Is, WasRead, Parse
  <2>2. \A p, q : from(p, q) <=> Begins(v, p, q)
    BY DEF Begins
  <2>3. \A p : p \in marks <=> p \in 1 .. Len(v) - 2 /\ v[p + 1] \in words /\ Marks(v, v[p + 1], p)
    BY DEF Marks
  <2>4. Len(v) \in Nat /\ DOMAIN v = 1 .. Len(v)
    BY <2>1
  <2>5. \A p \in marks : \A q : from(p, q) => q \in DOMAIN v
    BY <2>4
  <2>6. \A w \in words : \A p : Marks(v, w, p) => p \in marks /\ v[p + 1] = w
    BY DEF Marks
  <2>7. \A p : p \in valued <=> p \in marks /\ \E q : from(p, q)
    BY <2>5
  <2> HIDE DEF v, id, marks, words, from, valued
  <2>8. ASSUME id # <<>>
        PROVE  /\ Slash \notin ToSet(id)
               /\ \E p \in marks, q \in DOMAIN v : from(p, q) /\ SubSeq(v, q, q + Len(id) - 1) = id
    <3>1. PICK w \in words : id = StructuredToken(v, w)
      BY <2>1, <2>8, DerivedShape DEF words
    <3>2. PICK p : Marks(v, w, p) /\ id = AfterMarker(v, p)
      BY <2>1, <2>8, <3>1, TokenShape
    <3>3. p \in marks /\ p \in 1 .. Len(v) - 2
      BY <2>3, <2>6, <3>2
    <3>4. /\ Slash \notin ToSet(id)
          /\ \E q : Begins(v, p, q) /\ SubSeq(v, q, q + Len(id) - 1) = id
      BY <2>1, <2>8, <3>2, <3>3, AfterMarkerShape
    <3> QED
      BY <2>2, <2>5, <3>3, <3>4
  <2>9. ASSUME id = <<>>, NEW p \in valued
        PROVE  \E q \in marks \ valued : q < p /\ v[q + 1] = v[p + 1]
    <3> DEFINE w == v[p + 1]
    <3>1. p \in marks /\ p \in 1 .. Len(v) - 2 /\ w \in words /\ Marks(v, w, p)
      BY <2>3, <2>7
    <3> HIDE DEF w
    <3>2. StructuredToken(v, w) = <<>>
      BY <2>1, <2>9, <3>1, DerivedShape DEF words
    <3>3. PICK q : /\ Marks(v, w, q) /\ \A o : Marks(v, w, o) => q <= o
                   /\ StructuredToken(v, w) = AfterMarker(v, q)
      BY <2>1, <3>1, TokenShape
    <3>4. q \in marks /\ v[q + 1] = w /\ q \in 1 .. Len(v) - 2 /\ q <= p
      BY <2>3, <2>6, <3>1, <3>3
    <3>5. q \notin valued
      BY <2>1, <2>2, <2>7, <3>2, <3>3, <3>4, AfterMarkerShape
    <3>6. q < p
      BY <2>4, <2>9, <3>1, <3>4, <3>5
    <3> QED
      BY <3>4, <3>5, <3>6 DEF w
  <2> QED
    BY <2>8, <2>9 DEF EndToEndOfItsMarker, v, id, marks, words, from, valued
<1> QED
  BY <1>1, ReadInit, ReadStep, PTL DEF FieldSpec
-----------------------------------------------------------------------------
\* NumberOf goes through the digits from the first to the last.
LEMMA NumberRecursion ==
  ASSUME NEW v \in Seq(Nat)
  PROVE  \E g : /\ g[0] = 0 /\ NumberOf(v) = g[Len(v)]
                /\ \A k \in 1 .. Len(v) : g[k] = 10 * g[k - 1] + v[k]
<1> DEFINE n == Len(v)
           T == Nat
           b == 0
           step(k, q) == 10 * q + v[k]
           st == [k \in 1 .. n |-> [q \in T |-> step(k, q)]]
           Up(f) == f = [k \in 0 .. n |-> IF k = 0 THEN b ELSE step(k, f[k - 1])]
           h == CHOOSE f : Up(f)
<1>1. n \in Nat /\ b \in T /\ \A k \in 1 .. n : \A q \in T : step(k, q) \in T
  OBVIOUS
<1>2. NumberOf(v) = h[n]
  BY DEF NumberOf
<1> HIDE DEF n, T, step, b
<1>3. st \in [1 .. n -> [T -> T]] /\ \A k \in 1 .. n : \A q \in T : st[k][q] = step(k, q)
  BY <1>1
<1> HIDE DEF st
<1>4. PICK g : Runs(g, n, T, b, st)
  BY <1>1, <1>3, Recursion
<1>5. g \in [0 .. n -> T] /\ \A k \in 0 .. n : g[k] = IF k = 0 THEN b ELSE step(k, g[k - 1])
  BY <1>1, <1>3, <1>4 DEF Runs
<1>6. Up(g)
  BY <1>5
<1>7. Up(h)
  BY <1>6
<1> HIDE DEF h
<1>8. h[0] = b /\ \A k \in 1 .. n : h[k] = step(k, h[k - 1])
  <2>1. \A k \in 0 .. n : h[k] = IF k = 0 THEN b ELSE step(k, h[k - 1])
    BY <1>7
  <2>2. 0 \in 0 .. n /\ \A k \in 1 .. n : k \in 0 .. n /\ k # 0
    BY <1>1
  <2> QED
    BY <2>1, <2>2
<1> QED
  BY <1>2, <1>8 DEF n, step, b

\* The numbers of up to three digits.
LEMMA NumberOfFew ==
  ASSUME NEW v \in Seq(Nat), Len(v) \in 1 .. 3
  PROVE  NumberOf(v) = IF Len(v) = 1 THEN v[1]
                       ELSE IF Len(v) = 2 THEN 10 * v[1] + v[2]
                       ELSE 100 * v[1] + 10 * v[2] + v[3]
<1>1. PICK g : /\ g[0] = 0 /\ NumberOf(v) = g[Len(v)]
               /\ \A k \in 1 .. Len(v) : g[k] = 10 * g[k - 1] + v[k]
  BY NumberRecursion
<1>2. g[1] = v[1]
  <2>1. 1 \in 1 .. Len(v) /\ 1 - 1 = 0 /\ v[1] \in Nat
    OBVIOUS
  <2> QED
    BY <1>1, <2>1
<1>3. Len(v) >= 2 => g[2] = 10 * v[1] + v[2]
  <2>1. Len(v) >= 2 => 2 \in 1 .. Len(v) /\ 2 - 1 = 1
    OBVIOUS
  <2> QED
    BY <1>1, <1>2, <2>1
<1>4. Len(v) = 3 => g[3] = 100 * v[1] + 10 * v[2] + v[3]
  <2> SUFFICES ASSUME Len(v) = 3 PROVE g[3] = 100 * v[1] + 10 * v[2] + v[3]
    OBVIOUS
  <2>1. 3 \in 1 .. Len(v) /\ 3 - 1 = 2 /\ v[1] \in Nat /\ v[2] \in Nat /\ v[3] \in Nat
    <3>1. 1 \in 1 .. Len(v) /\ 2 \in 1 .. Len(v) /\ 3 \in 1 .. Len(v) /\ 3 - 1 = 2
      OBVIOUS
    <3>2. \A k \in 1 .. Len(v) : v[k] \in Nat
      OBVIOUS
    <3> QED
      BY <3>1, <3>2
  <2>2. g[3] = 10 * g[2] + v[3]
    BY <1>1, <2>1
  <2> QED
    BY <1>3, <2>1, <2>2
<1>5. NumberOf(v) = g[Len(v)] /\ (Len(v) = 1 \/ Len(v) = 2 \/ Len(v) = 3)
  BY <1>1
<1>6. CASE Len(v) = 1
  BY <1>2, <1>5, <1>6
<1>7. CASE Len(v) = 2
  BY <1>3, <1>5, <1>7
<1>8. CASE Len(v) = 3
  BY <1>4, <1>5, <1>8
<1> QED
  BY <1>5, <1>6, <1>7, <1>8

\* AllIn, of a sequence over the set.
LEMMA AllOfThem ==
  ASSUME NEW S, NEW v \in Seq(S) PROVE AllIn(v, S)
BY DEF AllIn

\* The characters that are one byte each.
Ascii == Byte \ {Cont}

\* Which characters are one byte each, and that the kinds of them differ.
LEMMA AsciiIs ==
  /\ Digit \subseteq Ascii /\ Letter \subseteq Ascii /\ Digit \cup Letter \subseteq Ascii
  /\ Slash \in Ascii /\ Plus \in Ascii /\ Minus \in Ascii /\ Credit \in Letter /\ Debit \in Letter
  /\ Ascii \subseteq Byte /\ Cont \notin Ascii /\ Digit \subseteq Nat
  /\ Digit \cap Letter = {} /\ Slash \notin Digit /\ Slash \notin Letter /\ Blank \notin Digit
BY DEF Ascii, Digit, Letter, Byte, Cont, Slash, Plus, Minus, Credit, Debit, Blank

\* A text of one-byte characters has no half of another.
LEMMA AsciiBytes ==
  ASSUME NEW v \in Seq(Ascii) PROVE v \in Seq(Byte) /\ Cont \notin ToSet(v)
<1>1. v \in Seq(Byte)
  BY AsciiIs, WiderSeq
<1>2. Cont \notin ToSet(v)
  <2>1. \A p \in 1 .. Len(v) : v[p] \in Ascii
    OBVIOUS
  <2> QED
    BY <2>1, AsciiIs DEF ToSet
<1> QED
  BY <1>1, <1>2

\* Two digits of a number, and the digits of one of at most three.
LEMMA TwoDigitsRead ==
  ASSUME NEW n \in 0 .. 99
  PROVE  TwoDigits(n) \in Seq(Digit) /\ Len(TwoDigits(n)) = 2 /\ NumberOf(TwoDigits(n)) = n
<1> DEFINE t == TwoDigits(n)
<1>1. n \div 10 \in Digit /\ n % 10 \in Digit /\ 10 * (n \div 10) + (n % 10) = n
  BY DEF Digit
<1>2. t \in Seq(Digit) /\ Len(t) = 2 /\ t[1] = n \div 10 /\ t[2] = n % 10
  BY <1>1 DEF TwoDigits
<1> HIDE DEF t
<1>3. t \in Seq(Nat)
  BY <1>2, AsciiIs, WiderSeq
<1>4. NumberOf(t) = 10 * t[1] + t[2]
  BY <1>2, <1>3, NumberOfFew
<1> QED
  BY <1>1, <1>2, <1>4 DEF t

\* A number is read from its digits.
LEMMA DigitsRead ==
  ASSUME NEW n \in 0 .. 999
  PROVE  /\ DigitsOf(n) \in Seq(Digit) /\ Len(DigitsOf(n)) \in 1 .. 3
         /\ NumberOf(DigitsOf(n)) = n
<1> DEFINE t == DigitsOf(n)
<1>1. CASE n < 10
  <2>1. t = <<n>> /\ n \in Digit
    BY <1>1 DEF DigitsOf, Digit
  <2> HIDE DEF t
  <2>3. t \in Seq(Digit) /\ Len(t) = 1 /\ t[1] = n
    BY <2>1
  <2>4. NumberOf(t) = t[1]
    <3>1. t \in Seq(Nat)
      BY <2>3, AsciiIs, WiderSeq
    <3> QED
      BY <2>3, <3>1, NumberOfFew
  <2> QED
    BY <2>3, <2>4 DEF t
<1>2. CASE n \in 10 .. 99
  <2>1. t = TwoDigits(n)
    BY <1>2 DEF DigitsOf
  <2>2. TwoDigits(n) \in Seq(Digit) /\ Len(TwoDigits(n)) = 2 /\ NumberOf(TwoDigits(n)) = n
    <3>1. n \in 0 .. 99
      BY <1>2
    <3> QED
      BY <3>1, TwoDigitsRead
  <2> HIDE DEF t
  <2> QED
    BY <2>1, <2>2 DEF t
<1>3. CASE n > 99
  <2> DEFINE a == n \div 100 b == (n \div 10) % 10 c == n % 10
  <2>1. a \in Digit /\ b \in Digit /\ c \in Digit /\ 100 * a + 10 * b + c = n
    BY <1>3 DEF Digit
  <2>2. t = <<a, b, c>>
    BY <1>3 DEF DigitsOf
  <2> HIDE DEF a, b, c, t
  <2>3. t \in Seq(Digit) /\ Len(t) = 3 /\ t[1] = a /\ t[2] = b /\ t[3] = c
    BY <2>1, <2>2
  <2>4. NumberOf(t) = 100 * t[1] + 10 * t[2] + t[3]
    <3>1. t \in Seq(Nat)
      BY <2>3, AsciiIs, WiderSeq
    <3>2. Len(t) \in 1 .. 3 /\ Len(t) # 1 /\ Len(t) # 2
      BY <2>3
    <3> QED
      BY <3>1, <3>2, NumberOfFew
  <2> QED
    BY <2>1, <2>3, <2>4 DEF t
<1> QED
  BY <1>1, <1>2, <1>3

\* An amount that is written in digits, and a date, are read as they were meant.
LEMMA AmountRead ==
  ASSUME NEW n \in 0 .. 999 PROVE ParseMtAmount(DigitsOf(n)) = <<n>>
<1>1. /\ DigitsOf(n) \in Seq(Digit) /\ Len(DigitsOf(n)) \in 1 .. 3
      /\ NumberOf(DigitsOf(n)) = n
  BY DigitsRead, ZenonT(60)
<1> DEFINE t == DigitsOf(n)
<1> HIDE DEF t
<1>2. t # <<>> /\ AllIn(t, Digit)
  <2>1. t \in Seq(Digit) /\ t # <<>>
    BY <1>1 DEF t
  <2> QED
    BY <2>1, AllOfThem
<1> QED
  BY <1>1, <1>2 DEF ParseMtAmount, t

\* A date is read from its six digits.
LEMMA DateRead ==
  ASSUME NEW d, IsDate(d), d.year \in 1950 .. 2049
  PROVE  /\ Yymmdd(d) \in Seq(Digit) /\ Len(Yymmdd(d)) = 6
         /\ ParseDate(Yymmdd(d)) = d /\ d # None
<1> DEFINE y == d.year % 100 m == d.month n == d.day
           v == Yymmdd(d)
<1>1. y \in 0 .. 99 /\ m \in 1 .. 12 /\ n \in 1 .. 31 /\ n \in 1 .. DaysIn(d.year, m)
  BY DEF IsDate, DaysIn
<1>2. PivotYear(y) = d.year
  <2>1. d.year \in 1950 .. 1999 => y = d.year - 1900
    OBVIOUS
  <2>2. d.year \in 2000 .. 2049 => y = d.year - 2000
    OBVIOUS
  <2> HIDE DEF y
  <2> QED
    BY <2>1, <2>2 DEF PivotYear
<1>3. v = <<y \div 10, y % 10, m \div 10, m % 10, n \div 10, n % 10>>
  BY DEF Yymmdd
<1> HIDE DEF v
<1>4. d = [year |-> d.year, month |-> m, day |-> n]
  BY DEF IsDate
<1> HIDE DEF y, m, n
<1>5. /\ y \div 10 \in Digit /\ y % 10 \in Digit /\ m \div 10 \in Digit
      /\ m % 10 \in Digit /\ n \div 10 \in Digit /\ n % 10 \in Digit
  BY <1>1 DEF Digit
<1>6. /\ v \in Seq(Digit) /\ Len(v) = 6 /\ v[1] = y \div 10 /\ v[2] = y % 10
      /\ v[3] = m \div 10 /\ v[4] = m % 10 /\ v[5] = n \div 10 /\ v[6] = n % 10
  BY <1>3, <1>5
<1>7. AllIn(v, Digit)
  BY <1>6, AllOfThem
<1>8. 10 * v[1] + v[2] = y /\ 10 * v[3] + v[4] = m /\ 10 * v[5] + v[6] = n
  BY <1>1, <1>6
<1>9. ParseDate(v) = FromYmd(d.year, m, n)
  BY <1>2, <1>6, <1>7, <1>8 DEF ParseDate, ParseYymmdd
<1>10. FromYmd(d.year, m, n) = d
  BY <1>1, <1>4 DEF FromYmd
<1>11. d # None
  <2>1. "year" \in DOMAIN d /\ "year" \notin DOMAIN None
    <3>1. "year" \in DOMAIN [year |-> d.year, month |-> m, day |-> n]
      OBVIOUS
    <3>2. "year" \notin DOMAIN None
      BY DEF None
    <3> QED
      BY <1>4, <3>1, <3>2
  <2> QED
    BY <2>1
<1> QED
  BY <1>6, <1>9, <1>10, <1>11 DEF v

\* A text begins with another: what a transfer cut off did, and what follows it
\* may still be there.
Prefix(s, v) == Len(s) <= Len(v) /\ \A p \in 1 .. Len(s) : v[p] = s[p]

\* s and then t stand at the beginning of v.
LEMMA NextPart ==
  ASSUME NEW v \in Seq(Ascii), NEW s \in Seq(Ascii), NEW t \in Seq(Ascii), Prefix(s \o t, v)
  PROVE  /\ s \o t \in Seq(Ascii) /\ Len(s \o t) = Len(s) + Len(t)
         /\ Prefix(s, v) /\ Len(s) + Len(t) <= Len(v)
         /\ SubSeq(v, Len(s) + 1, Len(s) + Len(t)) = t
<1> DEFINE c == s \o t a == Len(s) b == Len(t) u == SubSeq(v, a + 1, a + b)
<1>1. /\ c \in Seq(Ascii) /\ Len(c) = a + b /\ a \in Nat /\ b \in Nat /\ Len(v) \in Nat
      /\ (\A o \in 1 .. a : c[o] = s[o]) /\ \A o \in a + 1 .. a + b : c[o] = t[o - a]
  BY Concat
<1>2. Len(c) <= Len(v) /\ \A p \in 1 .. Len(c) : v[p] = c[p]
  BY DEF Prefix
<1> HIDE DEF c
<1>3. a + b <= Len(v)
  BY <1>1, <1>2
<1>4. Prefix(s, v)
  BY <1>1, <1>2 DEF Prefix
<1>5. u \in Seq(Ascii) /\ Len(u) = b /\ \A p \in 1 .. b : u[p] = v[a + p]
  <2> HIDE DEF a, b
  <2> DEFINE e == a + 1 f == a + b
  <2>1. e \in 1 .. Len(v) + 1 /\ f \in e - 1 .. Len(v)
    BY <1>1, <1>3
  <2>2. f - e + 1 = b /\ \A p \in 1 .. b : e + p - 1 = a + p
    BY <1>1
  <2> HIDE DEF e, f
  <2>3. /\ SubSeq(v, e, f) \in Seq(Ascii) /\ Len(SubSeq(v, e, f)) = f - e + 1
        /\ \A p \in 1 .. f - e + 1 : SubSeq(v, e, f)[p] = v[e + p - 1]
    BY <2>1, PartShape
  <2>4. u = SubSeq(v, e, f)
    BY DEF e, f
  <2> HIDE DEF u
  <2>5. ASSUME NEW p \in 1 .. b PROVE u[p] = v[a + p]
    <3>1. e + p - 1 = a + p /\ p \in 1 .. f - e + 1
      BY <2>2
    <3> QED
      BY <2>3, <2>4, <3>1
  <2> QED
    BY <2>2, <2>3, <2>4, <2>5
<1>6. \A p \in 1 .. b : u[p] = t[p]
  <2> SUFFICES ASSUME NEW p \in 1 .. b PROVE u[p] = t[p]
    OBVIOUS
  <2>1. a + p \in a + 1 .. a + b /\ a + p - a = p /\ a + p \in 1 .. Len(c)
    BY <1>1
  <2> HIDE DEF a, b, u
  <2>2. v[a + p] = c[a + p] /\ c[a + p] = t[a + p - a]
    BY <1>1, <1>2, <2>1
  <2> QED
    BY <1>5, <2>1, <2>2
<1>7. u = t
  <2> HIDE DEF u
  <2> QED
    BY <1>5, <1>6
<1> QED
  BY <1>1, <1>3, <1>4, <1>7 DEF c

\* x ends after the first a bytes of v, and t, of b bytes, follows.
Follows(v, x, t, a, b) == Prefix(x, v) /\ SubSeq(v, a + 1, a + b) = t

\* The same, in one word.
LEMMA NextFollows ==
  ASSUME NEW v \in Seq(Ascii), NEW s \in Seq(Ascii), NEW t \in Seq(Ascii), Prefix(s \o t, v)
  PROVE  Follows(v, s, t, Len(s), Len(t))
BY NextPart DEF Follows

\* Slices of a text of one-byte characters: those that reach past its end fail.
LEMMA GetOfAscii ==
  ASSUME NEW v \in Seq(Ascii), NEW a \in Nat, NEW b \in Nat, a <= b
  PROVE  Get(v, a, b) = IF b <= Len(v) THEN SubSeq(v, a + 1, b) ELSE <<>>
<1>1. Len(v) \in Nat /\ \A p \in 1 .. Len(v) : v[p] # Cont
  <2>1. \A p \in 1 .. Len(v) : v[p] \in Ascii
    OBVIOUS
  <2> QED
    BY <2>1, AsciiIs
<1>2. \A p \in Nat : Boundary(v, p) <=> p <= Len(v)
  <2> SUFFICES ASSUME NEW p \in Nat PROVE Boundary(v, p) <=> p <= Len(v)
    OBVIOUS
  <2>1. CASE p \in 1 .. Len(v) - 1
    <3>1. p + 1 \in 1 .. Len(v)
      BY <1>1, <2>1
    <3> QED
      BY <1>1, <2>1, <3>1 DEF Boundary
  <2>2. CASE p \notin 1 .. Len(v) - 1
    BY <1>1, <2>2 DEF Boundary
  <2> QED
    BY <2>1, <2>2
<1>3. Sliceable(v, a, b) <=> b <= Len(v)
  BY <1>1, <1>2 DEF Sliceable
<1> QED
  BY <1>3 DEF Get

\* str::get never fails in a text of one-byte characters but behind its end.
LEMMA GetFromOfAscii ==
  ASSUME NEW v \in Seq(Ascii), NEW a \in Nat
  PROVE  GetFrom(v, a) = IF a <= Len(v) THEN SubSeq(v, a + 1, Len(v)) ELSE <<>>
<1>1. Len(v) \in Nat
  OBVIOUS
<1>2. CASE a <= Len(v)
  <2>1. Get(v, a, Len(v)) = IF Len(v) <= Len(v) THEN SubSeq(v, a + 1, Len(v)) ELSE <<>>
    BY <1>1, <1>2, GetOfAscii
  <2> QED
    BY <1>1, <1>2, <2>1 DEF GetFrom
<1>3. CASE ~(a <= Len(v))
  BY <1>1, <1>3, Zenon DEF GetFrom, Get, Sliceable
<1> QED
  BY <1>2, <1>3

\* What stands at the beginning of a text, and the same part of what is left of
\* one that was cut off.
LEMMA FirstPart ==
  ASSUME NEW v \in Seq(Ascii), NEW s \in Seq(Ascii), Prefix(s, v)
  PROVE  SubSeq(v, 1, Len(s)) = s
<1> DEFINE n == Len(s) u == SubSeq(v, 1, n)
<1>1. n \in Nat /\ n <= Len(v) /\ \A p \in 1 .. n : v[p] = s[p]
  BY DEF Prefix
<1>2. u \in Seq(Ascii) /\ Len(u) = n /\ \A p \in 1 .. n : u[p] = v[p]
  BY <1>1
<1> HIDE DEF u
<1>3. \A p \in 1 .. n : u[p] = s[p]
  BY <1>1, <1>2
<1> QED
  BY <1>2, <1>3 DEF n

\* A part of a cut-off text is that part of the whole.
LEMMA PartLeft ==
  ASSUME NEW v \in Seq(Ascii), NEW w \in Seq(Ascii), Prefix(w, v),
         NEW a \in Nat, NEW b \in Nat, a <= b, b <= Len(w)
  PROVE  SubSeq(w, a + 1, b) = SubSeq(v, a + 1, b)
<1> DEFINE n == b - a s == SubSeq(w, a + 1, b) t == SubSeq(v, a + 1, b)
<1>0. Len(w) <= Len(v) /\ (\A p \in 1 .. Len(w) : v[p] = w[p]) /\ Len(w) \in Nat /\ Len(v) \in Nat
  BY DEF Prefix
<1>1. /\ s \in Seq(Ascii) /\ Len(s) = n /\ \A p \in 1 .. n : s[p] = w[a + p]
  BY <1>0
<1>2. /\ t \in Seq(Ascii) /\ Len(t) = n /\ \A p \in 1 .. n : t[p] = v[a + p]
  BY <1>0
<1> HIDE DEF s, t
<1>3. \A p \in 1 .. n : s[p] = t[p]
  <2> SUFFICES ASSUME NEW p \in 1 .. n PROVE s[p] = t[p]
    OBVIOUS
  <2>1. a + p \in 1 .. Len(w)
    BY <1>0
  <2> HIDE DEF n
  <2> QED
    BY <1>0, <1>1, <1>2, <2>1
<1>4. s = t
  BY <1>1, <1>2, <1>3
<1> QED
  BY <1>4 DEF s, t

\* A text begins with itself.
LEMMA PrefixOfItself == ASSUME NEW v \in Seq(Ascii) PROVE Prefix(v, v)
BY DEF Prefix

\* Three and four parts one after the other, in v.
Three(v, s, t, u, a, b) ==
  /\ v \in Seq(Ascii) /\ Len(v) = b + Len(u) /\ SubSeq(v, 1, a) = s
  /\ SubSeq(v, a + 1, b) = t /\ SubSeq(v, b + 1, b + Len(u)) = u

Four(v, s, t, u, w, a, b, c) ==
  /\ v \in Seq(Ascii) /\ Len(v) = c + Len(w) /\ SubSeq(v, 1, a) = s
  /\ SubSeq(v, a + 1, b) = t /\ SubSeq(v, b + 1, c) = u
  /\ SubSeq(v, c + 1, c + Len(w)) = w

\* Where each of three parts stands.
LEMMA ThreeParts ==
  ASSUME NEW s \in Seq(Ascii), NEW t \in Seq(Ascii), NEW u \in Seq(Ascii)
  PROVE  Three(s \o t \o u, s, t, u, Len(s), Len(s) + Len(t))
<1> DEFINE x == s \o t v == x \o u
<1>1. x \in Seq(Ascii) /\ Len(x) = Len(s) + Len(t)
  BY Concat
<1> HIDE DEF x
<1>2. v \in Seq(Ascii) /\ Len(v) = Len(x) + Len(u)
  BY <1>1, Concat
<1>3. Prefix(v, v)
  BY <1>2, PrefixOfItself
<1>4. Prefix(x, v) /\ SubSeq(v, Len(x) + 1, Len(x) + Len(u)) = u
  <2>1. Follows(v, x, u, Len(x), Len(u))
    BY <1>1, <1>2, <1>3, NextFollows
  <2> QED
    BY <2>1 DEF Follows
<1>5. Prefix(s, v) /\ SubSeq(v, Len(s) + 1, Len(s) + Len(t)) = t
  <2> HIDE DEF v
  <2> QED
    BY <1>2, <1>4, NextPart DEF x
<1>6. SubSeq(v, 1, Len(s)) = s
  <2> HIDE DEF v
  <2> QED
    BY <1>2, <1>5, FirstPart
<1> QED
  BY <1>1, <1>2, <1>4, <1>5, <1>6 DEF Three, x

\* Where each of four parts stands.
LEMMA FourParts ==
  ASSUME NEW s \in Seq(Ascii), NEW t \in Seq(Ascii), NEW u \in Seq(Ascii), NEW w \in Seq(Ascii)
  PROVE  Four(s \o t \o u \o w, s, t, u, w, Len(s), Len(s) + Len(t),
              Len(s) + Len(t) + Len(u))
<1> DEFINE x == s \o t y == x \o u v == y \o w
<1>1. x \in Seq(Ascii) /\ Len(x) = Len(s) + Len(t)
  BY Concat
<1> HIDE DEF x
<1>2. y \in Seq(Ascii) /\ Len(y) = Len(x) + Len(u)
  BY <1>1, Concat
<1> HIDE DEF y
<1>3. v \in Seq(Ascii) /\ Len(v) = Len(y) + Len(w)
  BY <1>2, Concat
<1>4. Prefix(v, v)
  BY <1>3, PrefixOfItself
<1>5. Prefix(y, v) /\ SubSeq(v, Len(y) + 1, Len(y) + Len(w)) = w
  <2>1. Follows(v, y, w, Len(y), Len(w))
    BY <1>2, <1>3, <1>4, NextFollows
  <2> QED
    BY <2>1 DEF Follows
<1> HIDE DEF v
<1>6. Prefix(x, v) /\ SubSeq(v, Len(x) + 1, Len(x) + Len(u)) = u
  <2>1. u \in Seq(Ascii) /\ Prefix(x \o u, v)
    BY <1>5 DEF y
  <2>2. v \in Seq(Ascii) /\ x \in Seq(Ascii)
    BY <1>1, <1>3
  <2>3. Follows(v, x, u, Len(x), Len(u))
    BY ONLY <2>1, <2>2, NextFollows
  <2> QED
    BY <2>3 DEF Follows
<1>7. Prefix(s, v) /\ SubSeq(v, Len(s) + 1, Len(s) + Len(t)) = t
  BY <1>3, <1>6, NextPart DEF x
<1>8. SubSeq(v, 1, Len(s)) = s
  BY <1>3, <1>7, FirstPart
<1> QED
  BY <1>1, <1>2, <1>3, <1>5, <1>6, <1>7, <1>8 DEF Four, x, y, v

\* The parts of a text of which a beginning arrives.
LEMMA PartArrives ==
  ASSUME NEW v \in Seq(Ascii), NEW w \in Seq(Ascii), Prefix(w, v),
         NEW a \in Nat, NEW b \in Nat, a <= b
  PROVE  Get(w, a, b) = IF b <= Len(w) THEN SubSeq(v, a + 1, b) ELSE <<>>
BY GetOfAscii, PartLeft

\* A part of no fixed width, when all arrives.
LEMMA RestArrives ==
  ASSUME NEW v \in Seq(Ascii), NEW a \in Nat, a <= Len(v)
  PROVE  GetFrom(v, a) = SubSeq(v, a + 1, Len(v))
BY GetFromOfAscii

\* A currency is a text of three characters, and so is what the digits make.
LEMMA PartsAreAscii ==
  /\ \A c \in Seq(Letter) : c \in Seq(Ascii)
  /\ \A c \in Seq(Digit) : c \in Seq(Ascii)
  /\ \A c \in Seq(Digit \cup Letter) : c \in Seq(Ascii)
<1>1. Digit \subseteq Ascii /\ Letter \subseteq Ascii /\ Digit \cup Letter \subseteq Ascii
  BY AsciiIs
<1> QED
  BY <1>1, WiderSeq

\* An amount, a currency and a date, as they are written.
LEMMA AmountWritten ==
  ASSUME NEW n \in 0 .. 999
  PROVE  /\ DigitsOf(n) \in Seq(Ascii) /\ Len(DigitsOf(n)) \in 1 .. 3
         /\ ParseMtAmount(DigitsOf(n)) = <<n>>
<1>1. DigitsOf(n) \in Seq(Digit) /\ Len(DigitsOf(n)) \in 1 .. 3
  BY DigitsRead, ZenonT(60)
<1>2. ParseMtAmount(DigitsOf(n)) = <<n>>
  BY AmountRead, ZenonT(60)
<1> HIDE DEF DigitsOf
<1> QED
  BY <1>1, <1>2, PartsAreAscii

\* Six digits begin with one.
LEMMA FirstDigit ==
  ASSUME NEW s \in Seq(Digit), Len(s) = 6 PROVE s[1] \in Digit /\ s \in Seq(Ascii)
BY PartsAreAscii

\* A date, as the fields that begin with one need it.
LEMMA DateWritten ==
  ASSUME NEW d, IsDate(d), d.year \in 1950 .. 2049
  PROVE  /\ Yymmdd(d) \in Seq(Ascii) /\ Len(Yymmdd(d)) = 6 /\ Yymmdd(d)[1] \in Digit
         /\ ParseDate(Yymmdd(d)) = d
<1>1. Yymmdd(d) \in Seq(Digit) /\ Len(Yymmdd(d)) = 6 /\ ParseDate(Yymmdd(d)) = d
  BY DateRead
<1> QED
  BY <1>1, FirstDigit

\* A date and two more parts stand at their bytes.
LEMMA ThreePlaces ==
  ASSUME NEW s \in Seq(Ascii), Len(s) = 6, NEW t \in Seq(Ascii), Len(t) = 3,
         NEW u \in Seq(Ascii)
  PROVE  Three(s \o t \o u, s, t, u, 6, 9)
<1> DEFINE a == Len(s) b == Len(s) + Len(t) x == s \o t \o u
<1>1. Three(x, s, t, u, a, b)
  BY ThreeParts
<1>2. a = 6 /\ b = 9
  OBVIOUS
<1> HIDE DEF a, b, x
<1> QED
  BY <1>1, <1>2 DEF x

\* What arrives of a :32A:, of a :33B:.
LEMMA Whole32a ==
  ASSUME NEW m, IsMeaning("32A", m), NEW w \in Seq(Ascii), Prefix(w, Encode("32A", m))
  PROVE  LET r == Parse32a(w)
         IN /\ r.date \in {None, m.date} /\ r.ccy \in {<<>>, m.ccy}
            /\ w = Encode("32A", m) =>
                 r.date = m.date /\ r.ccy = m.ccy /\ r.amount = <<m.digits>>
<1> DEFINE s == Yymmdd(m.date) t == m.ccy u == DigitsOf(m.digits) v == Encode("32A", m)
<1>1. v = s \o t \o u
  BY DEF Encode
<1>2. s \in Seq(Ascii) /\ Len(s) = 6 /\ ParseDate(s) = m.date
  <2>1. IsDate(m.date) /\ m.date.year \in 1950 .. 2049
    BY DEF IsMeaning
  <2> QED
    BY <2>1, DateWritten
<1>3. t \in Seq(Ascii) /\ Len(t) = 3
  <2>1. t \in Seq(Letter) /\ Len(t) = 3
    BY DEF IsMeaning
  <2> HIDE DEF t
  <2> QED
    BY <2>1, PartsAreAscii
<1>4. u \in Seq(Ascii) /\ Len(u) \in 1 .. 3 /\ ParseMtAmount(u) = <<m.digits>>
  <2>1. m.digits \in 0 .. 999
    BY DEF IsMeaning
  <2> QED
    BY <2>1, AmountWritten, ZenonT(60)
<1> HIDE DEF s, t, u, v
<1>5. /\ v \in Seq(Ascii) /\ Len(v) = 9 + Len(u)
      /\ SubSeq(v, 1, 6) = s /\ SubSeq(v, 7, 9) = t /\ SubSeq(v, 10, Len(v)) = u
  <2>1. Three(v, s, t, u, 6, 9)
    BY <1>1, <1>2, <1>3, <1>4, ThreePlaces
  <2>2. 6 + 1 = 7 /\ 9 + 1 = 10 /\ Len(v) \in Nat
    OBVIOUS
  <2> QED
    BY <2>1, <2>2 DEF Three
<1>6. Prefix(w, v)
  BY DEF v
<1>0. 0 \in Nat /\ 6 \in Nat /\ 9 \in Nat /\ 0 <= 6 /\ 6 <= 9
  OBVIOUS
<1>7. Get(w, 0, 6) = IF 6 <= Len(w) THEN SubSeq(v, 0 + 1, 6) ELSE <<>>
  BY <1>0, <1>5, <1>6, PartArrives, Zenon
<1>8. Get(w, 6, 9) = IF 9 <= Len(w) THEN SubSeq(v, 6 + 1, 9) ELSE <<>>
  BY <1>0, <1>5, <1>6, PartArrives, Zenon
<1>9. ParseDate(<<>>) = None
  BY DEF ParseDate
<1>10. w = v => GetFrom(w, 9) = SubSeq(v, 9 + 1, Len(v)) /\ 9 <= Len(w) /\ 6 <= Len(w)
  BY <1>4, <1>5, RestArrives
<1>11. /\ Parse32a(w).date = ParseDate(Get(w, 0, 6)) /\ Parse32a(w).ccy = Get(w, 6, 9)
       /\ Parse32a(w).amount = ParseMtAmount(GetFrom(w, 9))
  BY DEF Parse32a
<1>12. 0 + 1 = 1 /\ 6 + 1 = 7 /\ 9 + 1 = 10
  OBVIOUS
<1>13. Get(w, 0, 6) \in {<<>>, s} /\ Get(w, 6, 9) \in {<<>>, t}
  BY <1>5, <1>7, <1>8, <1>12
<1>14. w = v => Get(w, 0, 6) = s /\ Get(w, 6, 9) = t /\ GetFrom(w, 9) = u
  BY <1>5, <1>7, <1>8, <1>10, <1>12
<1> QED
  BY <1>2, <1>4, <1>9, <1>11, <1>13, <1>14 DEF t, v

SumRead(w, v, c, n) ==
  /\ ParseCcyAmount(w).ccy \in {<<>>, c}
  /\ w = v => ParseCcyAmount(w).ccy = c /\ ParseCcyAmount(w).amount = <<n>>

\* :33B: cut off anywhere: the sum, or less of it, of the same currency.
LEMMA Whole33b ==
  ASSUME NEW c \in Seq(Ascii), Len(c) = 3, NEW n \in 0 .. 999,
         NEW w \in Seq(Ascii), Prefix(w, c \o DigitsOf(n))
  PROVE  SumRead(w, c \o DigitsOf(n), c, n)
<1> DEFINE u == DigitsOf(n) v == c \o u
<1>1. u \in Seq(Ascii) /\ Len(u) \in 1 .. 3 /\ ParseMtAmount(u) = <<n>>
  BY AmountWritten, ZenonT(60)
<1>0. Prefix(w, v)
  OBVIOUS
<1> HIDE DEF u
<1>2. v \in Seq(Ascii) /\ Len(v) = Len(c) + Len(u)
  BY <1>1, Concat, ZenonT(60)
<1>21. Prefix(v, v)
  BY <1>2, PrefixOfItself
<1>3. Prefix(c, v) /\ SubSeq(v, Len(c) + 1, Len(c) + Len(u)) = u
  <2>1. Follows(v, c, u, Len(c), Len(u))
    BY <1>1, <1>2, <1>21, NextFollows
  <2> QED
    BY <2>1 DEF Follows
<1> HIDE DEF v
<1>4. SubSeq(v, 1, Len(c)) = c
  BY <1>1, <1>2, <1>3, FirstPart
<1>50. 0 \in Nat /\ 3 \in Nat /\ 0 <= 3
  OBVIOUS
<1>5. Get(w, 0, 3) = IF 3 <= Len(w) THEN SubSeq(v, 0 + 1, 3) ELSE <<>>
  BY <1>0, <1>2, <1>50, PartArrives, Zenon
<1>6. w = v => GetFrom(w, 3) = SubSeq(v, 3 + 1, Len(v)) /\ 3 <= Len(w)
  BY <1>1, <1>2, RestArrives
<1>7. 0 + 1 = 1 /\ 3 + 1 = 4 /\ Len(c) + 1 = 4
  OBVIOUS
<1>8. Get(w, 0, 3) \in {<<>>, c}
  BY <1>4, <1>5, <1>7
<1>9. w = v => Get(w, 0, 3) = c /\ GetFrom(w, 3) = u
  BY <1>2, <1>3, <1>4, <1>5, <1>6, <1>7
<1>10. /\ ParseCcyAmount(w).ccy = Get(w, 0, 3)
       /\ ParseCcyAmount(w).amount = ParseMtAmount(GetFrom(w, 3))
  BY DEF ParseCcyAmount
<1> QED
  BY <1>1, <1>8, <1>9, <1>10 DEF SumRead, u, v

\* The letter that may stand before an amount or a date, which begin with a digit.
FirstMark(v) == IF v # <<>> /\ v[1] \in {Credit, Debit} THEN <<v[1]>> ELSE <<>>

IsMark(dc, c) == /\ dc \in {<<>>, <<Credit>>, <<Debit>>}
                 /\ IF dc = <<>> THEN c \in Digit ELSE c = dc[1]

\* A mark of a floor limit, or none.
LEMMA MarkRead ==
  ASSUME NEW dc, NEW c, IsMark(dc, c), NEW w \in Seq(Ascii), w # <<>> => w[1] = c
  PROVE  /\ w # <<>> => FirstMark(w) = dc
         /\ w = <<>> => FirstMark(w) = <<>>
         /\ dc \in Seq(Ascii) /\ Len(dc) \in 0 .. 1
<1>1. CASE dc = <<>>
  <2>1. c \notin {Credit, Debit}
    BY <1>1 DEF IsMark, Digit, Credit, Debit
  <2>2. FirstMark(w) = <<>>
    BY <2>1 DEF FirstMark
  <2> QED
    BY <1>1, <2>2
<1>2. ASSUME NEW a \in {Credit, Debit}, dc = <<a>>
      PROVE  /\ w # <<>> => FirstMark(w) = dc
             /\ dc \in Seq(Ascii) /\ Len(dc) \in 0 .. 1
  <2>1. c = a /\ a \in Ascii
    <3>1. dc # <<>> /\ dc[1] = a
      BY <1>2
    <3>2. a \in Ascii
      BY AsciiIs
    <3> QED
      BY <3>1, <3>2 DEF IsMark
  <2> QED
    BY <1>2, <2>1 DEF FirstMark
<1> QED
  BY <1>1, <1>2 DEF IsMark, FirstMark

\* What a mark makes of an amount.
LEMMA SignedOne ==
  ASSUME NEW dc, NEW n \in Nat
  PROVE  Signed(dc, <<n>>) = <<IF dc = <<Debit>> THEN 0 - n ELSE n>>
<1> DEFINE a == <<n>>
<1>1. Len(a) = 1 /\ a[1] = n /\ DOMAIN a = 1 .. 1
  OBVIOUS
<1>2. Signed(dc, a) = IF dc = <<Debit>> THEN [p \in 1 .. 1 |-> -a[p]] ELSE a
  BY <1>1 DEF Signed
<1> HIDE DEF a
<1>3. [p \in 1 .. 1 |-> -a[p]] = <<0 - n>>
  BY <1>1
<1> QED
  BY <1>2, <1>3 DEF a

\* A :60F: that arrives whole.
LEMMA Whole60f ==
  ASSUME NEW m, IsMeaning("60F", m), NEW v, v = Encode("60F", m)
  PROVE  /\ ParseBalance(v).dc = m.dc /\ ParseBalance(v).date = m.date
         /\ ParseBalance(v).ccy = m.ccy
         /\ ParseBalance(v).amount = <<IF m.dc = <<Debit>> THEN 0 - m.digits ELSE m.digits>>
<1> DEFINE dc == m.dc s == Yymmdd(m.date) t == m.ccy u == DigitsOf(m.digits)
           c == IF dc = <<>> THEN s[1] ELSE dc[1]
           p == Len(dc)
           n == m.digits
<1>1. v = dc \o s \o t \o u
  BY DEF Encode
<1>2. s \in Seq(Ascii) /\ Len(s) = 6 /\ ParseDate(s) = m.date /\ s[1] \in Digit
  <2>1. IsDate(m.date) /\ m.date.year \in 1950 .. 2049
    BY DEF IsMeaning
  <2> QED
    BY <2>1, DateWritten
<1>3. t \in Seq(Ascii) /\ Len(t) = 3
  <2>1. t \in Seq(Letter) /\ Len(t) = 3
    BY DEF IsMeaning
  <2> HIDE DEF t
  <2> QED
    BY <2>1, PartsAreAscii
<1>4. u \in Seq(Ascii) /\ Len(u) \in 1 .. 3 /\ ParseMtAmount(u) = <<n>> /\ n \in Nat
  <2>1. n \in 0 .. 999
    BY DEF IsMeaning
  <2>2. u \in Seq(Ascii) /\ Len(u) \in 1 .. 3 /\ ParseMtAmount(u) = <<n>>
    BY <2>1, AmountWritten, Zenon
  <2>3. n \in Nat
    BY <2>1
  <2> QED
    BY <2>2, <2>3, Zenon
<1>5. dc \in {<<>>, <<Credit>>, <<Debit>>}
  BY DEF IsMeaning
<1> HIDE DEF s, t, u, dc, n
<1>6. IsMark(dc, c)
  BY <1>2, <1>5 DEF IsMark
<1>7. dc \in Seq(Ascii) /\ p \in 0 .. 1
  <2>1. <<>> \in Seq(Ascii)
    OBVIOUS
  <2> QED
    BY <1>6, <2>1, MarkRead
<1>8. Four(v, dc, s, t, u, p, p + 6, p + 9)
  <2>1. Four(dc \o s \o t \o u, dc, s, t, u, Len(dc), Len(dc) + Len(s), Len(dc) + Len(s) + Len(t))
    BY <1>2, <1>3, <1>4, <1>7, FourParts, Zenon
  <2>2. Len(dc) + Len(s) = p + 6 /\ Len(dc) + Len(s) + Len(t) = p + 9
    BY <1>2, <1>3, <1>7
  <2> QED
    BY <1>1, <2>1, <2>2
<1>9. /\ v \in Seq(Ascii) /\ Len(v) = p + 9 + Len(u) /\ SubSeq(v, 1, p) = dc
      /\ SubSeq(v, p + 1, p + 6) = s /\ SubSeq(v, (p + 6) + 1, p + 9) = t
      /\ SubSeq(v, (p + 9) + 1, Len(v)) = u
  BY <1>8 DEF Four
<1>10. v # <<>> /\ v[1] = c
  <2>1. CASE dc = <<>>
    <3>1. SubSeq(v, 1, 6) = s
      BY <1>9, <2>1
    <3>2. SubSeq(v, 1, 6)[1] = v[1]
      BY <1>4, <1>7, <1>9
    <3> QED
      BY <1>4, <1>7, <1>9, <2>1, <3>1, <3>2
  <2>2. CASE dc # <<>>
    <3>1. p = 1
      BY <1>5, <2>2
    <3>2. SubSeq(v, 1, 1)[1] = v[1]
      BY <1>4, <1>9, <3>1
    <3> QED
      BY <1>4, <1>9, <2>2, <3>1, <3>2
  <2> QED
    BY <2>1, <2>2
<1>11. FirstMark(v) = dc
  BY <1>6, <1>9, <1>10, MarkRead
<1> HIDE DEF c, p
<1>12. p \in Nat /\ p + 6 \in Nat /\ p + 9 \in Nat /\ p <= p + 6 /\ p + 6 <= p + 9
       /\ p + 6 <= Len(v) /\ p + 9 <= Len(v) /\ (p + 6) + 3 = p + 9
  BY <1>4, <1>7, <1>9
<1>13. Get(v, p, p + 6) = s /\ Get(v, p + 6, p + 9) = t /\ GetFrom(v, p + 9) = u
  <2>1. Get(v, p, p + 6) = IF p + 6 <= Len(v) THEN SubSeq(v, p + 1, p + 6) ELSE <<>>
    BY <1>9, <1>12, GetOfAscii, Zenon
  <2>2. Get(v, p + 6, p + 9) = IF p + 9 <= Len(v) THEN SubSeq(v, (p + 6) + 1, p + 9) ELSE <<>>
    BY <1>9, <1>12, GetOfAscii, Zenon
  <2>3. GetFrom(v, p + 9) = SubSeq(v, (p + 9) + 1, Len(v))
    BY <1>9, <1>12, RestArrives, Zenon
  <2> QED
    BY <1>9, <1>12, <2>1, <2>2, <2>3
<1>14. /\ ParseBalance(v).dc = dc
       /\ ParseBalance(v).date = ParseDate(Get(v, p, p + 6))
       /\ ParseBalance(v).ccy = Get(v, p + 6, p + 9)
       /\ ParseBalance(v).amount = Signed(dc, ParseMtAmount(GetFrom(v, p + 9)))
  <2> DEFINE dc2 == FirstMark(v) p2 == Len(dc2)
             q2 == IF Len(v) >= p2 + 6 THEN p2 + 6 ELSE p2
             r2 == IF Len(v) >= q2 + 3 THEN q2 + 3 ELSE q2
  <2>1. ParseBalance(v) = [dc |-> dc2, date |-> ParseDate(Get(v, p2, p2 + 6)), ccy |-> Get(v, q2, q2 + 3),
                           amount |-> Signed(dc2, ParseMtAmount(GetFrom(v, r2)))]
    BY DEF ParseBalance, FirstMark
  <2>2. dc2 = dc /\ p2 = p
    BY <1>11 DEF p
  <2> HIDE DEF dc2, p2
  <2>3. q2 = p + 6
    BY <1>12, <2>2
  <2> HIDE DEF q2
  <2>4. r2 = p + 9
    BY <1>12, <2>3
  <2> HIDE DEF r2
  <2> QED
    BY <1>12, <2>1, <2>2, <2>3, <2>4
<1> QED
  BY <1>2, <1>4, <1>13, <1>14, SignedOne DEF dc, t, n

\* The rest of a text of which a beginning arrives, and the rest of that one.
LEMMA RestLeft ==
  ASSUME NEW v \in Seq(Ascii), NEW w \in Seq(Ascii), Prefix(w, v),
         NEW a \in Nat, a <= Len(w)
  PROVE  /\ SubSeq(w, a + 1, Len(w)) \in Seq(Ascii)
         /\ Prefix(SubSeq(w, a + 1, Len(w)), SubSeq(v, a + 1, Len(v)))
         /\ Len(SubSeq(w, a + 1, Len(w))) = Len(w) - a
<1> DEFINE s == SubSeq(w, a + 1, Len(w)) t == SubSeq(v, a + 1, Len(v))
<1>0. Len(w) <= Len(v) /\ (\A p \in 1 .. Len(w) : v[p] = w[p]) /\ Len(w) \in Nat /\ Len(v) \in Nat
  BY DEF Prefix
<1>1. s \in Seq(Ascii) /\ Len(s) = Len(w) - a /\ \A p \in 1 .. Len(w) - a : s[p] = w[a + p]
  BY <1>0
<1>2. Len(t) = Len(v) - a /\ \A p \in 1 .. Len(v) - a : t[p] = v[a + p]
  <2>1. a + 1 \in 1 .. Len(v) + 1 /\ Len(v) \in (a + 1) - 1 .. Len(v)
    BY <1>0
  <2> QED
    BY <1>0, <2>1
<1> HIDE DEF s, t
<1>3. ASSUME NEW p \in 1 .. Len(w) - a PROVE t[p] = s[p]
  <2>1. a + p \in 1 .. Len(w) /\ p \in 1 .. Len(v) - a
    BY <1>0
  <2> QED
    BY <1>0, <1>1, <1>2, <2>1
<1>4. Len(s) <= Len(t)
  BY <1>0, <1>1, <1>2
<1> QED
  BY <1>1, <1>3, <1>4 DEF Prefix, s, t

\* What a slice to the end returns, and a slice of it.
LEMMA RestShape ==
  ASSUME NEW v \in Seq(Ascii), NEW a \in Nat
  PROVE  /\ GetFrom(v, a) \in Seq(Ascii)
         /\ GetFrom(v, a) # <<>> => a + 1 \in 1 .. Len(v) /\ GetFrom(v, a)[1] = v[a + 1]
<1> DEFINE r == GetFrom(v, a) n == Len(v)
<1>1. r = IF a <= n THEN SubSeq(v, a + 1, n) ELSE <<>>
  BY GetFromOfAscii
<1> HIDE DEF r
<1>2. CASE a <= n
  <2>1. /\ SubSeq(v, a + 1, n) \in Seq(Ascii) /\ Len(SubSeq(v, a + 1, n)) = n - a
        /\ \A p \in 1 .. n - a : SubSeq(v, a + 1, n)[p] = v[a + p]
    BY <1>2
  <2> QED
    BY <1>1, <1>2, <2>1 DEF r
<1>3. CASE ~(a <= n)
  <2>1. r = <<>>
    BY <1>1, <1>3
  <2> QED
    BY <2>1 DEF r
<1> QED
  BY <1>2, <1>3

\* Going on from a place twice.
LEMMA RestOfRest ==
  ASSUME NEW v \in Seq(Ascii), NEW a \in Nat, NEW b \in Nat, a + b < Len(v)
  PROVE  /\ GetFrom(GetFrom(v, a), b) = SubSeq(v, a + b + 1, Len(v))
         /\ GetFrom(v, a) # <<>>
<1> DEFINE n == Len(v) r == GetFrom(v, a)
<1>0. n \in Nat /\ a + b < n
  OBVIOUS
<1>1. r = SubSeq(v, a + 1, n)
  BY <1>0, RestArrives
<1>2. r \in Seq(Ascii) /\ Len(r) = n - a
  BY <1>0, <1>1
<1>3. GetFrom(r, b) = SubSeq(r, b + 1, Len(r))
  <2> HIDE DEF r, n
  <2>1. b <= Len(r)
    BY <1>0, <1>2
  <2> QED
    BY <1>2, <2>1, RestArrives
<1> DEFINE e == a + 1 c == b + 1 d == n - a
<1>4. /\ e \in 1 .. n + 1 /\ n \in e - 1 .. n /\ c \in 1 .. n - e + 2
      /\ d \in c - 1 .. n - e + 1 /\ e + c - 1 = a + b + 1 /\ e + d - 1 = n
  <2> HIDE DEF n
  <2> QED
    BY <1>0
<1> HIDE DEF e, c, d, r
<1>5. SubSeq(SubSeq(v, e, n), c, d) = SubSeq(v, e + c - 1, e + d - 1)
  BY <1>4, PartOfPart
<1>6. SubSeq(r, c, d) = SubSeq(v, a + b + 1, n)
  BY <1>1, <1>4, <1>5 DEF e
<1>7. r # <<>>
  <2> HIDE DEF n
  <2> QED
    BY <1>0, <1>2
<1> QED
  BY <1>2, <1>3, <1>6, <1>7 DEF c, d, r

\* A number begins with a digit.
LEMMA AmountBegins ==
  ASSUME NEW n \in 0 .. 999 PROVE DigitsOf(n)[1] \in Digit
<1>1. \A e \in Seq(Digit) : Len(e) \in 1 .. 3 => e[1] \in Digit
  OBVIOUS
<1> QED
  BY <1>1, DigitsRead, ZenonT(60)

\* What arrives of a :34F:.
LEMMA Whole34f ==
  ASSUME NEW m, IsMeaning("34F", m), NEW w \in Seq(Ascii), Prefix(w, Encode("34F", m))
  PROVE  /\ Parse34f(w).ccy \in {<<>>, m.ccy} /\ Parse34f(w).dc \in {<<>>, m.dc}
         /\ w = Encode("34F", m) => /\ Parse34f(w).ccy = m.ccy /\ Parse34f(w).dc = m.dc
                                    /\ Parse34f(w).amount = <<m.digits>>
<1> DEFINE t == m.ccy dc == m.dc u == DigitsOf(m.digits) v == Encode("34F", m)
           c == IF dc = <<>> THEN u[1] ELSE dc[1]
           p == Len(dc)
           n == m.digits
           rest == GetFrom(w, 3)
<1>1. v = t \o dc \o u
  BY DEF Encode
<1>2. t \in Seq(Ascii) /\ Len(t) = 3
  <2>1. t \in Seq(Letter) /\ Len(t) = 3
    BY DEF IsMeaning
  <2> HIDE DEF t
  <2> QED
    BY <2>1, PartsAreAscii
<1>0. n \in 0 .. 999
  BY DEF IsMeaning
<1>3. u \in Seq(Ascii) /\ Len(u) \in 1 .. 3
  BY <1>0, AmountWritten, ZenonT(60)
<1>30. u[1] \in Digit
  BY <1>0, AmountBegins, ZenonT(60)
<1>31. ParseMtAmount(u) = <<n>>
  BY <1>0, AmountWritten, ZenonT(60)
<1>4. dc \in {<<>>, <<Credit>>, <<Debit>>}
  BY DEF IsMeaning
<1>5. Prefix(w, v)
  OBVIOUS
<1> HIDE DEF t, u, dc, n, v
<1>6. IsMark(dc, c)
  BY <1>30, <1>4 DEF IsMark
<1>7. dc \in Seq(Ascii) /\ p \in 0 .. 1
  <2>1. <<>> \in Seq(Ascii)
    OBVIOUS
  <2> QED
    BY <1>6, <2>1, MarkRead
<1>8. Three(v, t, dc, u, 3, 3 + p)
  <2>1. Three(t \o dc \o u, t, dc, u, Len(t), Len(t) + Len(dc))
    BY <1>2, <1>3, <1>7, ThreeParts, Zenon
  <2> QED
    BY <1>1, <1>2, <2>1
<1>9. /\ v \in Seq(Ascii) /\ Len(v) = 3 + p + Len(u) /\ SubSeq(v, 1, 3) = t
      /\ SubSeq(v, 3 + 1, 3 + p) = dc /\ SubSeq(v, 3 + p + 1, Len(v)) = u
  BY <1>8 DEF Three
<1>10. v[4] = c
  <2>1. CASE dc = <<>>
    <3>1. SubSeq(v, 4, 3 + Len(u)) = u
      BY <1>9, <2>1
    <3>2. SubSeq(v, 4, 3 + Len(u))[1] = v[4]
      BY <1>3, <1>7, <1>9
    <3> QED
      BY <1>3, <1>7, <1>9, <2>1, <3>1, <3>2
  <2>2. CASE dc # <<>>
    <3>1. p = 1
      BY <1>4, <2>2
    <3>2. SubSeq(v, 4, 4)[1] = v[4]
      BY <1>3, <1>9, <3>1
    <3> QED
      BY <1>3, <1>9, <2>2, <3>1, <3>2
  <2> QED
    BY <2>1, <2>2
<1> HIDE DEF p
<1>11. Get(w, 0, 3) = IF 3 <= Len(w) THEN SubSeq(v, 0 + 1, 3) ELSE <<>>
  <2>1. 0 \in Nat /\ 3 \in Nat /\ 0 <= 3
    OBVIOUS
  <2> QED
    BY <1>5, <1>9, <2>1, PartArrives, Zenon
<1>12. Get(w, 0, 3) = IF 3 <= Len(w) THEN t ELSE <<>>
  <2>1. 0 + 1 = 1
    OBVIOUS
  <2> QED
    BY <1>9, <1>11, <2>1
<1>13. rest \in Seq(Ascii) /\ (rest # <<>> => 3 + 1 \in 1 .. Len(w) /\ rest[1] = w[3 + 1])
  BY RestShape
<1>17. rest # <<>> => rest[1] = c
  <2> HIDE DEF rest, c
  <2>1. 3 + 1 = 4
    OBVIOUS
  <2> QED
    BY <1>5, <1>10, <1>13, <2>1 DEF Prefix
<1> HIDE DEF rest, c
<1>14. (rest # <<>> => FirstMark(rest) = dc) /\ (rest = <<>> => FirstMark(rest) = <<>>)
  BY <1>6, <1>13, <1>17, MarkRead
<1>15. /\ Parse34f(w).ccy = Get(w, 0, 3) /\ Parse34f(w).dc = FirstMark(rest)
       /\ Parse34f(w).amount = ParseMtAmount(GetFrom(rest, Len(FirstMark(rest))))
  BY DEF Parse34f, FirstMark, rest
<1>16. ASSUME w = v PROVE rest # <<>> /\ GetFrom(rest, p) = u
  <2> DEFINE l == Len(u) k == Len(v)
  <2>1. l \in 1 .. 3 /\ k = 3 + p + l /\ p \in 0 .. 1
    BY <1>3, <1>7, <1>9
  <2> HIDE DEF l, k
  <2>2. 3 \in Nat /\ p \in Nat /\ 3 + p < k
    BY <2>1
  <2>3. GetFrom(GetFrom(v, 3), p) = SubSeq(v, 3 + p + 1, Len(v)) /\ GetFrom(v, 3) # <<>>
    BY <1>9, <2>2, RestOfRest DEF k
  <2> QED
    BY <1>9, <1>16, <2>3 DEF rest
<1> QED
  <2>1. Parse34f(w).ccy \in {<<>>, t} /\ Parse34f(w).dc \in {<<>>, dc}
    BY <1>12, <1>14, <1>15
  <2>2. w = v => Parse34f(w).ccy = t
    BY <1>7, <1>9, <1>12, <1>15
  <2>3. w = v => Parse34f(w).dc = dc /\ Parse34f(w).amount = <<n>>
    BY <1>14, <1>15, <1>16, <1>31 DEF p
  <2> QED
    BY <2>1, <2>2, <2>3 DEF t, dc, n, v

\* The type of a :61:, when its text or a beginning arrives.
LEMMA Whole61 ==
  ASSUME NEW m, IsMeaning("61", m), NEW w \in Seq(Ascii), Prefix(w, Encode("61", m))
  PROVE  /\ SplitType(w).type \in {<<>>, m.type}
         /\ w = Encode("61", m) => SplitType(w) = m
<1> DEFINE t == m.type u == m.refs v == Encode("61", m)
<1>1. v = t \o u /\ m = [type |-> t, refs |-> u]
  BY DEF Encode, IsMeaning
<1>2. t \in Seq(Digit \cup Letter) /\ u \in Seq(Digit \cup Letter) /\ Len(t) = 4
      /\ t[1] \in TypeLetters
  BY DEF IsMeaning
<1>3. Prefix(w, v)
  OBVIOUS
<1> HIDE DEF t, u, v
<1>4. t \in Seq(Ascii) /\ u \in Seq(Ascii)
  BY <1>2, PartsAreAscii
<1>5. v \in Seq(Ascii) /\ Len(v) = Len(t) + Len(u)
  BY <1>1, <1>4, Concat
<1>6. Prefix(v, v)
  BY <1>5, PrefixOfItself
<1>7. Prefix(t, v) /\ SubSeq(v, Len(t) + 1, Len(t) + Len(u)) = u
  <2>1. Follows(v, t, u, Len(t), Len(u))
    BY <1>1, <1>4, <1>5, <1>6, NextFollows
  <2> QED
    BY <2>1 DEF Follows
<1>8. SubSeq(v, 1, Len(t)) = t
  BY <1>4, <1>5, <1>7, FirstPart
<1>9. Get(w, 0, 4) = IF 4 <= Len(w) THEN SubSeq(v, 0 + 1, 4) ELSE <<>>
  <2>1. 0 \in Nat /\ 4 \in Nat /\ 0 <= 4
    OBVIOUS
  <2> QED
    BY <1>3, <1>5, <2>1, PartArrives, Zenon
<1>10. Get(w, 0, 4) = IF 4 <= Len(w) THEN t ELSE <<>>
  <2>1. 0 + 1 = 1
    OBVIOUS
  <2> QED
    BY <1>2, <1>8, <1>9, <2>1
<1>11. Len(w) >= 4 => Sliceable(w, 0, 4)
  <2>1. w \in Seq(Byte) /\ Cont \notin ToSet(w)
    BY AsciiBytes
  <2>2. Len(w) >= 4 => 0 \in 0 .. Len(w) /\ 4 \in 0 .. Len(w)
    OBVIOUS
  <2>3. Len(w) >= 4 => Boundary(w, 0) /\ Boundary(w, 4)
    BY <2>1, <2>2, AllBoundaries
  <2> QED
    BY <2>3 DEF Sliceable
<1>12. CASE Len(w) >= 4 /\ w[1] \in TypeLetters
  <2>1. SplitType(w) = [type |-> Get(w, 0, 4), refs |-> GetFrom(w, 4)]
    BY <1>11, <1>12 DEF SplitType
  <2>2. Get(w, 0, 4) = t
    BY <1>10, <1>12
  <2>3. ASSUME w = v PROVE GetFrom(w, 4) = u
    <3>1. 4 \in Nat /\ 4 <= Len(v)
      BY <1>12, <2>3
    <3>2. GetFrom(v, 4) = SubSeq(v, 4 + 1, Len(v))
      BY <1>5, <3>1, RestArrives
    <3> QED
      BY <1>2, <1>5, <1>7, <2>3, <3>2
  <2>4. SplitType(w).type = t
    BY <2>1, <2>2
  <2> QED
    BY <1>1, <2>1, <2>2, <2>3, <2>4 DEF t, v
<1>13. CASE ~(Len(w) >= 4 /\ w[1] \in TypeLetters)
  <2>1. SplitType(w).type = <<>>
    BY <1>13 DEF SplitType
  <2>2. w # v
    <3> SUFFICES ASSUME w = v PROVE FALSE
      OBVIOUS
    <3>1. v[1] = t[1]
      BY <1>2, <1>7 DEF Prefix
    <3>2. Len(u) \in Nat /\ Len(v) >= 4
      BY <1>2, <1>4, <1>5
    <3> QED
      BY <1>2, <1>13, <3>1, <3>2
  <2> QED
    BY <2>1, <2>2 DEF v
<1> QED
  BY <1>12, <1>13

\* Where the digits end at the beginning of a text.
LEMMA DigitsEnd ==
  ASSUME NEW v \in Seq(Byte), NEW k \in 0 .. Len(v), \A p \in 1 .. k : v[p] \in Digit,
         k < Len(v) => v[k + 1] \notin Digit
  PROVE  FirstAt(v, LAMBDA c : c \notin Digit) = k + 1
<1> DEFINE I == {q \in 1 .. Len(v) : v[q] \notin Digit}
           r == FirstAt(v, LAMBDA c : c \notin Digit)
<1>1. r = IF (IF I # {} THEN Min(I) ELSE 0) = 0 THEN Len(v) + 1
          ELSE (IF I # {} THEN Min(I) ELSE 0)
  BY DEF FirstAt, SelectInSeq
<1>2. Len(v) \in Nat /\ I \in SUBSET (0 .. Len(v)) /\ I \subseteq Int
  OBVIOUS
<1> HIDE DEF r
<1>3. CASE k = Len(v)
  <2>1. I = {}
    BY <1>3
  <2> QED
    BY <1>1, <1>3, <2>1 DEF r
<1>4. CASE k < Len(v)
  <2>1. k + 1 \in I /\ \A q \in I : k + 1 <= q /\ q # 0
    BY <1>2, <1>4
  <2> HIDE DEF I
  <2>2. Min(I) \in I /\ \A q \in I : Min(I) <= q
    BY <1>2, <2>1, LeastOf
  <2>3. Min(I) = k + 1 /\ k + 1 # 0
    <3>1. Min(I) \in Int /\ k + 1 \in Int /\ Min(I) <= k + 1 /\ k + 1 <= Min(I)
      BY <1>2, <2>1, <2>2
    <3> QED
      BY <2>1, <3>1
  <2> QED
    BY <1>1, <2>1, <2>3 DEF r
<1> QED
  BY <1>2, <1>3, <1>4

\* A currency begins with a letter.
LEMMA FirstLetter ==
  ASSUME NEW s \in Seq(Letter), Len(s) = 3 PROVE s[1] \in Letter /\ s \in Seq(Ascii)
<1>1. s[1] \in Letter
  OBVIOUS
<1> QED
  BY <1>1, PartsAreAscii

\* What arrives of a :90D:.
LEMMA Whole90d ==
  ASSUME NEW m, IsMeaning("90D", m), NEW w \in Seq(Ascii), Prefix(w, Encode("90D", m))
  PROVE  /\ Parse90(w).ccy \in {<<>>, m.ccy}
         /\ w = Encode("90D", m) =>
              /\ Parse90(w).ccy = m.ccy /\ Parse90(w).amount = <<m.digits>>
              /\ Parse90(w).count = IF m.count <= MaxInt32 THEN <<m.count>> ELSE <<>>
<1> DEFINE s == DigitsOf(m.count) t == m.ccy u == DigitsOf(m.digits) v == Encode("90D", m)
           x == t \o u l == Len(s) n == Len(w)
           f == FirstAt(w, LAMBDA c : c \notin Digit)
           sum == ParseCcyAmount(SubSeq(w, f - 1 + 1, n))
<1>1. v = s \o t \o u
  BY DEF Encode
<1>2. m.count \in 0 .. 999 /\ m.digits \in 0 .. 999
  BY DEF IsMeaning
<1>3. s \in Seq(Digit) /\ l \in 1 .. 3 /\ s \in Seq(Ascii)
  BY <1>2, DigitsRead, AmountWritten, ZenonT(60)
<1>4. NumberOf(s) = m.count
  BY <1>2, DigitsRead, ZenonT(60)
<1>5. u \in Seq(Ascii) /\ Len(u) \in 1 .. 3
  BY <1>2, AmountWritten, ZenonT(60)
<1>6. t \in Seq(Letter) /\ Len(t) = 3
  BY DEF IsMeaning
<1>7. Prefix(w, v)
  OBVIOUS
<1>0. /\ Parse90(w).ccy = sum.ccy /\ Parse90(w).amount = sum.amount
      /\ Parse90(w).count = LET k == f - 1 IN IF k > 0 /\ NumberOf(SubSeq(w, 1, k)) <= MaxInt32
                            THEN <<NumberOf(SubSeq(w, 1, k))>> ELSE <<>>
  BY DEF Parse90
<1> HIDE DEF s, t, v, f
<1>8. t \in Seq(Ascii) /\ t[1] \in Letter
  BY <1>6, FirstLetter, Zenon
<1>9. x \in Seq(Ascii) /\ Len(x) = Len(t) + Len(u) /\ x[1] = t[1]
  <2> HIDE DEF u
  <2>1. x \in Seq(Ascii) /\ Len(x) = Len(t) + Len(u) /\ \A p \in 1 .. Len(t) : x[p] = t[p]
    BY <1>5, <1>8, Concat, Zenon
  <2> HIDE DEF x
  <2>2. 1 \in 1 .. 3
    OBVIOUS
  <2> QED
    BY <1>6, <2>1, <2>2, Zenon
<1>10. v = s \o x
  <2> HIDE DEF u
  <2>1. s \o t \o u = s \o (t \o u)
    <3>1. s \in Seq(Ascii) /\ t \in Seq(Ascii) /\ u \in Seq(Ascii)
      BY <1>3, <1>5, <1>8
    <3> QED
      BY <3>1, ConcatAssociates
  <2> QED
    BY <1>1, <2>1, Zenon
<1>101. \A r \in Seq(Ascii) : Prefix(r, x) => SumRead(r, x, t, m.digits)
  BY <1>2, <1>6, <1>8, Whole33b, ZenonT(60)
<1> HIDE DEF u, x
<1>11. v \in Seq(Ascii) /\ Len(v) = l + Len(x)
  BY <1>3, <1>9, <1>10, Concat
<1>12. Prefix(v, v)
  BY <1>11, PrefixOfItself
<1>13. Prefix(s, v) /\ SubSeq(v, l + 1, l + Len(x)) = x
  <2>1. Follows(v, s, x, l, Len(x))
    BY <1>3, <1>9, <1>10, <1>12, <1>11, NextFollows
  <2> QED
    BY <2>1 DEF Follows
<1>14. SubSeq(v, 1, l) = s
  BY <1>3, <1>11, <1>13, FirstPart
<1>15. w \in Seq(Byte)
  BY AsciiBytes
<1>16. n \in Nat /\ l \in Nat /\ (\A p \in 1 .. n : p \in 1 .. l => w[p] \in Digit)
  <2>1. \A p \in 1 .. l : s[p] \in Digit
    BY <1>3
  <2> QED
    BY <1>3, <1>7, <1>13, <2>1 DEF Prefix
<1>17. v[l + 1] \in Letter
  <2>1. SubSeq(v, l + 1, l + Len(x))[1] = v[l + 1]
    <3> DEFINE k == Len(x)
    <3>1. k \in Nat /\ k >= 1
      BY <1>5, <1>6, <1>9
    <3> HIDE DEF k, l
    <3>2. Len(v) = l + k
      BY <1>11 DEF k
    <3>3. SubSeq(v, l + 1, l + k)[1] = v[l + 1]
      BY <1>11, <1>16, <3>1, <3>2
    <3> QED
      BY <3>3 DEF k
  <2> QED
    BY <1>8, <1>9, <1>13, <2>1
<1> HIDE DEF l, n
<1>18. CASE n <= l
  <2>1. f = n + 1
    <3>1. n \in 0 .. n /\ (\A p \in 1 .. n : w[p] \in Digit) /\ ~(n < n)
      BY <1>16, <1>18
    <3> QED
      BY <1>15, <3>1, DigitsEnd DEF f, n
  <2>2. SubSeq(w, f - 1 + 1, n) = <<>>
    BY <1>16, <2>1 DEF n
  <2>3. sum.ccy = Get(<<>>, 0, 3)
    BY <2>2 DEF ParseCcyAmount
  <2>4. Get(<<>>, 0, 3) = <<>>
    <3>1. 0 \in Nat /\ 3 \in Nat /\ 0 <= 3 /\ <<>> \in Seq(Ascii) /\ ~(3 <= Len(<<>>))
      OBVIOUS
    <3> QED
      BY <3>1, GetOfAscii, Zenon
  <2>5. w # v
    <3> DEFINE k == Len(x)
    <3>1. k \in Nat /\ k >= 1
      BY <1>5, <1>6, <1>9
    <3> HIDE DEF k
    <3>2. Len(v) = l + k
      BY <1>11 DEF k
    <3> QED
      BY <1>16, <1>18, <3>1, <3>2 DEF n
  <2> QED
    BY <1>0, <2>3, <2>4, <2>5 DEF v
<1>19. CASE l < n
  <2>1. l + 1 \in 1 .. n /\ w[l + 1] \notin Digit
    <3>1. l + 1 \in 1 .. n
      BY <1>16, <1>19
    <3>2. w[l + 1] = v[l + 1]
      BY <1>7, <3>1 DEF Prefix, n
    <3> QED
      BY <1>17, <3>1, <3>2, AsciiIs
  <2>2. f = l + 1
    <3>1. l \in 0 .. n /\ \A p \in 1 .. l : w[p] \in Digit
      BY <1>16, <1>19
    <3> QED
      BY <1>15, <2>1, <3>1, DigitsEnd DEF f, n
  <2>3. f - 1 = l /\ f - 1 + 1 = l + 1
    BY <1>16, <2>2
  <2> DEFINE r == SubSeq(w, l + 1, n)
  <2>4. r \in Seq(Ascii) /\ Prefix(r, SubSeq(v, l + 1, Len(v)))
    <3>1. l <= n
      BY <1>16, <1>19
    <3> QED
      BY <1>7, <1>11, <1>16, <3>1, RestLeft DEF n
  <2>5. Prefix(r, x) /\ (w = v => r = x)
    <3>1. SubSeq(v, l + 1, Len(v)) = x
      BY <1>11, <1>13
    <3> QED
      BY <2>4, <3>1 DEF n
  <2> HIDE DEF r
  <2>6. sum = ParseCcyAmount(r)
    BY <2>3 DEF r
  <2>7. sum.ccy \in {<<>>, t} /\ (w = v => sum.ccy = t /\ sum.amount = <<m.digits>>)
    BY <1>101, <2>4, <2>5, <2>6 DEF SumRead
  <2>8. ASSUME w = v
        PROVE  Parse90(w).count = IF m.count <= MaxInt32 THEN <<m.count>> ELSE <<>>
    <3>1. SubSeq(w, 1, f - 1) = s /\ f - 1 > 0
      BY <1>3, <1>14, <2>3, <2>8
    <3> QED
      BY <1>0, <1>4, <3>1
  <2> QED
    BY <1>0, <2>7, <2>8 DEF t, v
<1> QED
  BY <1>16, <1>18, <1>19

\* A text of n one-byte characters, and one more after it.
Long(v, n) == v \in Seq(Ascii) /\ n \in Nat /\ Len(v) = n

\* One more part of known length.
LEMMA OneMore ==
  ASSUME NEW x, NEW t, NEW a, NEW b, Long(x, a), Long(t, b)
  PROVE  Long(x \o t, a + b)
<1>1. x \in Seq(Ascii) /\ t \in Seq(Ascii) /\ Len(x) = a /\ Len(t) = b /\ a \in Nat /\ b \in Nat
  BY DEF Long
<1>2. x \o t \in Seq(Ascii) /\ Len(x \o t) = Len(x) + Len(t)
  BY <1>1, Concat, Zenon
<1> QED
  BY <1>1, <1>2 DEF Long

\* The part before the last, in a cut-off text.
LEMMA OneBefore ==
  ASSUME NEW v \in Seq(Ascii), NEW x, NEW t, NEW a, NEW b, Long(x, a), Long(t, b),
         Prefix(x \o t, v)
  PROVE  Follows(v, x, t, a, b)
<1>1. x \in Seq(Ascii) /\ t \in Seq(Ascii) /\ Len(x) = a /\ Len(t) = b
  BY DEF Long
<1>2. Prefix(x, v) /\ SubSeq(v, Len(x) + 1, Len(x) + Len(t)) = t
  BY <1>1, NextPart, Zenon
<1> QED
  BY <1>1, <1>2 DEF Follows



\* An hour or a minute is read from its two digits.
LEMMA TwoDigitsReadAs ==
  ASSUME NEW n \in 0 .. 59
  PROVE  /\ TwoDigits(n) \in Seq(Ascii) /\ Len(TwoDigits(n)) = 2
         /\ AllIn(TwoDigits(n), Digit) /\ NumberOf(TwoDigits(n)) = n
<1>1. n \in 0 .. 99
  OBVIOUS
<1>2. TwoDigits(n) \in Seq(Digit) /\ Len(TwoDigits(n)) = 2 /\ NumberOf(TwoDigits(n)) = n
  BY <1>1, TwoDigitsRead
<1> QED
  BY <1>2, PartsAreAscii, AllOfThem

\* The parts of a :13D: stand where they are read.
Six(v, s, h, m, g, e, f) ==
  /\ v \in Seq(Ascii) /\ Len(v) = 15
  /\ SubSeq(v, 1, 6) = s /\ SubSeq(v, 7, 8) = h /\ SubSeq(v, 9, 10) = m
  /\ SubSeq(v, 11, 11) = g /\ SubSeq(v, 12, 13) = e /\ SubSeq(v, 14, 15) = f

\* Where each of the six parts of :13D: stands.
LEMMA SixParts ==
  ASSUME NEW s, NEW h, NEW m, NEW g, NEW e, NEW f,
         Long(s, 6), Long(h, 2), Long(m, 2), Long(g, 1), Long(e, 2), Long(f, 2)
  PROVE  Six(s \o h \o m \o g \o e \o f, s, h, m, g, e, f)
<1> DEFINE a == s \o h b == a \o m c == b \o g d == c \o e v == d \o f
<1>0. /\ 6 + 2 = 8 /\ 8 + 2 = 10 /\ 10 + 1 = 11 /\ 11 + 2 = 13 /\ 13 + 2 = 15
      /\ 6 + 1 = 7 /\ 8 + 1 = 9 /\ 11 + 1 = 12 /\ 13 + 1 = 14
  OBVIOUS
<1>1. Long(a, 6 + 2)
  BY OneMore
<1> HIDE DEF a
<1>2. Long(b, 8 + 2)
  BY <1>0, <1>1, OneMore
<1> HIDE DEF b
<1>3. Long(c, 10 + 1)
  BY <1>0, <1>2, OneMore
<1> HIDE DEF c
<1>4. Long(d, 11 + 2)
  BY <1>0, <1>3, OneMore
<1> HIDE DEF d
<1>5. Long(v, 13 + 2)
  BY <1>0, <1>4, OneMore
<1>6. v \in Seq(Ascii) /\ Len(v) = 15
  BY <1>5 DEF Long
<1>7. Prefix(d \o f, v)
  BY <1>6, PrefixOfItself
<1> HIDE DEF v
<1>8. Follows(v, d, f, 13, 2)
  BY <1>0, <1>4, <1>6, <1>7, OneBefore
<1>9. Follows(v, c, e, 11, 2)
  <2>1. Prefix(c \o e, v)
    BY <1>8 DEF Follows, d
  <2> QED
    BY <1>0, <1>3, <1>6, <2>1, OneBefore
<1>10. Follows(v, b, g, 10, 1)
  <2>1. Prefix(b \o g, v)
    BY <1>9 DEF Follows, c
  <2> QED
    BY <1>0, <1>2, <1>6, <2>1, OneBefore
<1>11. Follows(v, a, m, 8, 2)
  <2>1. Prefix(a \o m, v)
    BY <1>10 DEF Follows, b
  <2> QED
    BY <1>0, <1>1, <1>6, <2>1, OneBefore
<1>12. Follows(v, s, h, 6, 2)
  <2>1. Prefix(s \o h, v)
    BY <1>11 DEF Follows, a
  <2> QED
    BY <1>6, <2>1, OneBefore
<1>13. SubSeq(v, 1, 6) = s
  <2>1. SubSeq(v, 1, Len(s)) = s
    BY <1>6, <1>12, FirstPart, Zenon DEF Long, Follows
  <2> QED
    BY <2>1 DEF Long
<1>14. Six(v, s, h, m, g, e, f)
  BY <1>0, <1>6, <1>8, <1>9, <1>10, <1>11, <1>12, <1>13 DEF Six, Follows
<1> QED
  BY <1>14 DEF v, d, c, b, a

\* A :13D: of numbers in their ranges, in any zone.
UtcMinutes(h, n, sign, a, b) ==
  60 * h + n - (IF sign = <<Minus>> THEN -1 ELSE 1) * (60 * a + b)

\* The time a :13D: says, from its parts.
LEMMA MomentRead ==
  ASSUME NEW d, NEW h, h \in 0 .. 23, NEW n, n \in 0 .. 59, NEW a, a \in 0 .. 23,
         NEW b, b \in 0 .. 59, NEW sign
  PROVE  Moment(d, h, n, Offset(sign, a, b)) =
           [date |-> d, minutes |-> UtcMinutes(h, n, sign, a, b)]
<1> DEFINE o == Offset(sign, a, b)
<1>1. o \in -1439 .. 1439 /\ 60 * h + n - o = UtcMinutes(h, n, sign, a, b)
  <2>1. CASE sign = <<Minus>>
    <3>1. o = -(60 * a + b)
      BY <2>1 DEF Offset
    <3> HIDE DEF o
    <3> QED
      BY <2>1, <3>1 DEF UtcMinutes
  <2>2. CASE sign # <<Minus>>
    <3>1. o = 60 * a + b
      BY <2>2 DEF Offset
    <3> HIDE DEF o
    <3> QED
      BY <2>2, <3>1 DEF UtcMinutes
  <2> QED
    BY <2>1, <2>2
<1> HIDE DEF o
<1>2. h < 24 /\ n < 60
  OBVIOUS
<1> QED
  BY <1>1, <1>2 DEF Moment, o

\* Its six parts are all sliced and all parsed.
LEMMA SixRead ==
  ASSUME NEW v, NEW s, NEW h, NEW m, NEW g, NEW e, NEW f, Six(v, s, h, m, g, e, f),
         ParseDate(s) # None, AllIn(h, Digit), AllIn(m, Digit), AllIn(e, Digit), AllIn(f, Digit)
  PROVE  Parse13d(v) = Moment(ParseDate(s), NumberOf(h), NumberOf(m),
                              Offset(g, NumberOf(e), NumberOf(f)))
<1> DEFINE bad == {k \in 1 .. 6 : ~Sliceable(v, Parts13d[k][1], Parts13d[k][2])}
           mal == {k \in 1 .. 6 \ ({4} \cup bad) :
                        IF k = 1 THEN ParseDate(Part13d(v, k)) = None
                        ELSE ~AllIn(Part13d(v, k), Digit)}
<1>1. v \in Seq(Ascii) /\ Len(v) = 15
  BY DEF Six
<1>2. v \in Seq(Byte) /\ Cont \notin ToSet(v)
  BY <1>1, AsciiBytes
<1>3. bad = {}
  <2>1. \A p \in 0 .. 15 : Boundary(v, p)
    BY <1>1, <1>2, AllBoundaries
  <2>2. ASSUME NEW k \in 1 .. 6
        PROVE  /\ Parts13d[k][1] \in 0 .. 15 /\ Parts13d[k][2] \in 0 .. 15
               /\ Parts13d[k][1] <= Parts13d[k][2]
    BY DEF Parts13d
  <2> QED
    BY <2>1, <2>2 DEF Sliceable
<1> HIDE DEF bad
<1>4. /\ Part13d(v, 1) = s /\ Part13d(v, 2) = h /\ Part13d(v, 3) = m
      /\ Part13d(v, 4) = g /\ Part13d(v, 5) = e /\ Part13d(v, 6) = f
  BY DEF Part13d, Parts13d, Six
<1>5. mal = {}
  <2> SUFFICES ASSUME NEW k \in 1 .. 6, k # 4
               PROVE  ~(IF k = 1 THEN ParseDate(Part13d(v, k)) = None
                        ELSE ~AllIn(Part13d(v, k), Digit))
    BY Zenon
  <2>1. k = 1 \/ k = 2 \/ k = 3 \/ k = 5 \/ k = 6
    OBVIOUS
  <2> QED
    BY <1>4, <2>1
<1> HIDE DEF mal
<1>6. LongEnough13d(v)
  BY <1>1 DEF LongEnough13d
<1>7. bad \cup mal = {}
  BY <1>3, <1>5
<1> QED
  BY <1>4, <1>6, <1>7, Zenon DEF Parse13d, bad, mal

\* What arrives of a :13D:.
LEMMA Whole13d ==
  ASSUME NEW m, IsMeaning("13D", m), NEW v, v = Encode("13D", m)
  PROVE  /\ v \in Seq(Ascii) /\ Len(v) = 15
         /\ Parse13d(v) = [date |-> m.date, minutes |-> MeantMinutes(m)]
<1> DEFINE d == m.date hh == m.hour nn == m.minute g == m.sign a == m.east[1] b == m.east[2]
           s == Yymmdd(d) h == TwoDigits(hh) n == TwoDigits(nn)
           e == TwoDigits(a) f == TwoDigits(b)
<1>1. v = s \o h \o n \o g \o e \o f
  BY DEF Encode
<1>2. s \in Seq(Digit) /\ Len(s) = 6 /\ ParseDate(s) = d /\ d # None
  <2>1. IsDate(m.date) /\ m.date.year \in 1950 .. 2049
    BY DEF IsMeaning
  <2> QED
    BY <2>1, DateRead
<1>3. hh \in 0 .. 23 /\ nn \in 0 .. 59 /\ g \in {<<Plus>>, <<Minus>>}
  BY DEF IsMeaning
<1>4. a \in 0 .. 23 /\ b \in 0 .. 59
  <2>1. m.east \in (0 .. 23) \X (0 .. 59)
    BY DEF IsMeaning
  <2> QED
    BY <2>1
<1>5. MeantMinutes(m) = UtcMinutes(hh, nn, g, a, b)
  BY DEF MeantMinutes, UtcMinutes
<1> HIDE DEF d, hh, nn, g, a, b
<1>6. /\ Long(h, 2) /\ AllIn(h, Digit) /\ NumberOf(h) = hh
      /\ Long(n, 2) /\ AllIn(n, Digit) /\ NumberOf(n) = nn
      /\ Long(e, 2) /\ AllIn(e, Digit) /\ NumberOf(e) = a
      /\ Long(f, 2) /\ AllIn(f, Digit) /\ NumberOf(f) = b
  <2>1. hh \in 0 .. 59 /\ a \in 0 .. 59 /\ 2 \in Nat
    BY <1>3, <1>4
  <2> QED
    BY <1>3, <1>4, <2>1, TwoDigitsReadAs DEF Long
<1> HIDE DEF s, h, n, e, f
<1>7. Long(s, 6)
  BY <1>2, PartsAreAscii DEF Long
<1>8. Long(g, 1)
  <2>1. Plus \in Ascii /\ Minus \in Ascii
    BY AsciiIs
  <2> QED
    <3>1. \A c \in Ascii : Long(<<c>>, 1)
      BY DEF Long
    <3> QED
      BY <1>3, <2>1, <3>1
<1>9. Six(v, s, h, n, g, e, f)
  BY <1>1, <1>6, <1>7, <1>8, SixParts
<1>10. Parse13d(v) = Moment(d, hh, nn, Offset(g, a, b))
  BY <1>2, <1>6, <1>9, SixRead
<1>11. Moment(d, hh, nn, Offset(g, a, b)) =
         [date |-> d, minutes |-> UtcMinutes(hh, nn, g, a, b)]
  BY <1>3, <1>4, MomentRead, Zenon
<1>12. v \in Seq(Ascii) /\ Len(v) = 15
  BY <1>9 DEF Six
<1> QED
  BY <1>5, <1>10, <1>11, <1>12 DEF d

\* Digits have no blanks at their ends.
LEMMA TrimOfDigits == ASSUME NEW v \in Seq(Digit) PROVE Trim(v) = v
<1>1. v \in Seq(Byte) /\ \A p \in 1 .. Len(v) : v[p] # Blank
  <2>1. v \in Seq(Byte)
    BY AsciiBytes, PartsAreAscii
  <2>2. \A p \in 1 .. Len(v) : v[p] \in Digit
    OBVIOUS
  <2> QED
    BY <2>1, <2>2, AsciiIs
<1>2. CASE Len(v) = 0
  <2>0. \A p \in 1 .. Len(v) : v[p] = Blank
    BY <1>2
  <2>1. Trim(v) = <<>>
    BY <1>1, <2>0, TrimBlank, Zenon
  <2>2. v = <<>>
    BY <1>2
  <2> QED
    BY <2>1, <2>2
<1>3. CASE Len(v) > 0
  <2>1. Encloses(v, 1, Len(v))
    BY <1>1, <1>3 DEF Encloses
  <2>2. Trim(v) = SubSeq(v, 1, Len(v))
    BY <1>1, <2>1, TrimIs
  <2> QED
    BY <2>2
<1> QED
  BY <1>2, <1>3

\* Where the first slash stands.
LEMMA SlashStands ==
  ASSUME NEW v \in Seq(Byte), NEW k \in 0 .. Len(v), \A p \in 1 .. k : v[p] # Slash,
         k < Len(v) => v[k + 1] = Slash
  PROVE  FirstAt(v, LAMBDA c : c = Slash) = k + 1
<1> DEFINE I == {q \in 1 .. Len(v) : v[q] = Slash}
           r == FirstAt(v, LAMBDA c : c = Slash)
<1>1. r = IF (IF I # {} THEN Min(I) ELSE 0) = 0 THEN Len(v) + 1
          ELSE (IF I # {} THEN Min(I) ELSE 0)
  BY DEF FirstAt, SelectInSeq
<1>2. Len(v) \in Nat /\ I \in SUBSET (0 .. Len(v)) /\ I \subseteq Int
  OBVIOUS
<1> HIDE DEF r
<1>3. CASE k = Len(v)
  <2>1. I = {}
    BY <1>3
  <2> QED
    BY <1>1, <1>3, <2>1 DEF r
<1>4. CASE k < Len(v)
  <2>1. k + 1 \in I /\ \A q \in I : k + 1 <= q /\ q # 0
    BY <1>2, <1>4
  <2> HIDE DEF I
  <2>2. Min(I) \in I /\ \A q \in I : Min(I) <= q
    BY <1>2, <2>1, LeastOf
  <2>3. Min(I) = k + 1 /\ k + 1 # 0
    <3>1. Min(I) \in Int /\ k + 1 \in Int /\ Min(I) <= k + 1 /\ k + 1 <= Min(I)
      BY <1>2, <2>1, <2>2
    <3> QED
      BY <2>1, <3>1
  <2> QED
    BY <1>1, <2>1, <2>3 DEF r
<1> QED
  BY <1>2, <1>3, <1>4

\* A :28C: that arrives whole.
LEMMA Whole28c ==
  ASSUME NEW m, IsMeaning("28C", m), NEW v, v = Encode("28C", m)
  PROVE  Split28c(v) = m
<1> DEFINE s == m.number t == m.sequence l == Len(s)
           u == IF t = <<>> THEN <<>> ELSE <<Slash>> \o t
           f == FirstAt(v, LAMBDA c : c = Slash)
<1>1. v = s \o u /\ m = [number |-> s, sequence |-> t]
  BY DEF Encode, IsMeaning
<1>2. s \in Seq(Digit) /\ t \in Seq(Digit)
  BY DEF IsMeaning
<1>3. Split28c(v) = [number |-> Trim(SubSeq(v, 1, f - 1)), sequence |-> Trim(SubSeq(v, f + 1, Len(v)))]
  BY DEF Split28c
<1> HIDE DEF s, t, f
<1>4. s \in Seq(Ascii) /\ t \in Seq(Ascii)
  BY <1>2, PartsAreAscii
<1>5. /\ u \in Seq(Ascii) /\ (t = <<>> => u = <<>>)
      /\ t # <<>> => Len(u) = Len(t) + 1 /\ u[1] = Slash /\ \A p \in 1 .. Len(t) : u[p + 1] = t[p]
  <2>1. CASE t = <<>>
    BY <2>1
  <2>2. CASE t # <<>>
    <3>1. Slash \in Ascii
      BY AsciiIs
    <3> DEFINE b == <<Slash>>
    <3>2. b \in Seq(Ascii) /\ Len(b) = 1 /\ b[1] = Slash
      BY <3>1
    <3>3. u = b \o t
      BY <2>2
    <3> HIDE DEF b, u
    <3>4. /\ b \o t \in Seq(Ascii) /\ Len(b \o t) = Len(b) + Len(t)
          /\ (\A p \in 1 .. Len(b) : (b \o t)[p] = b[p])
          /\ \A p \in Len(b) + 1 .. Len(b) + Len(t) : (b \o t)[p] = t[p - Len(b)]
      BY <1>4, <3>2, Concat, Zenon
    <3>5. Len(u) = Len(t) + 1 /\ u[1] = Slash
      BY <1>4, <3>2, <3>3, <3>4
    <3>6. ASSUME NEW p \in 1 .. Len(t) PROVE u[p + 1] = t[p]
      <4>1. p + 1 \in 1 + 1 .. 1 + Len(t) /\ p + 1 - 1 = p
        BY <1>4
      <4> QED
        BY <3>2, <3>3, <3>4, <4>1
    <3> QED
      BY <2>2, <3>3, <3>4, <3>5, <3>6
  <2> QED
    BY <2>1, <2>2
<1> HIDE DEF u
<1>6. /\ v \in Seq(Ascii) /\ Len(v) = l + Len(u)
      /\ (\A p \in 1 .. l : v[p] = s[p])
      /\ \A p \in 1 .. Len(u) : v[l + p] = u[p]
  <2>1. /\ s \o u \in Seq(Ascii) /\ Len(s \o u) = Len(s) + Len(u)
        /\ (\A p \in 1 .. Len(s) : (s \o u)[p] = s[p])
        /\ \A p \in Len(s) + 1 .. Len(s) + Len(u) : (s \o u)[p] = u[p - Len(s)]
    BY <1>4, <1>5, Concat, ZenonT(60)
  <2> DEFINE k == Len(u)
  <2>2. l \in Nat /\ k \in Nat /\ \A p \in l + 1 .. l + k : v[p] = u[p - l]
    BY <1>1, <1>4, <1>5, <2>1
  <2> HIDE DEF l, k
  <2>3. ASSUME NEW p \in 1 .. k PROVE v[l + p] = u[p]
    <3>1. l + p \in l + 1 .. l + k /\ l + p - l = p
      BY <2>2
    <3> QED
      BY <2>2, <3>1
  <2> QED
    BY <1>1, <2>1, <2>3 DEF l, k
<1>7. v \in Seq(Byte) /\ l \in Nat /\ Len(u) \in Nat
  BY <1>4, <1>5, <1>6, AsciiBytes
<1>8. \A p \in 1 .. l : v[p] # Slash
  <2>1. \A p \in 1 .. l : s[p] \in Digit
    BY <1>2
  <2> QED
    BY <1>6, <2>1, AsciiIs
<1>9. SubSeq(v, 1, l) = s
  <2>1. Prefix(s, v)
    BY <1>6, <1>7 DEF Prefix
  <2> QED
    BY <1>4, <1>6, <2>1, FirstPart
<1> DEFINE k == Len(u) n == Len(v)
<1>10. f = l + 1
  <2>1. l \in 0 .. Len(v)
    <3> HIDE DEF l
    <3> QED
      BY <1>6, <1>7
  <2>2. l < Len(v) => v[l + 1] = Slash
    <3> SUFFICES ASSUME l < Len(v) PROVE v[l + 1] = Slash
      OBVIOUS
    <3>0. n = l + k /\ l \in Nat /\ k \in Nat /\ l < n
      BY <1>6, <1>7
    <3> HIDE DEF l, n, k
    <3>1. k > 0
      BY <3>0
    <3>2. u[1] = Slash
      BY <1>5, <3>1 DEF k
    <3>3. 1 \in 1 .. k
      BY <3>0, <3>1
    <3> QED
      BY <1>6, <3>2, <3>3 DEF k
  <2> QED
    BY <1>7, <1>8, <2>1, <2>2, SlashStands DEF f
<1>11. SubSeq(v, f - 1 + 2, Len(v)) = t
  <2>0. n = l + k /\ l \in Nat /\ k \in Nat /\ f - 1 + 2 = l + 2
    BY <1>6, <1>7, <1>10
  <2>1. CASE t = <<>>
    <3>1. k = 0
      BY <1>5, <2>1
    <3> HIDE DEF k, l, n
    <3>2. n < l + 2
      BY <2>0, <3>1
    <3>3. SubSeq(v, l + 2, n) = <<>>
      BY <2>0, <3>2
    <3> QED
      BY <2>0, <2>1, <3>3 DEF n
  <2>2. CASE t # <<>>
    <3> DEFINE j == Len(t) w == SubSeq(v, l + 2, n)
    <3>1. k = j + 1 /\ j \in Nat /\ \A p \in 1 .. j : u[p + 1] = t[p]
      BY <1>4, <1>5, <2>2
    <3> HIDE DEF j, l, k
    <3>2. w \in Seq(Ascii) /\ Len(w) = j /\ \A p \in 1 .. j : w[p] = v[l + 1 + p]
      <4>1. n = l + 1 + j
        BY <2>0, <3>1
      <4> HIDE DEF n
      <4>3. n = Len(v) /\ v \in Seq(Ascii)
        BY <1>6 DEF n
      <4>2. /\ SubSeq(v, l + 2, n) \in Seq(Ascii) /\ Len(SubSeq(v, l + 2, n)) = j
            /\ \A p \in 1 .. j : SubSeq(v, l + 2, n)[p] = v[l + 1 + p]
        BY <2>0, <3>1, <4>1, <4>3
      <4> QED
        BY <4>2
    <3> HIDE DEF w, n
    <3>3. ASSUME NEW p \in 1 .. j PROVE w[p] = t[p]
      <4>1. p + 1 \in 1 .. k /\ l + 1 + p = l + (p + 1)
        BY <2>0, <3>1
      <4>2. v[l + 1 + p] = u[p + 1]
        BY <1>6, <4>1 DEF k
      <4> QED
        BY <3>1, <3>2, <4>2
    <3>4. w = t
      BY <1>4, <3>2, <3>3 DEF j
    <3> QED
      BY <2>0, <3>4 DEF w, n
  <2> QED
    BY <2>1, <2>2
<1>12. Trim(s) = s /\ Trim(t) = t
  BY <1>2, TrimOfDigits
<1>13. f - 1 = l /\ f + 1 = f - 1 + 2
  BY <1>7, <1>10
<1> QED
  BY <1>1, <1>3, <1>9, <1>11, <1>12, <1>13

\* What is written of these kinds has one byte for each character.
LEMMA EncodedIsAscii ==
  ASSUME NEW kind, kind \in {"32A", "33B", "34F", "90D", "13D", "61"}, NEW m,
         IsMeaning(kind, m)
  PROVE  Encode(kind, m) \in Seq(Ascii)
<1>0. \A x, y \in Seq(Ascii) : x \o y \in Seq(Ascii)
  BY Concat
<1>1. CASE kind \in {"32A", "33B", "34F", "90D"}
  <2>1. m.digits \in 0 .. 999 /\ m.ccy \in Seq(Letter)
    BY <1>1 DEF IsMeaning
  <2>2. DigitsOf(m.digits) \in Seq(Ascii)
    BY <2>1, AmountWritten, Zenon
  <2>3. m.ccy \in Seq(Ascii)
    BY <2>1, PartsAreAscii, Zenon
  <2>4. CASE kind = "32A"
    <3>1. IsDate(m.date) /\ m.date.year \in 1950 .. 2049
      BY <2>4 DEF IsMeaning
    <3>2. Yymmdd(m.date) \in Seq(Ascii)
      BY <3>1, DateWritten
    <3>3. Encode(kind, m) = Yymmdd(m.date) \o m.ccy \o DigitsOf(m.digits)
      BY <2>4 DEF Encode
    <3> QED
      BY <1>0, <2>2, <2>3, <3>2, <3>3, Zenon
  <2>5. CASE kind = "33B"
    <3>1. Encode(kind, m) = m.ccy \o DigitsOf(m.digits)
      BY <2>5 DEF Encode
    <3> QED
      BY <1>0, <2>2, <2>3, <3>1, Zenon
  <2>6. CASE kind = "34F"
    <3>1. Encode(kind, m) = m.ccy \o m.dc \o DigitsOf(m.digits)
      BY <2>6 DEF Encode
    <3>2. m.dc \in {<<>>, <<Credit>>, <<Debit>>}
      BY <2>6 DEF IsMeaning
    <3>3. m.dc \in Seq(Ascii)
      <4>1. Credit \in Ascii /\ Debit \in Ascii
        BY AsciiIs
      <4>2. \A c \in Ascii : <<c>> \in Seq(Ascii)
        OBVIOUS
      <4>3. <<>> \in Seq(Ascii)
        OBVIOUS
      <4> QED
        BY <3>2, <4>1, <4>2, <4>3, Zenon
    <3> QED
      BY <1>0, <2>2, <2>3, <3>1, <3>3, Zenon
  <2>7. CASE kind = "90D"
    <3>1. Encode(kind, m) = DigitsOf(m.count) \o m.ccy \o DigitsOf(m.digits)
      BY <2>7 DEF Encode
    <3>2. m.count \in 0 .. 999
      BY <2>7 DEF IsMeaning
    <3>3. DigitsOf(m.count) \in Seq(Ascii)
      BY <3>2, AmountWritten, ZenonT(60)
    <3> QED
      BY <1>0, <2>2, <2>3, <3>1, <3>3, Zenon
  <2> QED
    BY <1>1, <2>4, <2>5, <2>6, <2>7
<1>2. CASE kind = "13D"
  BY <1>2, Whole13d
<1>3. CASE kind = "61"
  <2>1. m.type \in Seq(Digit \cup Letter) /\ m.refs \in Seq(Digit \cup Letter)
    BY <1>3 DEF IsMeaning
  <2>2. Encode(kind, m) = m.type \o m.refs
    BY <1>3 DEF Encode
  <2> QED
    BY <1>0, <2>1, <2>2, PartsAreAscii, Zenon
<1> QED
  BY <1>1, <1>2, <1>3

\* What has to be read of a field that arrives whole.
WholeRead(kind, m, r) ==
  /\ kind \in {"60F", "32A"} => r.date = m.date
  /\ kind \in {"60F", "32A", "33B", "34F", "90D"} => r.ccy = m.ccy
  /\ kind \in {"60F", "34F"} => r.dc = m.dc
  /\ kind \in {"32A", "33B", "34F", "90D"} => r.amount = <<m.digits>>
  /\ kind = "60F" =>
       r.amount = <<IF m.dc = <<Debit>> THEN 0 - m.digits ELSE m.digits>>
  /\ kind = "90D" => r.count = IF m.count <= MaxInt32 THEN <<m.count>> ELSE <<>>
  /\ kind = "13D" => r = [date |-> m.date, minutes |-> MeantMinutes(m)]
  /\ kind \in {"28C", "61"} => r = m

\* Every kind of field is read as what it was written from.
LEMMA WholeIsRead ==
  ASSUME NEW kind, NEW m, IsMeaning(kind, m)
  PROVE  WholeRead(kind, m, Parse(kind, Encode(kind, m)))
<1> DEFINE v == Encode(kind, m) r == Parse(kind, v)
<1>1. ASSUME kind \in {"32A", "33B", "34F", "90D", "13D", "61"}
      PROVE  v \in Seq(Ascii) /\ Prefix(v, v)
  <2>1. v \in Seq(Ascii)
    BY <1>1, EncodedIsAscii
  <2> HIDE DEF v
  <2> QED
    BY <2>1, PrefixOfItself
<1> HIDE DEF v
<1>2. CASE kind = "60F"
  <2>1. r = ParseBalance(v)
    BY <1>2 DEF Parse
  <2>2. /\ r.dc = m.dc /\ r.date = m.date /\ r.ccy = m.ccy
        /\ r.amount = <<IF m.dc = <<Debit>> THEN 0 - m.digits ELSE m.digits>>
    BY <1>2, <2>1, Whole60f DEF v
  <2> HIDE DEF r
  <2> QED
    BY <1>2, <2>2 DEF WholeRead, r, v
<1>3. CASE kind = "32A"
  <2>1. r = Parse32a(v)
    BY <1>3 DEF Parse
  <2>2. r.date = m.date /\ r.ccy = m.ccy /\ r.amount = <<m.digits>>
    BY <1>1, <1>3, <2>1, Whole32a DEF v
  <2> HIDE DEF r
  <2> QED
    BY <1>3, <2>2 DEF WholeRead, r, v
<1>4. CASE kind = "33B"
  <2>1. r = ParseCcyAmount(v)
    BY <1>4 DEF Parse
  <2>2. r.ccy = m.ccy /\ r.amount = <<m.digits>>
    <3>1. v = m.ccy \o DigitsOf(m.digits)
      BY <1>4 DEF Encode, v
    <3>2. m.ccy \in Seq(Letter) /\ Len(m.ccy) = 3 /\ m.digits \in 0 .. 999
      BY <1>4 DEF IsMeaning
    <3>3. SumRead(v, m.ccy \o DigitsOf(m.digits), m.ccy, m.digits)
      BY <1>1, <1>4, <3>1, <3>2, PartsAreAscii, Whole33b, ZenonT(60)
    <3> QED
      BY <2>1, <3>1, <3>3 DEF SumRead
  <2> HIDE DEF r
  <2> QED
    BY <1>4, <2>2 DEF WholeRead, r, v
<1>5. CASE kind = "34F"
  <2>1. r = Parse34f(v)
    BY <1>5 DEF Parse
  <2>2. r.ccy = m.ccy /\ r.dc = m.dc /\ r.amount = <<m.digits>>
    BY <1>1, <1>5, <2>1, Whole34f DEF v
  <2> HIDE DEF r
  <2> QED
    BY <1>5, <2>2 DEF WholeRead, r, v
<1>6. CASE kind = "90D"
  <2>1. r = Parse90(v)
    BY <1>6 DEF Parse
  <2>2. /\ r.ccy = m.ccy /\ r.amount = <<m.digits>>
        /\ r.count = IF m.count <= MaxInt32 THEN <<m.count>> ELSE <<>>
    BY <1>1, <1>6, <2>1, Whole90d DEF v
  <2> HIDE DEF r
  <2> QED
    BY <1>6, <2>2 DEF WholeRead, r, v
<1>7. CASE kind = "13D"
  <2>1. r = Parse13d(v)
    BY <1>7 DEF Parse
  <2>2. r = [date |-> m.date, minutes |-> MeantMinutes(m)]
    BY <1>7, <2>1, Whole13d DEF v
  <2> HIDE DEF r
  <2> QED
    BY <1>7, <2>2 DEF WholeRead, r, v
<1>8. CASE kind = "28C"
  <2>1. r = Split28c(v)
    BY <1>8 DEF Parse
  <2>2. r = m
    BY <1>8, <2>1, Whole28c DEF v
  <2> HIDE DEF r
  <2> QED
    BY <1>8, <2>2 DEF WholeRead, r, v
<1>9. CASE kind = "61"
  <2>1. r = SplitType(v)
    BY <1>9 DEF Parse
  <2>2. r = m
    BY <1>1, <1>9, <2>1, Whole61 DEF v
  <2> HIDE DEF r
  <2> QED
    BY <1>9, <2>2 DEF WholeRead, r, v
<1>10. CASE kind \notin {"60F", "32A", "33B", "34F", "90D", "13D", "28C", "61"}
  <2> HIDE DEF r
  <2> QED
    BY <1>10 DEF WholeRead, r, v
<1> QED
  BY <1>2, <1>3, <1>4, <1>5, <1>6, <1>7, <1>8, <1>9, <1>10

(***************************************************************************)
(* A field that arrives whole is read as it was meant, for any fields.     *)
(***************************************************************************)
THEOREM WholeFieldsAreRead == FieldSpec => []WholeFieldsRead
<1>1. ReadInv => WholeFieldsRead
  <2> SUFFICES ASSUME ReadInv, WasRead, Whole
               PROVE  WholeRead(field.kind, field.means, read)
    BY Zenon DEF WholeFieldsRead, WholeRead
  <2>1. field \in Fields /\ read = Parse(field.kind, Encode(field.kind, field.means))
    BY DEF ReadInv, WasRead, Whole
  <2>2. IsMeaning(field.kind, field.means)
    BY <2>1, EncodeAssumption
  <2> QED
    BY <2>1, <2>2, WholeIsRead
<1> QED
  BY <1>1, ReadInit, ReadStep, PTL DEF FieldSpec

\* What may be read of a field that is cut off.
CutRead(kind, m, r) ==
  /\ kind = "32A" => r.date \in {None, m.date}
  /\ kind \in {"32A", "33B", "34F", "90D"} => r.ccy \in {<<>>, m.ccy}
  /\ kind = "34F" => r.dc \in {<<>>, m.dc}
  /\ kind = "13D" => r = None
  /\ kind = "61"  => r.type \in {<<>>, m.type}

\* What is cut off is read as nothing, or as part of what was written.
LEMMA CutIsRead ==
  ASSUME NEW kind, kind \in {"32A", "33B", "34F", "90D", "13D", "61"}, NEW m,
         IsMeaning(kind, m), NEW w, w \in CutOff(Encode(kind, m)), w # Encode(kind, m)
  PROVE  CutRead(kind, m, Parse(kind, w))
<1> DEFINE v == Encode(kind, m) r == Parse(kind, w)
<1>1. v \in Seq(Ascii)
  BY EncodedIsAscii
<1>2. w \in CutOff(v) /\ w # v
  OBVIOUS
<1> HIDE DEF v
<1>3. w \in Seq(Ascii) /\ Prefix(w, v) /\ Len(w) < Len(v)
  <2>1. PICK k \in 0 .. Len(v) : w = SubSeq(v, 1, k)
    BY <1>2 DEF CutOff
  <2>2. w \in Seq(Ascii) /\ Len(w) = k /\ \A p \in 1 .. k : v[p] = w[p]
    BY <1>1, <2>1, SMTT(60)
  <2>3. k # Len(v)
    <3>1. SubSeq(v, 1, Len(v)) = v
      BY <1>1
    <3> QED
      BY <1>2, <2>1, <3>1
  <2>4. Len(v) \in Nat
    BY <1>1
  <2> QED
    BY <2>2, <2>3, <2>4 DEF Prefix
<1>4. CASE kind = "32A"
  <2>1. r = Parse32a(w)
    BY <1>4 DEF Parse
  <2>2. r.date \in {None, m.date} /\ r.ccy \in {<<>>, m.ccy}
    BY <1>3, <1>4, <2>1, Whole32a DEF v
  <2> HIDE DEF r
  <2> QED
    BY <1>4, <2>2 DEF CutRead, r
<1>5. CASE kind = "33B"
  <2>1. r = ParseCcyAmount(w)
    BY <1>5 DEF Parse
  <2>2. r.ccy \in {<<>>, m.ccy}
    <3>1. v = m.ccy \o DigitsOf(m.digits)
      BY <1>5 DEF Encode, v
    <3>2. m.ccy \in Seq(Letter) /\ Len(m.ccy) = 3 /\ m.digits \in 0 .. 999
      BY <1>5 DEF IsMeaning
    <3>3. SumRead(w, m.ccy \o DigitsOf(m.digits), m.ccy, m.digits)
      BY <1>3, <3>1, <3>2, PartsAreAscii, Whole33b, ZenonT(60)
    <3> QED
      BY <2>1, <3>3 DEF SumRead
  <2> HIDE DEF r
  <2> QED
    BY <1>5, <2>2 DEF CutRead, r
<1>6. CASE kind = "34F"
  <2>1. r = Parse34f(w)
    BY <1>6 DEF Parse
  <2>2. r.ccy \in {<<>>, m.ccy} /\ r.dc \in {<<>>, m.dc}
    BY <1>3, <1>6, <2>1, Whole34f DEF v
  <2> HIDE DEF r
  <2> QED
    BY <1>6, <2>2 DEF CutRead, r
<1>7. CASE kind = "90D"
  <2>1. r = Parse90(w)
    BY <1>7 DEF Parse
  <2>2. r.ccy \in {<<>>, m.ccy}
    BY <1>3, <1>7, <2>1, Whole90d DEF v
  <2> HIDE DEF r
  <2> QED
    BY <1>7, <2>2 DEF CutRead, r
<1>8. CASE kind = "13D"
  <2>1. r = Parse13d(w)
    BY <1>8 DEF Parse
  <2>2. Len(v) = 15
    BY <1>8, Whole13d DEF v
  <2>3. ~LongEnough13d(w)
    BY <1>3, <2>2 DEF LongEnough13d
  <2>4. r = None
    BY <2>1, <2>3 DEF Parse13d
  <2> HIDE DEF r
  <2> QED
    BY <1>8, <2>4 DEF CutRead, r
<1>9. CASE kind = "61"
  <2>1. r = SplitType(w)
    BY <1>9 DEF Parse
  <2>2. r.type \in {<<>>, m.type}
    BY <1>3, <1>9, <2>1, Whole61 DEF v
  <2> HIDE DEF r
  <2> QED
    BY <1>9, <2>2 DEF CutRead, r
<1> QED
  BY <1>4, <1>5, <1>6, <1>7, <1>8, <1>9

(***************************************************************************)
(* Of a field that is cut off anywhere, nothing is read that was not       *)
(* written, for any fields.                                                *)
(***************************************************************************)
THEOREM CutOffFieldsInventNothing == FieldSpec => []CutOffInventsNothing
<1>1. ReadInv => CutOffInventsNothing
  <2> SUFFICES ASSUME ReadInv, Is({"32A", "33B", "34F", "90D", "13D", "61"}), ~Whole,
                      value \in CutOff(Encode(field.kind, field.means))
               PROVE  CutRead(field.kind, field.means, read)
    BY Zenon DEF CutOffInventsNothing, CutRead
  <2>1. field \in Fields /\ read = Parse(field.kind, value)
    BY DEF ReadInv, WasRead, Is
  <2>2. IsMeaning(field.kind, field.means)
    BY <2>1, EncodeAssumption
  <2>3. value # Encode(field.kind, field.means)
    BY DEF Whole
  <2>4. field.kind \in {"32A", "33B", "34F", "90D", "13D", "61"}
    BY DEF Is
  <2> QED
    BY <2>1, <2>2, <2>3, <2>4, CutIsRead, Zenon
<1> QED
  BY <1>1, ReadInit, ReadStep, PTL DEF FieldSpec
=============================================================================
