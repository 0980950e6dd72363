------------------------ MODULE StatementLineProofs ------------------------
(***************************************************************************)
(* Theorems about StatementLine, for every set of lines that LineAssumption *)
(* allows, wherever they are cut off, and every content of their amounts,  *)
(* references and narratives.                                              *)
(***************************************************************************)
EXTENDS StatementLine, SequenceLemmas

(***************************************************************************)
(* Powers of ten, and an amount on its way to the column.                  *)
(***************************************************************************)

\* g holds the powers of ten up to the k-th.
Powers(g, k) ==
  g \in [0 .. k -> Nat] /\ g[0] = 1 /\ \A j \in 1 .. k : g[j] = 10 * g[j - 1]

\* Pow10 passes through them.
LEMMA PowerRecursion ==
  ASSUME NEW k \in Nat
  PROVE  \E g : Powers(g, k) /\ Pow10(k) = g[k]
<1> DEFINE T == Nat
           b == 1
           step(j, q) == 10 * q
           st == [j \in 1 .. k |-> [q \in T |-> step(j, q)]]
           Up(f) == f = [j \in 0 .. k |-> IF j = 0 THEN b ELSE step(j, f[j - 1])]
           h == CHOOSE f : Up(f)
<1>1. b \in T /\ \A j \in 1 .. k : \A q \in T : step(j, q) \in T
  OBVIOUS
<1>2. Pow10(k) = h[k]
  BY DEF Pow10
<1> HIDE DEF T, step, b
<1>3. st \in [1 .. k -> [T -> T]] /\ \A j \in 1 .. k : \A q \in T : st[j][q] = step(j, q)
  BY <1>1
<1> HIDE DEF st
<1>4. PICK g : Runs(g, k, T, b, st)
  BY <1>1, <1>3, Recursion
<1>5. g \in [0 .. k -> T] /\ \A j \in 0 .. k : g[j] = IF j = 0 THEN b ELSE step(j, g[j - 1])
  BY <1>1, <1>3, <1>4 DEF Runs
<1>6. Up(g)
  BY <1>5
<1>7. Up(h)
  BY <1>6
<1> HIDE DEF h
<1>8. h[0] = b /\ \A j \in 1 .. k : h[j] = step(j, h[j - 1])
  <2>1. \A j \in 0 .. k : h[j] = IF j = 0 THEN b ELSE step(j, h[j - 1])
    BY <1>7
  <2>2. 0 \in 0 .. k /\ \A j \in 1 .. k : j \in 0 .. k /\ j # 0
    OBVIOUS
  <2> QED
    BY <2>1, <2>2
<1>9. h \in [0 .. k -> T]
  <2> DEFINE A == {j \in 0 .. k : h[j] \in T}
  <2>1. 0 \in A /\ \A j \in 1 .. k : j - 1 \in A => j \in A
    BY <1>1, <1>8
  <2> HIDE DEF A
  <2>2. 0 .. k \subseteq A
    BY <2>1, PrefixInduction
  <2> QED
    BY <1>7, <2>2 DEF A
<1> QED
  BY <1>2, <1>8, <1>9 DEF T, step, b, Powers

\* Any two lists of powers agree.
LEMMA SamePowers ==
  ASSUME NEW k \in Nat, NEW l \in Nat, k <= l, NEW f, Powers(f, k), NEW g, Powers(g, l)
  PROVE  f[k] = g[k]
<1> DEFINE A == {j \in 0 .. k : f[j] = g[j]}
<1>1. 0 \in A
  BY DEF Powers
<1>2. \A j \in 1 .. k : j - 1 \in A => j \in A
  BY DEF Powers
<1> HIDE DEF A
<1>3. 0 .. k \subseteq A
  BY <1>1, <1>2, PrefixInduction
<1> QED
  BY <1>3 DEF A

\* The powers of ten, one after the other.
LEMMA PowerOfTen ==
  ASSUME NEW k \in Nat
  PROVE  Pow10(k) \in Nat /\ Pow10(0) = 1 /\ Pow10(k + 1) = 10 * Pow10(k)
<1>1. PICK f : Powers(f, k) /\ Pow10(k) = f[k]
  BY PowerRecursion
<1>2. PICK g : Powers(g, k + 1) /\ Pow10(k + 1) = g[k + 1]
  <2>1. k + 1 \in Nat
    OBVIOUS
  <2> QED
    BY <2>1, PowerRecursion
<1>3. PICK h : Powers(h, 0) /\ Pow10(0) = h[0]
  BY PowerRecursion
<1>4. f[k] = g[k]
  BY <1>1, <1>2, SamePowers
<1> QED
  BY <1>1, <1>2, <1>3, <1>4 DEF Powers

\* A power of ten is no zero.
LEMMA PowerPositive ==
  ASSUME NEW k \in Nat
  PROVE  Pow10(k) \in Nat /\ Pow10(k) >= 1
<1>1. PICK f : Powers(f, k) /\ Pow10(k) = f[k]
  BY PowerRecursion
<1> DEFINE A == {j \in 0 .. k : f[j] >= 1}
<1>2. 0 \in A /\ \A j \in 1 .. k : j - 1 \in A => j \in A
  BY <1>1 DEF Powers
<1> HIDE DEF A
<1>3. 0 .. k \subseteq A
  BY <1>2, PrefixInduction
<1> QED
  BY <1>1, <1>3 DEF A, Powers

\* A factor of ten, taken out.
LEMMA TenTimes ==
  ASSUME NEW a \in Nat, NEW p \in Nat, NEW q \in Nat, q = a * p
  PROVE  a * (10 * p) = 10 * q
BY SMT

\* The power of a sum is the product of the powers.
LEMMA PowerOfSum ==
  ASSUME NEW i \in Nat, NEW k \in Nat
  PROVE  Pow10(i + k) = Pow10(i) * Pow10(k)
<1> DEFINE A == {j \in 0 .. k : Pow10(i + j) = Pow10(i) * Pow10(j)}
<1>1. 0 \in A
  <2>1. Pow10(0) = 1 /\ Pow10(i) \in Nat /\ i + 0 = i
    BY PowerOfTen
  <2> QED
    BY <2>1
<1>2. ASSUME NEW j \in 1 .. k, j - 1 \in A PROVE j \in A
  <2> DEFINE l == j - 1
  <2>1. l \in Nat /\ i + l \in Nat /\ j = l + 1 /\ i + j = (i + l) + 1
    OBVIOUS
  <2>2. Pow10(i + l) = Pow10(i) * Pow10(l)
    BY <1>2
  <2> HIDE DEF l
  <2>3. Pow10(l + 1) = 10 * Pow10(l) /\ Pow10(l) \in Nat
    BY <2>1, PowerOfTen
  <2>4. Pow10(i + l + 1) = 10 * Pow10(i + l) /\ Pow10(i + l) \in Nat
    BY <2>1, PowerOfTen
  <2>5. Pow10(i) \in Nat
    BY PowerOfTen
  <2> DEFINE a == Pow10(i)
             p == Pow10(l)
             q == Pow10(i + l)
  <2>6. a \in Nat /\ p \in Nat /\ q \in Nat /\ q = a * p
    BY <2>2, <2>3, <2>4, <2>5
  <2> HIDE DEF a, p, q
  <2>7. a * (10 * p) = 10 * q
    BY <2>6, TenTimes
  <2>8. Pow10(i + j) = Pow10(i) * Pow10(j)
    BY <2>1, <2>3, <2>4, <2>7 DEF a, p, q
  <2> QED
    BY <2>8
<1> HIDE DEF A
<1>3. 0 .. k \subseteq A
  BY <1>1, <1>2, PrefixInduction
<1> QED
  BY <1>3 DEF A

\* Half of ten times something.
LEMMA HalfOfTens ==
  ASSUME NEW p \in Nat, p >= 1
  PROVE  (10 * p) \div 2 = 5 * p /\ 5 * p \in Nat /\ 5 * p >= 1
OBVIOUS

\* A quotient and what is left.
LEMMA Quotient ==
  ASSUME NEW n \in Nat, NEW p \in Nat, p >= 1
  PROVE  /\ n \div p \in Nat
         /\ p * (n \div p) <= n /\ n < p * (n \div p) + p
BY SMT

\* Doubled distances, of what lies between.
LEMMA Doubled ==
  ASSUME NEW n \in Nat, NEW h \in Nat, NEW t \in Int, t <= n + h, n + h < t + 2 * h
  PROVE  2 * (t - n) \in -(2 * h) + 1 .. 2 * h
OBVIOUS

\* A bound on what stands beside an even factor.
LEMMA AtMost ==
  ASSUME NEW n \in Nat, NEW h \in Nat, h >= 1, NEW m \in Nat, (2 * h) * m <= n + h
  PROVE  m <= n
<1> SUFFICES ASSUME m >= n + 1 PROVE FALSE
  OBVIOUS
<1>1. (2 * h) * m >= (2 * h) * (n + 1)
  BY SMT
<1>2. (2 * h) * (n + 1) = h * n + h * n + 2 * h
  BY SMT
<1>3. h * n >= n
  BY SMT
<1> DEFINE a == (2 * h) * m
           b == (2 * h) * (n + 1)
           c == h * n
<1>4. a \in Int /\ b \in Int /\ c \in Int /\ a >= b /\ b = c + c + 2 * h /\ c >= n /\ a <= n + h
  BY <1>1, <1>2, <1>3
<1> HIDE DEF a, b, c
<1> QED
  BY <1>4

\* What rounding off gives is no larger, and the nearest.
LEMMA RoundedOff ==
  ASSUME NEW n \in Nat, NEW k \in Nat, k > 0
  PROVE  /\ RoundOff(n, k) \in Nat /\ RoundOff(n, k) <= n
         /\ 2 * (RoundOff(n, k) * Pow10(k) - n) \in -Pow10(k) + 1 .. Pow10(k)
<1> DEFINE q == Pow10(k - 1)
           p == Pow10(k)
           h == 5 * q
           m == RoundOff(n, k)
<1>1. q \in Nat /\ q >= 1 /\ p = 10 * q
  <2> DEFINE l == k - 1
  <2>1. l \in Nat /\ l + 1 = k
    OBVIOUS
  <2> HIDE DEF l
  <2>2. Pow10(l) \in Nat /\ Pow10(l) >= 1 /\ Pow10(l + 1) = 10 * Pow10(l)
    BY <2>1, PowerOfTen, PowerPositive
  <2> QED
    BY <2>1, <2>2 DEF l
<1>2. p \div 2 = h /\ h \in Nat /\ h >= 1 /\ p = 2 * h /\ p >= 1
  <2> HIDE DEF p, q
  <2>1. (10 * q) \div 2 = 5 * q /\ 5 * q \in Nat /\ 5 * q >= 1
    BY <1>1, HalfOfTens
  <2> QED
    BY <1>1, <2>1
<1>3. m = (n + p \div 2) \div p
  BY DEF RoundOff
<1> HIDE DEF p, q, h, m
<1> DEFINE s == n + h
<1>4. m = s \div p /\ s \in Nat /\ p \in Nat
  BY <1>2, <1>3
<1> HIDE DEF s
<1>5. m \in Nat /\ p * m <= s /\ s < p * m + p
  BY <1>2, <1>4, Quotient
<1> DEFINE t == p * m
<1>6. t \in Int /\ t <= n + h /\ n + h < t + 2 * h /\ m * p = t
  BY <1>2, <1>4, <1>5 DEF s
<1>7. m <= n
  <2>1. (2 * h) * m <= n + h
    BY <1>2, <1>6
  <2> QED
    BY <1>2, <1>5, <2>1, AtMost
<1> HIDE DEF t
<1>8. 2 * (t - n) \in -(2 * h) + 1 .. 2 * h
  BY <1>2, <1>6, Doubled
<1>9. 2 * (m * p - n) \in -p + 1 .. p
  BY <1>2, <1>6, <1>8
<1> QED
  BY <1>5, <1>7, <1>9 DEF m, p

\* Nothing is rounded off where no digit is.
LEMMA NotRounded ==
  ASSUME NEW n \in Nat
  PROVE  RoundOff(n, 0) = n
<1>1. Pow10(0) = 1
  BY PowerOfTen
<1>2. (n + 1 \div 2) \div 1 = n
  OBVIOUS
<1> QED
  BY <1>1, <1>2 DEF RoundOff

\* Max of a set of naturals whose largest is known.
LEMMA LargestIs ==
  ASSUME NEW n \in Nat, NEW I \in SUBSET (0 .. n), n \in I
  PROVE  Max(I) = n
<1>1. Max(I) \in I /\ \A p \in I : p <= Max(I)
  BY GreatestOf
<1> DEFINE m == Max(I)
<1>2. m \in 0 .. n /\ n <= m
  BY <1>1
<1> HIDE DEF m
<1>3. m = n
  BY <1>2
<1> QED
  BY <1>3 DEF m

\* An amount is a record, and None is none.
LEMMA AmountIsSome ==
  ASSUME NEW m, NEW s, NEW i
  PROVE  [mantissa |-> m, scale |-> s] # NoAmount /\ [i128 |-> i] # NoAmount
<1>1. "none" \in DOMAIN NoAmount /\ DOMAIN NoAmount = {"none"}
  BY DEF NoAmount
<1>2. "mantissa" \in DOMAIN [mantissa |-> m, scale |-> s] /\ "i128" \in DOMAIN [i128 |-> i]
  OBVIOUS
<1> QED
  BY <1>1, <1>2

\* An amount that fits is taken with all its digits.
LEMMA TakenWhole ==
  ASSUME NEW w, w.digits \in Nat, w.decimals \in 0 .. MaxScale, w.digits <= MaxMantissa
  PROVE  FromStr(w) = [mantissa |-> w.digits, scale |-> w.decimals]
<1> DEFINE n == w.decimals
           fits == {s \in 0 .. MaxScale : s <= n /\ RoundOff(w.digits, n - s) <= MaxMantissa}
<1>1. n \in Nat /\ n - n = 0 /\ MaxScale \in Nat
  BY MoneyAssumption
<1>2. RoundOff(w.digits, 0) = w.digits
  BY NotRounded
<1>3. n \in fits /\ fits \in SUBSET (0 .. n)
  BY <1>1, <1>2
<1>4. FromStr(w) = IF fits = {} THEN NoAmount
                   ELSE [mantissa |-> RoundOff(w.digits, n - Max(fits)), scale |-> Max(fits)]
  BY DEF FromStr
<1> HIDE DEF fits
<1>5. Max(fits) = n
  BY <1>1, <1>3, LargestIs
<1>6. FromStr(w) = [mantissa |-> RoundOff(w.digits, n - n), scale |-> n]
  BY <1>3, <1>4, <1>5
<1> QED
  BY <1>1, <1>2, <1>6

\* The column of an amount with too many decimals is it rounded off.
LEMMA RoundedColumn ==
  ASSUME NEW w, w.digits \in Nat, w.decimals \in MoneyScale + 1 .. MaxScale,
         w.digits <= MaxMantissa
  PROVE  DecCol(ParseAmount(w)) = [i128 |-> RoundOff(w.digits, w.decimals - MoneyScale)]
<1> DEFINE k == w.decimals - MoneyScale
           r == RoundOff(w.digits, k)
           d == [mantissa |-> w.digits, scale |-> w.decimals]
           c == [mantissa |-> r, scale |-> MoneyScale]
<1>1. /\ MoneyScale \in Nat /\ MaxScale \in Nat /\ MaxMantissa \in Nat
      /\ Limit \in Nat /\ Limit > MaxMantissa
      /\ k \in Nat /\ k > 0 /\ w.decimals \in 0 .. MaxScale
  BY MoneyAssumption
<1>2. FromStr(w) = d /\ d # NoAmount
  BY <1>1, TakenWhole, AmountIsSome
<1>3. r \in Nat /\ r <= w.digits
  <2> HIDE DEF k
  <2> QED
    BY <1>1, RoundedOff
<1>4. ParseAmount(w) = c
  <2>1. d.scale = w.decimals /\ d.mantissa = w.digits /\ d.scale > MoneyScale
    BY <1>1
  <2> HIDE DEF d
  <2> QED
    BY <1>2, <2>1 DEF ParseAmount, ClampScale, Rescale, RescaleDown
<1>5. Rescale(c, MoneyScale).mantissa = r
  <2> DEFINE set == {j \in 0 .. MoneyScale - c.scale : c.mantissa * Pow10(j) <= MaxMantissa}
  <2>1. Pow10(0) = 1
    BY PowerOfTen
  <2>2. /\ c.scale = MoneyScale /\ c.mantissa = r
        /\ MoneyScale - c.scale = 0 /\ ~(c.scale > MoneyScale)
    BY <1>1
  <2> HIDE DEF c, r
  <2>3. 0 \in set /\ set \in SUBSET (0 .. 0)
    BY <1>1, <1>3, <2>1, <2>2
  <2>4. Rescale(c, MoneyScale) =
          [mantissa |-> c.mantissa * Pow10(Max(set)), scale |-> c.scale + Max(set)]
    BY <2>2 DEF Rescale, RescaleUp
  <2> HIDE DEF set
  <2>5. Max(set) = 0
    BY <2>3, LargestIs
  <2> QED
    BY <1>3, <2>1, <2>2, <2>4, <2>5
<1>6. c # NoAmount
  BY AmountIsSome
<1>7. r < Limit
  BY <1>1, <1>3
<1> HIDE DEF c, r
<1> QED
  BY <1>4, <1>5, <1>6, <1>7 DEF DecCol, ToDecimal128, r

\* Scaled up, a number is no smaller; scaled up less, it is no larger.
LEMMA ScaledUp ==
  ASSUME NEW n \in Nat, NEW p \in Nat, p >= 1
  PROVE  n * p \in Nat /\ n <= n * p
BY SMT

\* The column of an amount that fits is all of it, at the column's scale.
LEMMA FittingColumn ==
  ASSUME NEW w, w.digits \in Nat, w.decimals \in Nat, Fits(w)
  PROVE  DecCol(ParseAmount(w)) = [i128 |-> w.digits * Pow10(MoneyScale - w.decimals)]
<1> DEFINE k == MoneyScale - w.decimals
           v == w.digits * Pow10(k)
           d == [mantissa |-> w.digits, scale |-> w.decimals]
<1>1. /\ MoneyScale \in Nat /\ MaxScale \in Nat /\ MaxMantissa \in Nat
      /\ Limit \in Nat /\ Limit > MaxMantissa
      /\ k \in Nat /\ w.decimals \in 0 .. MaxScale /\ w.decimals <= MoneyScale
      /\ v <= MaxMantissa
  BY MoneyAssumption DEF Fits
<1>2. Pow10(k) \in Nat /\ Pow10(k) >= 1
  <2> HIDE DEF k
  <2> QED
    BY <1>1, PowerPositive
<1>3. v \in Nat /\ w.digits <= v
  BY <1>2, ScaledUp
<1>4. FromStr(w) = d /\ d # NoAmount
  <2>1. w.digits <= MaxMantissa
    <3> HIDE DEF v
    <3> QED
      BY <1>1, <1>3
  <2> QED
    BY <1>1, <2>1, TakenWhole, AmountIsSome
<1>5. d.scale = w.decimals /\ d.mantissa = w.digits /\ ~(d.scale > MoneyScale)
  BY <1>1
<1> HIDE DEF d
<1>6. ParseAmount(w) = d
  BY <1>4, <1>5 DEF ParseAmount, ClampScale
<1>7. Rescale(d, MoneyScale).mantissa = v
  <2> DEFINE set == {j \in 0 .. MoneyScale - d.scale : d.mantissa * Pow10(j) <= MaxMantissa}
  <2>1. k \in set /\ set \in SUBSET (0 .. k)
    BY <1>1, <1>5
  <2>2. Rescale(d, MoneyScale) =
          [mantissa |-> d.mantissa * Pow10(Max(set)), scale |-> d.scale + Max(set)]
    BY <1>5 DEF Rescale, RescaleUp
  <2> HIDE DEF set, k
  <2>3. Max(set) = k
    BY <1>1, <2>1, LargestIs
  <2> QED
    BY <1>5, <2>2, <2>3
<1>8. v < Limit
  <2> HIDE DEF v
  <2> QED
    BY <1>1, <1>3
<1> HIDE DEF v
<1> QED
  BY <1>4, <1>6, <1>7, <1>8 DEF DecCol, ToDecimal128, v

\* Both sides of an equation, multiplied.
LEMMA CrossMultiplied ==
  ASSUME NEW m \in Nat, NEW n \in Nat, NEW a \in Nat, NEW b \in Nat,
         NEW x \in Nat, NEW y \in Nat, NEW t \in Nat, a >= 1, b >= 1, t >= 1,
         a * x = t, b * y = t
  PROVE  n * y = m * x <=> m * b = n * a
<1>1. (n * y) * (a * b) = (n * a) * t
  <2>1. (n * y) * (a * b) = (n * a) * (b * y)
    BY SMT
  <2> QED
    BY <2>1
<1>2. (m * x) * (a * b) = (m * b) * t
  <2>1. (m * x) * (a * b) = (m * b) * (a * x)
    BY SMT
  <2> QED
    BY <2>1
<1> DEFINE p == n * y
           q == m * x
           c == a * b
           f == n * a
           g == m * b
<1>3. p \in Nat /\ q \in Nat /\ c \in Nat /\ f \in Nat /\ g \in Nat /\ c >= 1
  <2>1. c >= a
    BY SMT
  <2> QED
    BY <2>1
<1>4. p * c = f * t /\ q * c = g * t
  BY <1>1, <1>2
<1> HIDE DEF p, q, c, f, g
<1>5. ASSUME p = q PROVE f = g
  <2>1. f * t = g * t
    BY <1>4, <1>5
  <2> QED
    BY <1>3, <2>1, SMT
<1>6. ASSUME f = g PROVE p = q
  <2>1. p * c = q * c
    BY <1>4, <1>6
  <2> QED
    BY <1>3, <2>1, SMT
<1>7. p = q <=> g = f
  BY <1>5, <1>6
<1> QED
  BY <1>7 DEF p, q, f, g

\* Two amounts that fit are equal in the column exactly when they are the same.
LEMMA SameInTheColumn ==
  ASSUME NEW v, v.digits \in Nat, v.decimals \in Nat, Fits(v),
         NEW w, w.digits \in Nat, w.decimals \in Nat, Fits(w)
  PROVE  DecCol(ParseAmount(w)) = DecCol(ParseAmount(v)) <=> SameAmount(v, w)
<1> DEFINE a == Pow10(v.decimals)
           b == Pow10(w.decimals)
           x == Pow10(MoneyScale - v.decimals)
           y == Pow10(MoneyScale - w.decimals)
           t == Pow10(MoneyScale)
<1>1. /\ MoneyScale \in Nat /\ MoneyScale - v.decimals \in Nat
      /\ MoneyScale - w.decimals \in Nat
      /\ v.decimals + (MoneyScale - v.decimals) = MoneyScale
      /\ w.decimals + (MoneyScale - w.decimals) = MoneyScale
  BY MoneyAssumption DEF Fits
<1>2. a * x = t /\ b * y = t
  <2> DEFINE i == v.decimals
             j == w.decimals
             k == MoneyScale - v.decimals
             l == MoneyScale - w.decimals
  <2>1. i \in Nat /\ j \in Nat /\ k \in Nat /\ l \in Nat
        /\ i + k = MoneyScale /\ j + l = MoneyScale
    BY <1>1
  <2>2. a = Pow10(i) /\ b = Pow10(j) /\ x = Pow10(k) /\ y = Pow10(l)
    OBVIOUS
  <2> HIDE DEF a, b, x, y, i, j, k, l
  <2>3. Pow10(i + k) = Pow10(i) * Pow10(k) /\ Pow10(j + l) = Pow10(j) * Pow10(l)
    BY <2>1, PowerOfSum
  <2> QED
    BY ONLY <2>1, <2>2, <2>3, Zenon DEF t
<1>3. /\ a \in Nat /\ b \in Nat /\ x \in Nat /\ y \in Nat /\ t \in Nat
      /\ a >= 1 /\ b >= 1 /\ t >= 1
  BY <1>1, PowerPositive
<1>4. /\ DecCol(ParseAmount(v)) = [i128 |-> v.digits * x]
      /\ DecCol(ParseAmount(w)) = [i128 |-> w.digits * y]
  BY FittingColumn
<1>5. SameAmount(v, w) <=> v.digits * b = w.digits * a
  BY DEF SameAmount
<1> HIDE DEF a, b, x, y, t
<1>6. w.digits * y = v.digits * x <=> v.digits * b = w.digits * a
  <2> DEFINE m == v.digits
             n == w.digits
  <2>1. m \in Nat /\ n \in Nat
    OBVIOUS
  <2> HIDE DEF m, n
  <2>2. n * y = m * x <=> m * b = n * a
    BY <1>2, <1>3, <2>1, CrossMultiplied
  <2> QED
    BY <2>2 DEF m, n
<1> QED
  BY <1>4, <1>5, <1>6
-----------------------------------------------------------------------------
(***************************************************************************)
(* Dates.                                                                  *)
(***************************************************************************)

\* None is no date.
LEMMA NoneIsNoDate ==
  ASSUME NEW y, NEW m, NEW d
  PROVE  [year |-> y, month |-> m, day |-> d] # None
<1>1. "none" \in DOMAIN None /\ DOMAIN None = {"none"}
  BY DEF None
<1>2. "year" \in DOMAIN [year |-> y, month |-> m, day |-> d]
  OBVIOUS
<1> QED
  BY <1>1, <1>2

\* from_ymd_opt gives back a valid date that is taken apart, and only those.
LEMMA FromFields ==
  /\ \A d : IsDate(d) => FromYmd(d.year, d.month, d.day) = d /\ d # None
  /\ \A y \in Int : \A m, n : FromYmd(y, m, n) # None =>
       /\ IsDate(FromYmd(y, m, n))
       /\ FromYmd(y, m, n).year = y /\ FromYmd(y, m, n).month = m
<1>1. \A d : IsDate(d) => FromYmd(d.year, d.month, d.day) = d
  BY DEF IsDate, FromYmd
<1>2. \A d : IsDate(d) => d # None
  BY NoneIsNoDate DEF IsDate
<1>3. ASSUME NEW y \in Int, NEW m, NEW n, FromYmd(y, m, n) # None
      PROVE  /\ IsDate(FromYmd(y, m, n))
             /\ FromYmd(y, m, n).year = y /\ FromYmd(y, m, n).month = m
  <2>1. m \in 1 .. 12 /\ n \in 1 .. DaysIn(y, m)
    BY <1>3 DEF FromYmd
  <2>2. FromYmd(y, m, n) = [year |-> y, month |-> m, day |-> n]
    BY <2>1 DEF FromYmd
  <2> QED
    BY <2>1, <2>2 DEF IsDate
<1> QED
  BY <1>1, <1>2, <1>3

\* The arithmetic of the year: with months numbered through, five months away
\* determine it, and the choice is never more than six off.
LEMMA YearOfMonth ==
  ASSUME NEW y \in Int, NEW z \in Int, NEW m \in 1 .. 12, NEW n \in 1 .. 12
  PROVE  /\ 12 * z + n - (12 * y + m) \in -5 .. 5 => z = y + YearShift(n, m)
         /\ 12 * (y + YearShift(n, m)) + n - (12 * y + m) \in -6 .. 6
         /\ y + YearShift(n, m) \in Int
<1>1. CASE n - m > 6
  BY <1>1 DEF YearShift
<1>2. CASE m - n > 6
  BY <1>2 DEF YearShift
<1>3. CASE ~(n - m > 6) /\ ~(m - n > 6)
  BY <1>3 DEF YearShift
<1> QED
  BY <1>1, <1>2, <1>3

\* A date at most five months away is found again from its month and day.
LEMMA EntryRestored ==
  ASSUME NEW v, NEW e, IsDate(v), IsDate(e), Apart(e, v) \in -5 .. 5
  PROVE  ParseMmdd(e.month, e.day, v) = e
<1>1. v # None /\ FromYmd(e.year, e.month, e.day) = e
  BY FromFields
<1>2. /\ v.year \in Int /\ e.year \in Int /\ v.month \in 1 .. 12 /\ e.month \in 1 .. 12
      /\ 12 * e.year + e.month - (12 * v.year + v.month) \in -5 .. 5
  BY DEF IsDate, Apart, Months
<1>3. e.year = v.year + YearShift(e.month, v.month)
  BY <1>2, YearOfMonth
<1> QED
  BY <1>1, <1>3 DEF ParseMmdd

\* Whatever the digits say, the year chosen puts the month within six of the
\* value date's.
LEMMA EntryNear ==
  ASSUME NEW v, IsDate(v), NEW m, NEW n, ParseMmdd(m, n, v) # None
  PROVE  Apart(ParseMmdd(m, n, v), v) \in -6 .. 6
<1> DEFINE e == ParseMmdd(m, n, v)
           y == v.year + YearShift(m, v.month)
<1>1. v # None /\ v.year \in Int /\ v.month \in 1 .. 12
  BY FromFields DEF IsDate
<1>2. m \in 1 .. 12
  BY <1>1 DEF ParseMmdd, FromYmd
<1>3. y \in Int /\ 12 * y + m - (12 * v.year + v.month) \in -6 .. 6
  BY <1>1, <1>2, YearOfMonth
<1>4. e = FromYmd(y, m, n)
  BY <1>1 DEF ParseMmdd
<1>5. e.year = y /\ e.month = m
  BY <1>3, <1>4, FromFields
<1> HIDE DEF e, y
<1>6. Apart(e, v) = 12 * y + m - (12 * v.year + v.month)
  BY <1>1, <1>3, <1>5, <1>2 DEF Apart, Months
<1> QED
  BY <1>3, <1>6 DEF e
-----------------------------------------------------------------------------
(***************************************************************************)
(* What the characters of a written line are, up to the mark.              *)
(***************************************************************************)

\* Two digits make the number they are written from.
LEMMA TwoDigits ==
  ASSUME NEW n \in 0 .. 99
  PROVE  n \div 10 \in 0 .. 9 /\ n % 10 \in 0 .. 9 /\ 10 * (n \div 10) + (n % 10) = n
OBVIOUS

\* Two texts put together, character by character.
LEMMA Concatenation ==
  ASSUME NEW s \in Seq(Int), NEW t \in Seq(Int)
  PROVE  /\ s \o t \in Seq(Int)
         /\ Len(s \o t) = Len(s) + Len(t)
         /\ \A i \in 1 .. Len(s) : (s \o t)[i] = s[i]
         /\ \A i \in 1 .. Len(t) : (s \o t)[Len(s) + i] = t[i]
OBVIOUS

\* The digits of a number are as many as were asked for, and each is one.
LEMMA DigitsAreSeq ==
  ASSUME NEW n \in Nat, NEW k \in Nat
  PROVE  /\ Digits(n, k) \in Seq(Int) /\ Len(Digits(n, k)) = k
         /\ \A i \in 1 .. k : Digits(n, k)[i] = (n \div Pow10(k - i)) % 10
         /\ \A i \in 1 .. k : Digits(n, k)[i] \in 0 .. 9
<1>1. \A i \in 1 .. k : Pow10(k - i) \in Nat /\ Pow10(k - i) >= 1
  BY PowerPositive
<1>2. \A i \in 1 .. k : (n \div Pow10(k - i)) % 10 \in 0 .. 9
  <2> TAKE i \in 1 .. k
  <2> DEFINE p == Pow10(k - i)
  <2>1. p \in Nat /\ p >= 1
    BY <1>1
  <2> HIDE DEF p
  <2>2. n \div p \in Nat
    BY <2>1
  <2> QED
    BY <2>2 DEF p
<1> QED
  BY <1>2 DEF Digits

\* A written amount is a text.
LEMMA AmountIsSeq ==
  ASSUME NEW a \in [width : Nat, digits : Nat, decimals : Nat]
  PROVE  EncodeAmount(a) \in Seq(Int)
<1> DEFINE all == Digits(a.digits, a.width + a.decimals)
           i == a.width + 1
<1>1. all \in Seq(Int) /\ Len(all) = a.width + a.decimals
  <2>1. a.digits \in Nat /\ a.width + a.decimals \in Nat
    OBVIOUS
  <2> QED
    BY <2>1, DigitsAreSeq
<1>2. Len(all) = a.width + a.decimals
  BY <1>1
<1>3. EncodeAmount(a) = SubSeq(all, 1, i - 1) \o <<Comma>> \o SubSeq(all, i, Len(all))
  BY DEF EncodeAmount, InsertAt
<1>4. a.width \in Nat /\ a.decimals \in Nat /\ i \in Nat /\ i >= 1 /\ i - 1 <= Len(all)
  BY <1>2
<1> HIDE DEF all, i
<1>5. SubSeq(all, 1, i - 1) \in Seq(Int) /\ SubSeq(all, i, Len(all)) \in Seq(Int)
  BY <1>1, <1>4
<1>6. <<Comma>> \in Seq(Int)
  BY DEF Comma
<1>7. SubSeq(all, 1, i - 1) \o <<Comma>> \in Seq(Int)
  BY <1>5, <1>6, Concatenation
<1> QED
  BY <1>3, <1>5, <1>7, Concatenation

\* A mark is a text that begins with no digit.
LEMMA MarkIsSeq ==
  ASSUME NEW m \in Marks
  PROVE  m \in Seq(Int) /\ Len(m) >= 1 /\ m[1] \notin 0 .. 9
<1>1. CASE m = <<10>>
  BY <1>1
<1>2. CASE m = <<11>>
  BY <1>2
<1>3. CASE m = <<12, 10>>
  BY <1>3
<1>4. CASE m = <<12, 11>>
  BY <1>4
<1> QED
  BY <1>1, <1>2, <1>3, <1>4 DEF Marks, LetterC, LetterD, LetterR

\* The characters of a subfield are numbers.
LEMMA CharsAreSeq ==
  ASSUME NEW chars \in Seq(0 .. 16) PROVE chars \in Seq(Int)
OBVIOUS

\* What is put behind a text leaves its first character.
LEMMA KeepsHead ==
  ASSUME NEW s \in Seq(Int), NEW t \in Seq(Int), Len(s) >= 1
  PROVE  s \o t \in Seq(Int) /\ Len(s \o t) >= 1 /\ (s \o t)[1] = s[1]
OBVIOUS

\* What each suffix of a written line is made of.
LEMMA SuffixesShape ==
  ASSUME NEW w \in Written
  PROVE  /\ w.funds \in Seq(Int) /\ w.type \in Seq(Int) /\ Len(w.type) = 4
         /\ w.type[1] = LetterN /\ w.customer \in Seq(Int) /\ w.bank \in Seq(Int)
         /\ EncodeAmount(w.amount) \in Seq(Int)
         /\ EncodeRefs(w) \in Seq(Int) /\ AfterAmount(w) \in Seq(Int)
         /\ AfterFunds(w) \in Seq(Int) /\ AfterMark(w) \in Seq(Int)
<1>1. /\ w.funds \in Seq(Int) /\ w.type \in Seq(Int) /\ w.customer \in Seq(Int)
      /\ w.bank \in Seq(Int) /\ Len(w.type) = 4 /\ w.type[1] = LetterN
  <2>1. /\ w.type \in Seq(0 .. 16) /\ w.customer \in Seq(0 .. 16) /\ w.bank \in Seq(0 .. 16)
        /\ w.funds = <<>> \/ \E c \in Letters : w.funds = <<c>>
        /\ Len(w.type) = 4 /\ w.type[1] = LetterN
    BY LineAssumption
  <2>2. w.funds \in Seq(Int)
    <3>1. \A c \in Letters : c \in Int /\ <<c>> \in Seq(Int)
      BY DEF Letters, LetterC, LetterD, LetterR, LetterN, LetterX
    <3>2. <<>> \in Seq(Int)
      OBVIOUS
    <3>3. CASE w.funds = <<>>
      BY <3>2, <3>3
    <3>4. CASE \E c \in Letters : w.funds = <<c>>
      BY <3>1, <3>4
    <3> QED
      BY <2>1, <3>3, <3>4
  <2> QED
    BY <2>1, <2>2, CharsAreSeq
<1>2. EncodeAmount(w.amount) \in Seq(Int)
  BY LineAssumption, AmountIsSeq
<1>3. EncodeRefs(w) \in Seq(Int)
  <2>1. <<Slash, Slash>> \o w.bank \in Seq(Int)
    BY <1>1, Concatenation DEF Slash
  <2>2. CASE w.bank = <<>>
    BY <1>1, <2>2, Concatenation DEF EncodeRefs
  <2>3. CASE w.bank # <<>>
    BY <1>1, <2>1, <2>3, Concatenation DEF EncodeRefs
  <2> QED
    BY <2>2, <2>3
<1>4. AfterAmount(w) \in Seq(Int)
  BY <1>1, <1>3, Concatenation DEF AfterAmount
<1>5. AfterFunds(w) \in Seq(Int)
  BY <1>2, <1>4, Concatenation DEF AfterFunds
<1>6. AfterMark(w) \in Seq(Int)
  BY <1>1, <1>5, Concatenation DEF AfterMark
<1> QED
  BY <1>1, <1>2, <1>3, <1>4, <1>5, <1>6

\* A mark is no digit, so that no date is read where there is none.
LEMMA AfterDatesShape ==
  ASSUME NEW w \in Written
  PROVE  AfterDates(w) \in Seq(Int) /\ Len(AfterDates(w)) >= 1 /\ AfterDates(w)[1] \notin 0 .. 9
<1>1. w.mark \in Seq(Int) /\ Len(w.mark) >= 1 /\ w.mark[1] \notin 0 .. 9
  BY LineAssumption, MarkIsSeq
<1>2. AfterMark(w) \in Seq(Int)
  BY SuffixesShape
<1> QED
  BY <1>1, <1>2, KeepsHead DEF AfterDates

\* The four digits of a month and a day.
LEMMA MonthDayShape ==
  ASSUME NEW d, IsDate(d)
  PROVE  /\ MonthDay(d) \in Seq(Int) /\ Len(MonthDay(d)) = 4
         /\ \A i \in 1 .. 4 : MonthDay(d)[i] \in 0 .. 9
         /\ 10 * MonthDay(d)[1] + MonthDay(d)[2] = d.month
         /\ 10 * MonthDay(d)[3] + MonthDay(d)[4] = d.day
<1>1. d.month \in 0 .. 99 /\ d.day \in 0 .. 99
  BY DEF IsDate, DaysIn
<1> DEFINE a == d.month \div 10
           b == d.month % 10
           e == d.day \div 10
           f == d.day % 10
<1>2. a \in 0 .. 9 /\ b \in 0 .. 9 /\ 10 * a + b = d.month
  BY <1>1, TwoDigits
<1>3. e \in 0 .. 9 /\ f \in 0 .. 9 /\ 10 * e + f = d.day
  BY <1>1, TwoDigits
<1>4. MonthDay(d) = <<a, b, e, f>>
  BY DEF MonthDay
<1> HIDE DEF a, b, e, f
<1> QED
  BY <1>2, <1>3, <1>4

\* c is s followed by t, character by character.
Joins(s, t, c) ==
  /\ s \in Seq(Int) /\ t \in Seq(Int) /\ c \in Seq(Int)
  /\ Len(c) = Len(s) + Len(t)
  /\ \A i \in 1 .. Len(s) : c[i] = s[i]
  /\ \A i \in 1 .. Len(t) : c[Len(s) + i] = t[i]

\* Two texts put together are joined.
LEMMA ConcatenationJoins ==
  ASSUME NEW s \in Seq(Int), NEW t \in Seq(Int) PROVE Joins(s, t, s \o t)
BY Concatenation DEF Joins

\* Where the characters of joined texts stand, for the lengths that dates have.
LEMMA TwoAndFour ==
  ASSUME NEW s, NEW t, NEW c, Joins(s, t, c), Len(s) = 2, Len(t) = 4
  PROVE  /\ Len(c) = 6
         /\ c[1] = s[1] /\ c[2] = s[2] /\ c[3] = t[1]
         /\ c[4] = t[2] /\ c[5] = t[3] /\ c[6] = t[4]
<1>1. /\ c[1] = s[1] /\ c[2] = s[2] /\ c[2 + 1] = t[1] /\ c[2 + 2] = t[2]
      /\ c[2 + 3] = t[3] /\ c[2 + 4] = t[4]
  BY DEF Joins
<1> QED
  BY <1>1 DEF Joins

LEMMA SixAndMore ==
  ASSUME NEW s, NEW t, NEW c, Joins(s, t, c), Len(s) = 6, Len(t) >= 1
  PROVE  Len(c) >= 7 /\ (\A i \in 1 .. 6 : c[i] = s[i]) /\ c[7] = t[1]
<1>1. c[6 + 1] = t[1] /\ \A i \in 1 .. 6 : c[i] = s[i]
  BY DEF Joins
<1> QED
  BY <1>1 DEF Joins

LEMMA SixAndFour ==
  ASSUME NEW s, NEW t, NEW c, Joins(s, t, c), Len(s) = 6, Len(t) = 4
  PROVE  /\ Len(c) = 10 /\ \A i \in 1 .. 6 : c[i] = s[i]
         /\ c[7] = t[1] /\ c[8] = t[2] /\ c[9] = t[3] /\ c[10] = t[4]
<1>1. /\ c[6 + 1] = t[1] /\ c[6 + 2] = t[2] /\ c[6 + 3] = t[3] /\ c[6 + 4] = t[4]
      /\ \A i \in 1 .. 6 : c[i] = s[i]
  BY DEF Joins
<1> QED
  BY <1>1 DEF Joins

LEMMA TenAndMore ==
  ASSUME NEW s, NEW t, NEW c, Joins(s, t, c), Len(s) = 10, Len(t) >= 1
  PROVE  Len(c) >= 11 /\ \A i \in 1 .. 10 : c[i] = s[i]
BY DEF Joins

\* Six characters are the digits of a date.
DateDigits(e, d) ==
  /\ e \in Seq(Int) /\ Len(e) >= 6 /\ \A i \in 1 .. 6 : e[i] \in 0 .. 9
  /\ 10 * e[1] + e[2] = d.year % 100
  /\ 10 * e[3] + e[4] = d.month /\ 10 * e[5] + e[6] = d.day

\* The four after them are those of a month and a day.
EntryDigits(e, d) ==
  /\ e \in Seq(Int) /\ Len(e) >= 10 /\ \A i \in 7 .. 10 : e[i] \in 0 .. 9
  /\ 10 * e[7] + e[8] = d.month /\ 10 * e[9] + e[10] = d.day

\* Only the first six characters matter to a date.
LEMMA DigitsCopied ==
  ASSUME NEW s, NEW d, DateDigits(s, d),
         NEW e \in Seq(Int), Len(e) >= 6, \A i \in 1 .. 6 : e[i] = s[i]
  PROVE  DateDigits(e, d)
<1>1. /\ e[1] = s[1] /\ e[2] = s[2] /\ e[3] = s[3]
      /\ e[4] = s[4] /\ e[5] = s[5] /\ e[6] = s[6]
  OBVIOUS
<1>2. \A i \in 1 .. 6 : e[i] \in 0 .. 9
  BY DEF DateDigits
<1> QED
  BY <1>1, <1>2 DEF DateDigits

\* The value date as it is written: six digits that make it.
LEMMA ValueDigits ==
  ASSUME NEW d, IsDate(d)
  PROVE  LET e == <<(d.year % 100) \div 10, d.year % 10>> \o MonthDay(d)
         IN DateDigits(e, d) /\ Len(e) = 6
<1> DEFINE yy == d.year % 100
           m == MonthDay(d)
           s == <<yy \div 10, d.year % 10>>
<1>1. yy \in 0 .. 99 /\ d.year % 10 = yy % 10
  BY DEF IsDate
<1>2. yy \div 10 \in 0 .. 9 /\ yy % 10 \in 0 .. 9 /\ 10 * (yy \div 10) + (yy % 10) = yy
  BY <1>1, TwoDigits
<1>3. s \in Seq(Int) /\ Len(s) = 2 /\ s[1] \in 0 .. 9 /\ s[2] \in 0 .. 9 /\ 10 * s[1] + s[2] = yy
  <2> DEFINE a == yy \div 10
             b == yy % 10
  <2>1. s = <<a, b>>
    BY <1>1
  <2> HIDE DEF yy, a, b, s
  <2> QED
    BY <1>2, <2>1 DEF a, b
<1>4. /\ m \in Seq(Int) /\ Len(m) = 4 /\ \A i \in 1 .. 4 : m[i] \in 0 .. 9
      /\ 10 * m[1] + m[2] = d.month /\ 10 * m[3] + m[4] = d.day
  BY MonthDayShape
<1>5. (1 \in 1 .. 4) /\ (2 \in 1 .. 4) /\ (3 \in 1 .. 4) /\ (4 \in 1 .. 4)
  OBVIOUS
<1> HIDE DEF s, m
<1> DEFINE e == s \o m
<1>6. Joins(s, m, e)
  BY <1>3, <1>4, ConcatenationJoins
<1> HIDE DEF e
<1>7. /\ Len(e) = 6
      /\ e[1] = s[1] /\ e[2] = s[2] /\ e[3] = m[1]
      /\ e[4] = m[2] /\ e[5] = m[3] /\ e[6] = m[4]
  BY <1>3, <1>4, <1>6, TwoAndFour
<1>8. /\ e[1] \in 0 .. 9 /\ e[2] \in 0 .. 9 /\ e[3] \in 0 .. 9
      /\ e[4] \in 0 .. 9 /\ e[5] \in 0 .. 9 /\ e[6] \in 0 .. 9
  BY <1>3, <1>4, <1>5, <1>7
<1>9. 10 * e[1] + e[2] = yy /\ 10 * e[3] + e[4] = d.month /\ 10 * e[5] + e[6] = d.day
  BY <1>3, <1>4, <1>7
<1>10. e \in Seq(Int) /\ Len(e) = 6
  BY <1>7, <1>6 DEF Joins
<1>11. \A i \in 1 .. 6 : e[i] \in 0 .. 9
  BY <1>8
<1>12. DateDigits(e, d)
  BY <1>9, <1>10, <1>11 DEF DateDigits, yy
<1> QED
  BY <1>10, <1>12 DEF e, s, m, yy

\* Where the digits of the dates stand in a line, and that none follow them.
LEMMA EncodeShape ==
  ASSUME NEW w \in Written
  PROVE  /\ DateDigits(Encode(w), w.value)
         /\ w.entry = None => Len(Encode(w)) >= 7 /\ Encode(w)[7] \notin 0 .. 9
         /\ w.entry # None => EntryDigits(Encode(w), w.entry)
<1> DEFINE date  == <<(w.value.year % 100) \div 10, w.value.year % 10>> \o MonthDay(w.value)
           entry == MonthDay(w.entry)
           after == AfterDates(w)
<1>1. IsDate(w.value) /\ (w.entry = None \/ IsDate(w.entry))
  BY LineAssumption
<1>2. DateDigits(date, w.value) /\ Len(date) = 6
  BY <1>1, ValueDigits
<1>3. after \in Seq(Int) /\ Len(after) >= 1 /\ after[1] \notin 0 .. 9
  BY AfterDatesShape
<1>4. CASE w.entry = None
  <2>1. Encode(w) = date \o <<>> \o after
    BY <1>4 DEF Encode
  <2> HIDE DEF date, after
  <2>2. date \in Seq(Int)
    BY <1>2 DEF DateDigits
  <2>3. Encode(w) = date \o after
    BY <2>1, <2>2
  <2> DEFINE e == date \o after
  <2>4. Joins(date, after, e)
    BY <1>3, <2>2, ConcatenationJoins
  <2>5. Encode(w) = e
    BY <2>3
  <2> HIDE DEF e
  <2>6. e \in Seq(Int) /\ Len(e) >= 7 /\ (\A i \in 1 .. 6 : e[i] = date[i]) /\ e[7] = after[1]
    BY <1>2, <1>3, <2>4, SixAndMore DEF Joins
  <2>7. DateDigits(e, w.value)
    <3>1. e \in Seq(Int) /\ Len(e) >= 6 /\ \A i \in 1 .. 6 : e[i] = date[i]
      BY <2>6
    <3> QED
      BY <1>2, <3>1, DigitsCopied
  <2>8. Len(e) >= 7 /\ e[7] = after[1] /\ after[1] \notin 0 .. 9
    BY <1>3, <2>6
  <2>9. Len(Encode(w)) >= 7 /\ Encode(w)[7] \notin 0 .. 9
    BY <2>5, <2>8
  <2>10. DateDigits(Encode(w), w.value)
    BY <2>5, <2>7
  <2> QED
    BY <1>4, <2>9, <2>10
<1>5. CASE w.entry # None
  <2>1. Encode(w) = (date \o entry) \o after
    BY <1>5 DEF Encode
  <2>2. /\ entry \in Seq(Int) /\ Len(entry) = 4 /\ \A i \in 1 .. 4 : entry[i] \in 0 .. 9
        /\ 10 * entry[1] + entry[2] = w.entry.month
        /\ 10 * entry[3] + entry[4] = w.entry.day
    BY <1>1, <1>5, MonthDayShape
  <2> HIDE DEF date, entry, after
  <2>3. date \in Seq(Int)
    BY <1>2 DEF DateDigits
  <2> DEFINE ten == date \o entry
  <2>4. Joins(date, entry, ten)
    BY <2>2, <2>3, ConcatenationJoins
  <2> DEFINE e == ten \o after
  <2>5. Encode(w) = e
    BY <2>1
  <2> HIDE DEF ten
  <2>6. Joins(ten, after, e)
    BY <1>3, <2>4, ConcatenationJoins DEF Joins
  <2> HIDE DEF e
  <2>7. /\ Len(ten) = 10 /\ \A i \in 1 .. 6 : ten[i] = date[i]
        /\ ten[7] = entry[1] /\ ten[8] = entry[2] /\ ten[9] = entry[3] /\ ten[10] = entry[4]
    BY <1>2, <2>2, <2>4, SixAndFour
  <2>8. /\ ten \in Seq(Int) /\ e \in Seq(Int) /\ Len(e) >= 11
        /\ \A i \in 1 .. 10 : e[i] = ten[i]
    BY <1>3, <2>6, <2>7, TenAndMore DEF Joins
  <2>9. \A i \in 1 .. 6 : e[i] = date[i]
    <3> TAKE i \in 1 .. 6
    <3>1. i \in 1 .. 10
      OBVIOUS
    <3> QED
      BY <3>1, <2>7, <2>8
  <2>10. DateDigits(e, w.value)
    <3>1. e \in Seq(Int) /\ Len(e) >= 6
      BY <2>8
    <3> QED
      BY <1>2, <2>9, <3>1, DigitsCopied
  <2>11. e[7] = entry[1] /\ e[8] = entry[2] /\ e[9] = entry[3] /\ e[10] = entry[4]
    BY <2>2, <2>7, <2>8
  <2>12. \A i \in 7 .. 10 : e[i] \in 0 .. 9
    <3>1. e[7] \in 0 .. 9 /\ e[8] \in 0 .. 9 /\ e[9] \in 0 .. 9 /\ e[10] \in 0 .. 9
      BY <2>2, <2>11
    <3>2. \A i \in 7 .. 10 : i = 7 \/ i = 8 \/ i = 9 \/ i = 10
      OBVIOUS
    <3> QED
      BY ONLY <3>1, <3>2
  <2>13. EntryDigits(e, w.entry)
    BY <2>2, <2>8, <2>11, <2>12 DEF EntryDigits
  <2> QED
    BY <1>5, <2>5, <2>10, <2>13
<1> QED
  BY <1>4, <1>5
-----------------------------------------------------------------------------
(***************************************************************************)
(* A narrative, from its pieces to its pairs.                              *)
(***************************************************************************)

\* What a turn of str::split makes is parts again.
LEMMA PieceTaken ==
  ASSUME NEW S, NEW q \in Seq(Seq(S)) \ {<<>>}, NEW p \in S, NEW marker
  PROVE  TakePiece(q, p, marker) \in Seq(Seq(S)) \ {<<>>}
<1> DEFINE r == [q EXCEPT ![Len(q)] = Append(@, p)]
<1>1. r \in Seq(Seq(S)) /\ r # <<>>
  <2>1. LastChanged(r, q, Seq(S), Append(q[Len(q)], p))
    BY LongerLast
  <2> QED
    BY <2>1 DEF LastChanged
<1>2. Append(q, <<>>) \in Seq(Seq(S)) /\ Append(q, <<>>) # <<>>
  OBVIOUS
<1> QED
  BY <1>1, <1>2 DEF TakePiece

\* p is what str::split has after each piece.
PieceRuns(p, S, text, marker) ==
  /\ p \in [0 .. Len(text) -> Seq(Seq(S)) \ {<<>>}] /\ p[0] = << <<>> >>
  /\ \A k \in 1 .. Len(text) : p[k] = TakePiece(p[k - 1], text[k], marker)

\* Split passes through it.
LEMMA PieceRecursion ==
  ASSUME NEW S, NEW text \in Seq(S), NEW marker
  PROVE  \E g : PieceRuns(g, S, text, marker) /\ Split(text, marker) = g[Len(text)]
<1> DEFINE n == Len(text)
           T == Seq(Seq(S)) \ {<<>>}
           b == << <<>> >>
           step(k, q) == TakePiece(q, text[k], marker)
           st == [k \in 1 .. n |-> [q \in T |-> step(k, q)]]
           Up(f) == f = [k \in 0 .. n |-> IF k = 0 THEN b ELSE step(k, f[k - 1])]
           h == CHOOSE f : Up(f)
<1>1. n \in Nat /\ b \in T /\ \A k \in 1 .. n : \A q \in T : step(k, q) \in T
  <2>1. n \in Nat /\ b \in T
    OBVIOUS
  <2>2. ASSUME NEW k \in 1 .. n, NEW q \in T PROVE step(k, q) \in T
    <3>1. text[k] \in S
      OBVIOUS
    <3> QED
      BY <3>1, PieceTaken
  <2> QED
    BY <2>1, <2>2
<1>2. Split(text, marker) = h[n]
  BY DEF Split
<1> HIDE DEF n, T, step, b
<1>3. st \in [1 .. n -> [T -> T]] /\ \A k \in 1 .. n : \A q \in T : st[k][q] = step(k, q)
  BY <1>1
<1> HIDE DEF st
<1>4. PICK g : Runs(g, n, T, b, st)
  BY <1>1, <1>3, Recursion
<1>5. g \in [0 .. n -> T] /\ \A k \in 0 .. n : g[k] = IF k = 0 THEN b ELSE step(k, g[k - 1])
  BY <1>1, <1>3, <1>4 DEF Runs
<1>6. Up(g)
  BY <1>5
<1>7. Up(h)
  BY <1>6
<1> HIDE DEF h
<1>8. \A k \in 0 .. n : h[k] = IF k = 0 THEN b ELSE step(k, h[k - 1])
  BY <1>7
<1>9. h[0] = b /\ \A k \in 1 .. n : h[k] = step(k, h[k - 1])
  <2>1. 0 \in 0 .. n /\ \A k \in 1 .. n : k \in 0 .. n /\ k # 0
    BY <1>1
  <2> QED
    BY <1>8, <2>1
<1>10. h \in [0 .. n -> T]
  <2> DEFINE A == {k \in 0 .. n : h[k] \in T}
  <2>1. 0 \in A /\ \A k \in 1 .. n : k - 1 \in A => k \in A
    BY <1>1, <1>9
  <2> HIDE DEF A
  <2>2. 0 .. n \subseteq A
    BY <1>1, <2>1, PrefixInduction
  <2> QED
    BY <1>7, <2>2 DEF A
<1> QED
  BY <1>2, <1>9, <1>10 DEF n, T, step, b, PieceRuns


\* The parts of the first k pieces stand behind at[1] = 0 and behind the
\* markers, at[2], at[3], and so on.
Splits(at, parts, text, marker, k) ==
  /\ at \in [1 .. Len(parts) + 1 -> 0 .. k + 1] /\ at[1] = 0 /\ at[Len(parts) + 1] = k + 1
  /\ \A i, j \in 1 .. Len(parts) + 1 : i < j => at[i] < at[j]
  /\ \A j \in 1 .. Len(parts) : parts[j] = SubSeq(text, at[j] + 1, at[j + 1] - 1)
  /\ \A j \in 2 .. Len(parts) : text[at[j]] = marker
  /\ \A i \in 1 .. k : text[i] = marker => \E j \in 2 .. Len(parts) : at[j] = i

\* The part after a marker begins, empty.
LEMMA PartBegins ==
  ASSUME NEW S, NEW text \in Seq(S), NEW marker, NEW k \in 1 .. Len(text), text[k] = marker,
         NEW q \in Seq(Seq(S)) \ {<<>>}, NEW at, Splits(at, q, text, marker, k - 1)
  PROVE  \E new : Splits(new, Append(q, <<>>), text, marker, k)
<1> DEFINE l == Len(q)
           r == Append(q, <<>>)
           new == [j \in 1 .. l + 2 |-> IF j = l + 2 THEN k + 1 ELSE at[j]]
           X == Seq(S)
<1>1. l \in Nat /\ l >= 1 /\ k \in Nat /\ k >= 1
  OBVIOUS
<1>2. Len(r) = l + 1 /\ (\A i \in 1 .. l : r[i] = q[i]) /\ r[l + 1] = <<>>
  <2>1. <<>> \in X /\ q \in Seq(X)
    OBVIOUS
  <2> HIDE DEF X
  <2> QED
    BY <2>1, Longer
<1>3. /\ at \in [1 .. l + 1 -> 0 .. k] /\ at[1] = 0 /\ at[l + 1] = k
      /\ \A i, j \in 1 .. l + 1 : i < j => at[i] < at[j]
      /\ \A j \in 1 .. l : q[j] = SubSeq(text, at[j] + 1, at[j + 1] - 1)
      /\ \A j \in 2 .. l : text[at[j]] = marker
      /\ \A i \in 1 .. k - 1 : text[i] = marker => \E j \in 2 .. l : at[j] = i
  BY DEF Splits
<1> HIDE DEF l, r
<1>4. /\ new \in [1 .. l + 2 -> 0 .. k + 1] /\ new[l + 2] = k + 1
      /\ \A j \in 1 .. l + 1 : new[j] = at[j]
  <2>1. at \in [1 .. l + 1 -> 0 .. k]
    BY <1>3
  <2> HIDE DEF l
  <2> QED
    BY ONLY <1>1, <2>1 DEF new
<1> HIDE DEF new
<1>5. /\ new[1] = 0 /\ new[l + 1] = k
      /\ \A i, j \in 1 .. l + 2 : i < j => new[i] < new[j]
  <2>1. new[1] = 0 /\ new[l + 1] = k
    BY <1>1, <1>3, <1>4
  <2>2. ASSUME NEW i \in 1 .. l + 2, NEW j \in 1 .. l + 2, i < j PROVE new[i] < new[j]
    <3>1. i \in 1 .. l + 1 /\ new[i] = at[i] /\ at[i] \in 0 .. k
      <4>1. i \in 1 .. l + 1 /\ i \in 1 .. l + 1
        BY <1>1, <2>2
      <4>2. at[i] \in 0 .. k
        BY <1>3, <4>1
      <4> QED
        BY <1>4, <4>1, <4>2
    <3>2. CASE j = l + 2
      BY <1>1, <1>4, <3>1, <3>2
    <3>3. CASE j \in 1 .. l + 1
      BY <1>1, <1>3, <1>4, <2>2, <3>1, <3>3
    <3> QED
      BY <1>1, <3>2, <3>3
  <2> QED
    BY <2>1, <2>2
<1>6. \A j \in 1 .. l + 1 : r[j] = SubSeq(text, new[j] + 1, new[j + 1] - 1)
  <2> SUFFICES ASSUME NEW j \in 1 .. l + 1 PROVE r[j] = SubSeq(text, new[j] + 1, new[j + 1] - 1)
    OBVIOUS
  <2>1. CASE j = l + 1
    <3>1. new[j] = k /\ new[j + 1] = k + 1 /\ r[j] = <<>>
      BY <1>1, <1>2, <1>4, <1>5, <2>1
    <3>2. SubSeq(text, k + 1, (k + 1) - 1) = <<>>
      BY <1>1
    <3> QED
      BY <3>1, <3>2
  <2>2. CASE j \in 1 .. l
    <3>1. j \in 1 .. l + 1 /\ j + 1 \in 1 .. l + 1
      BY <1>1, <2>2
    <3>2. new[j] = at[j] /\ new[j + 1] = at[j + 1] /\ r[j] = q[j]
      BY <1>2, <1>4, <2>2, <3>1
    <3> QED
      BY <1>3, <2>2, <3>2
  <2> QED
    BY <1>1, <2>1, <2>2
<1>7. \A j \in 2 .. l + 1 : text[new[j]] = marker
  <2> SUFFICES ASSUME NEW j \in 2 .. l + 1 PROVE text[new[j]] = marker
    OBVIOUS
  <2>1. CASE j = l + 1
    BY <1>5, <2>1
  <2>2. CASE j \in 2 .. l
    <3>1. j \in 1 .. l + 1
      BY <1>1, <2>2
    <3> QED
      BY <1>3, <1>4, <2>2, <3>1
  <2> QED
    BY <1>1, <2>1, <2>2
<1>8. \A i \in 1 .. k : text[i] = marker => \E j \in 2 .. l + 1 : new[j] = i
  <2> SUFFICES ASSUME NEW i \in 1 .. k, text[i] = marker PROVE \E j \in 2 .. l + 1 : new[j] = i
    OBVIOUS
  <2>1. CASE i = k
    <3>1. l + 1 \in 2 .. l + 1
      BY <1>1
    <3> QED
      BY <1>5, <2>1, <3>1
  <2>2. CASE i \in 1 .. k - 1
    <3>1. PICK j \in 2 .. l : at[j] = i
      BY <1>3, <2>2
    <3>2. j \in 2 .. l + 1 /\ j \in 1 .. l + 1
      BY <1>1, <3>1
    <3> QED
      BY <1>4, <3>1, <3>2
  <2> QED
    BY <1>1, <2>1, <2>2
<1>9. (l + 1) + 1 = l + 2
  BY <1>1
<1>10. Splits(new, r, text, marker, k)
  BY <1>2, <1>4, <1>5, <1>6, <1>7, <1>8, <1>9 DEF Splits
<1> QED
  BY <1>10 DEF r

\* The last part has one more piece.
LEMMA PartGrows ==
  ASSUME NEW S, NEW text \in Seq(S), NEW marker, NEW k \in 1 .. Len(text), text[k] # marker,
         NEW q \in Seq(Seq(S)) \ {<<>>}, NEW at, Splits(at, q, text, marker, k - 1),
         NEW r, LastChanged(r, q, Seq(S), Append(q[Len(q)], text[k]))
  PROVE  \E new : Splits(new, r, text, marker, k)
<1> DEFINE l == Len(q)
           e == Append(q[l], text[k])
           new == [j \in 1 .. l + 1 |-> IF j = l + 1 THEN k + 1 ELSE at[j]]
<1>1. l \in Nat /\ l >= 1 /\ k \in Nat /\ k >= 1
  OBVIOUS
<1>2. Len(r) = l /\ (\A i \in 1 .. l - 1 : r[i] = q[i]) /\ r[l] = e
  BY DEF LastChanged
<1>3. /\ at \in [1 .. l + 1 -> 0 .. k] /\ at[1] = 0 /\ at[l + 1] = k
      /\ \A i, j \in 1 .. l + 1 : i < j => at[i] < at[j]
      /\ \A j \in 1 .. l : q[j] = SubSeq(text, at[j] + 1, at[j + 1] - 1)
      /\ \A j \in 2 .. l : text[at[j]] = marker
      /\ \A i \in 1 .. k - 1 : text[i] = marker => \E j \in 2 .. l : at[j] = i
  BY DEF Splits
<1>4. e = SubSeq(text, at[l] + 1, k)
  <2> DEFINE a == at[l] + 1
  <2>1. l \in 1 .. l /\ l \in 1 .. l + 1 /\ l + 1 \in 1 .. l + 1 /\ l < l + 1
    BY <1>1
  <2>2. at[l] < k /\ at[l] \in 0 .. k
    BY <1>3, <2>1
  <2>3. a \in 1 .. k
    BY <1>1, <2>2
  <2>4. q[l] = SubSeq(text, a, k - 1)
    BY <1>3, <2>1
  <2> HIDE DEF a, l
  <2>5. SubSeq(text, a, k) = Append(SubSeq(text, a, k - 1), text[k])
    BY <2>3, PartLonger
  <2> QED
    BY <2>4, <2>5 DEF a
<1> HIDE DEF l, e
<1>5. /\ new \in [1 .. l + 1 -> 0 .. k + 1] /\ new[l + 1] = k + 1
      /\ \A j \in 1 .. l : new[j] = at[j]
  <2>1. \A j \in 1 .. l : j \in 1 .. l + 1 /\ j # l + 1
    BY <1>1
  <2>2. l + 1 \in 1 .. l + 1 /\ \A j \in 1 .. l + 1 : j \in 1 .. l \/ j = l + 1
    BY <1>1
  <2>3. \A j \in 1 .. l + 1 : (IF j = l + 1 THEN k + 1 ELSE at[j]) \in 0 .. k + 1
    <3>1. at \in [1 .. l + 1 -> 0 .. k]
      BY <1>3
    <3> QED
      BY ONLY <1>1, <3>1
  <2> QED
    BY <2>1, <2>2, <2>3
<1> HIDE DEF new
<1>6. /\ new[1] = 0
      /\ \A i, j \in 1 .. l + 1 : i < j => new[i] < new[j]
  <2>1. new[1] = 0
    BY <1>1, <1>3, <1>5
  <2>2. ASSUME NEW i \in 1 .. l + 1, NEW j \in 1 .. l + 1, i < j PROVE new[i] < new[j]
    <3>1. i \in 1 .. l /\ new[i] = at[i] /\ at[i] \in 0 .. k
      <4>1. i \in 1 .. l /\ i \in 1 .. l + 1
        BY <1>1, <2>2
      <4>2. at[i] \in 0 .. k
        BY <1>3, <4>1
      <4> QED
        BY <1>5, <4>1, <4>2
    <3>2. CASE j = l + 1
      BY <1>1, <1>5, <3>1, <3>2
    <3>3. CASE j \in 1 .. l
      BY <1>1, <1>3, <1>5, <2>2, <3>1, <3>3
    <3> QED
      BY <1>1, <3>2, <3>3
  <2> QED
    BY <2>1, <2>2
<1>7. \A j \in 1 .. l : r[j] = SubSeq(text, new[j] + 1, new[j + 1] - 1)
  <2> SUFFICES ASSUME NEW j \in 1 .. l PROVE r[j] = SubSeq(text, new[j] + 1, new[j + 1] - 1)
    OBVIOUS
  <2>1. CASE j = l
    <3>1. new[j] = at[l] /\ new[j + 1] - 1 = k /\ r[j] = e
      BY <1>1, <1>2, <1>5, <2>1
    <3> QED
      BY <1>4, <3>1
  <2>2. CASE j \in 1 .. l - 1
    <3>1. j \in 1 .. l /\ j + 1 \in 1 .. l
      BY <1>1, <2>2
    <3>2. new[j] = at[j] /\ new[j + 1] = at[j + 1] /\ r[j] = q[j]
      BY <1>2, <1>5, <2>2, <3>1
    <3> QED
      BY <1>3, <3>1, <3>2
  <2> QED
    BY <1>1, <2>1, <2>2
<1>8. \A j \in 2 .. l : text[new[j]] = marker
  <2>1. \A j \in 2 .. l : j \in 1 .. l
    BY <1>1
  <2> QED
    BY <1>3, <1>5, <2>1
<1>9. \A i \in 1 .. k : text[i] = marker => \E j \in 2 .. l : new[j] = i
  <2> SUFFICES ASSUME NEW i \in 1 .. k, text[i] = marker PROVE \E j \in 2 .. l : new[j] = i
    OBVIOUS
  <2>1. i \in 1 .. k - 1
    BY <1>1
  <2>2. PICK j \in 2 .. l : at[j] = i
    BY <1>3, <2>1
  <2>3. j \in 1 .. l
    BY <1>1, <2>2
  <2> QED
    BY <1>5, <2>2, <2>3
<1>10. Splits(new, r, text, marker, k)
  BY <1>2, <1>5, <1>6, <1>7, <1>8, <1>9 DEF Splits
<1> QED
  BY <1>10

\* What Split makes of a text: the stretches between its markers, in order.
LEMMA PieceShape ==
  ASSUME NEW S, NEW text \in Seq(S), NEW marker
  PROVE  /\ Split(text, marker) \in Seq(Seq(S)) \ {<<>>}
         /\ \E at : Splits(at, Split(text, marker), text, marker, Len(text))
<1> DEFINE n == Len(text)
<1>1. PICK g : PieceRuns(g, S, text, marker) /\ Split(text, marker) = g[n]
  BY PieceRecursion
<1>2. /\ g \in [0 .. n -> Seq(Seq(S)) \ {<<>>}] /\ g[0] = << <<>> >>
      /\ \A k \in 1 .. n : g[k] = TakePiece(g[k - 1], text[k], marker)
  BY <1>1 DEF PieceRuns
<1> DEFINE A == {k \in 0 .. n : \E at : Splits(at, g[k], text, marker, k)}
<1>3. 0 \in A
  <2> DEFINE at == [j \in 1 .. 2 |-> IF j = 1 THEN 0 ELSE 1]
             b == << <<>> >>
  <2>1. at \in [1 .. 2 -> 0 .. 1] /\ at[1] = 0 /\ at[2] = 1
    OBVIOUS
  <2>2. Len(b) = 1 /\ b[1] = <<>>
    OBVIOUS
  <2>3. SubSeq(text, 0 + 1, 1 - 1) = <<>>
    OBVIOUS
  <2> HIDE DEF at, b
  <2>4. /\ Len(b) + 1 = 2 /\ 0 + 1 = 1 /\ 1 .. Len(b) = {1} /\ 2 .. Len(b) = {} /\ 1 .. 0 = {}
        /\ \A i, j \in 1 .. 2 : i < j => at[i] < at[j]
    BY <2>1, <2>2
  <2>5. \A j \in {1} : b[j] = SubSeq(text, at[j] + 1, at[j + 1] - 1)
    <3>1. at[1] + 1 = 0 + 1 /\ at[1 + 1] - 1 = 1 - 1
      BY <2>1
    <3> QED
      BY <2>2, <2>3, <3>1
  <2>6. Splits(at, b, text, marker, 0)
    BY <2>1, <2>4, <2>5 DEF Splits
  <2>7. \E new : Splits(new, g[0], text, marker, 0)
    BY <1>2, <2>6 DEF b
  <2>8. 0 \in 0 .. n
    OBVIOUS
  <2> QED
    BY <2>7, <2>8
<1>4. ASSUME NEW k \in 1 .. n, k - 1 \in A PROVE k \in A
  <2> DEFINE q == g[k - 1]
  <2>1. PICK at : Splits(at, q, text, marker, k - 1)
    BY <1>4
  <2>2. q \in Seq(Seq(S)) \ {<<>>} /\ text[k] \in S /\ k \in 0 .. n
    <3>1. k - 1 \in 0 .. n /\ k \in 0 .. n /\ text[k] \in S
      OBVIOUS
    <3> QED
      BY <1>2, <3>1
  <2>3. g[k] = TakePiece(q, text[k], marker)
    BY <1>2
  <2> HIDE DEF q, A
  <2>4. \E new : Splits(new, g[k], text, marker, k)
    <3>1. CASE text[k] = marker
      <4>1. g[k] = Append(q, <<>>)
        BY <2>3, <3>1 DEF TakePiece
      <4>2. \E new : Splits(new, Append(q, <<>>), text, marker, k)
        BY <2>1, <2>2, <3>1, PartBegins
      <4> QED
        BY <4>1, <4>2
    <3>2. CASE text[k] # marker
      <4> DEFINE r == [q EXCEPT ![Len(q)] = Append(@, text[k])]
      <4>1. g[k] = r
        BY <2>3, <3>2 DEF TakePiece
      <4>2. LastChanged(r, q, Seq(S), Append(q[Len(q)], text[k]))
        BY <2>2, LongerLast
      <4> HIDE DEF r
      <4> QED
        BY <2>1, <2>2, <3>2, <4>1, <4>2, PartGrows
    <3> QED
      BY <3>1, <3>2
  <2> QED
    BY <2>2, <2>4 DEF A
<1> HIDE DEF A
<1>5. n \in A
  <2>1. n \in Nat
    OBVIOUS
  <2> HIDE DEF n
  <2>2. 0 .. n \subseteq A
    BY <1>3, <1>4, <2>1, PrefixInduction
  <2> QED
    BY <2>1, <2>2
<1>6. g[n] \in Seq(Seq(S)) \ {<<>>}
  BY <1>2
<1> QED
  BY <1>1, <1>5, <1>6 DEF A

\* f lists the members of I, in order.
Lists(f, n, I) ==
  /\ f \in [1 .. n -> I] /\ (\A i, j \in 1 .. n : i < j => f[i] < f[j])
  /\ \A i \in I : \E j \in 1 .. n : f[j] = i

\* Of two such lists, the one does not go beyond the other.
LEMMA ListsAgree ==
  ASSUME NEW I \in SUBSET Nat, NEW m \in Nat, NEW n \in Nat,
         NEW f, Lists(f, m, I), NEW g, Lists(g, n, I)
  PROVE  m <= n /\ \A j \in 1 .. m : f[j] = g[j]
<1> DEFINE A == {k \in 0 .. m : k <= n /\ \A j \in 1 .. k : f[j] = g[j]}
<1>0. /\ f \in [1 .. m -> Nat] /\ g \in [1 .. n -> Nat]
      /\ (\A j \in 1 .. m : f[j] \in I) /\ (\A j \in 1 .. n : g[j] \in I)
      /\ (\A i, j \in 1 .. m : i < j => f[i] < f[j])
      /\ (\A i, j \in 1 .. n : i < j => g[i] < g[j])
      /\ (\A i \in I : \E j \in 1 .. m : f[j] = i)
      /\ (\A i \in I : \E j \in 1 .. n : g[j] = i)
  BY DEF Lists
<1>1. 0 \in A
  OBVIOUS
<1>2. ASSUME NEW k \in 1 .. m, k - 1 \in A PROVE k \in A
  <2>1. k - 1 <= n /\ \A j \in 1 .. k - 1 : f[j] = g[j]
    BY <1>2
  <2>2. PICK j \in 1 .. n : g[j] = f[k]
    BY <1>0
  <2>3. ~(j < k)
    <3> SUFFICES ASSUME j < k PROVE FALSE
      OBVIOUS
    <3>1. j \in 1 .. k - 1 /\ j \in 1 .. m
      OBVIOUS
    <3>2. f[j] = f[k] /\ f[j] < f[k] /\ f[j] \in Nat /\ f[k] \in Nat
      BY <1>0, <2>1, <2>2, <3>1
    <3> QED
      BY <3>2
  <2>4. ~(j > k)
    <3> SUFFICES ASSUME j > k PROVE FALSE
      OBVIOUS
    <3>1. k \in 1 .. n /\ g[k] < g[j] /\ g[k] \in Nat /\ g[k] \in I
      <4>1. k \in 1 .. n
        OBVIOUS
      <4> QED
        BY <1>0, <4>1
    <3>2. PICK i \in 1 .. m : f[i] = g[k]
      BY <1>0, <3>1
    <3>3. f[i] < f[k] /\ f[i] \in Nat /\ f[k] \in Nat
      BY <1>0, <2>2, <3>1, <3>2
    <3>4. i < k
      <4> SUFFICES ASSUME i >= k PROVE FALSE
        OBVIOUS
      <4>1. CASE i = k
        BY <3>3, <4>1
      <4>2. CASE k < i
        <5>1. f[k] < f[i]
          BY <1>0, <4>2
        <5> QED
          BY <3>3, <5>1
      <4> QED
        BY <4>1, <4>2
    <3>5. i \in 1 .. k - 1 /\ i \in 1 .. n /\ i < k
      BY <2>1, <3>4
    <3>6. g[i] = g[k] /\ g[i] < g[k] /\ g[i] \in Nat
      <4>1. f[i] = g[i]
        BY <2>1, <3>5
      <4>2. g[i] < g[k] /\ g[i] \in Nat
        BY <1>0, <3>1, <3>5
      <4> QED
        BY <3>2, <4>1, <4>2
    <3> QED
      BY <3>1, <3>6
  <2>5. j = k
    BY <2>3, <2>4
  <2>6. k <= n /\ f[k] = g[k]
    BY <2>2, <2>5
  <2>7. \A i \in 1 .. k : i \in 1 .. k - 1 \/ i = k
    OBVIOUS
  <2>8. \A i \in 1 .. k : f[i] = g[i]
    BY <2>1, <2>6, <2>7
  <2> QED
    BY <2>6, <2>8
<1> HIDE DEF A
<1>3. 0 .. m \subseteq A
  BY <1>1, <1>2, PrefixInduction
<1>4. m \in A
  BY <1>3
<1> QED
  BY <1>4 DEF A

\* What sanitizing does to each piece.
LEMMA SanitizeShape ==
  ASSUME NEW text \in Seq(Pieces)
  PROVE  /\ Sanitize(text) \in Seq(Pieces \cup {"."}) /\ Len(Sanitize(text)) = Len(text)
         /\ \A i \in 1 .. Len(text) :
              /\ IsXChar(text[i]) => Sanitize(text)[i] = text[i]
              /\ ~IsXChar(text[i]) => Sanitize(text)[i] = "."
<1> DEFINE r == [i \in 1 .. Len(text) |-> IF IsXChar(text[i]) THEN text[i] ELSE "."]
<1>1. Sanitize(text) = r
  BY DEF Sanitize
<1>2. r \in Seq(Pieces \cup {"."}) /\ Len(r) = Len(text)
  <2> HIDE DEF IsXChar, Pieces
  <2> QED
    OBVIOUS
<1> QED
  BY <1>1, <1>2

\* Sanitizing takes no question mark and no code away, and makes none.
LEMMA SanitizeKeeps ==
  ASSUME NEW text \in Seq(Pieces), NEW i \in 1 .. Len(text)
  PROVE  /\ Sanitize(text)[i] # ">"
         /\ Sanitize(text)[i] = "?" <=> text[i] = "?"
         /\ Sanitize(text)[i] \in Codes <=> text[i] \in Codes
         /\ text[i] \in Codes => Sanitize(text)[i] = text[i]
<1>1. CASE IsXChar(text[i])
  <2>1. Sanitize(text)[i] = text[i] /\ text[i] # ">"
    BY <1>1, SanitizeShape DEF IsXChar
  <2> QED
    BY <2>1
<1>2. CASE ~IsXChar(text[i])
  <2>1. Sanitize(text)[i] = "." /\ text[i] \in {">", "_"}
    BY <1>2, SanitizeShape DEF IsXChar
  <2>2. "." \notin Codes /\ ">" \notin Codes /\ "_" \notin Codes
    BY NarrativeAssumption
  <2> QED
    BY <2>1, <2>2
<1> QED
  BY <1>1, <1>2

\* A part is sanitized as it is in the whole.
LEMMA SanitizePart ==
  ASSUME NEW text \in Seq(Pieces), NEW a \in 1 .. Len(text) + 1, NEW b \in a - 1 .. Len(text)
  PROVE  Sanitize(SubSeq(text, a, b)) = SubSeq(Sanitize(text), a, b)
<1> DEFINE t == Sanitize(text)
           p == SubSeq(text, a, b)
           q == SubSeq(t, a, b)
           X == Pieces \cup {"."}
<1>1. t \in Seq(X) /\ Len(t) = Len(text)
  BY SanitizeShape
<1>2. p \in Seq(Pieces) /\ Len(p) = b - a + 1 /\ \A i \in 1 .. b - a + 1 : p[i] = text[a + i - 1]
  BY PartShape
<1>3. Sanitize(p) \in Seq(X) /\ Len(Sanitize(p)) = Len(p)
  BY <1>2, SanitizeShape
<1>4. q \in Seq(X) /\ Len(q) = b - a + 1 /\ \A i \in 1 .. b - a + 1 : q[i] = t[a + i - 1]
  <2> HIDE DEF t, X
  <2> QED
    BY <1>1, PartShape
<1>5. \A i \in 1 .. b - a + 1 : Sanitize(p)[i] = q[i]
  <2> SUFFICES ASSUME NEW i \in 1 .. b - a + 1 PROVE Sanitize(p)[i] = q[i]
    OBVIOUS
  <2> DEFINE k == a + i - 1
  <2>1. k \in 1 .. Len(text) /\ i \in 1 .. Len(p) /\ p[i] = text[k] /\ q[i] = t[k]
    BY <1>2, <1>4
  <2> HIDE DEF k, p, q
  <2>2. /\ IsXChar(p[i]) => Sanitize(p)[i] = p[i]
        /\ ~IsXChar(p[i]) => Sanitize(p)[i] = "."
    BY <1>2, <2>1, SanitizeShape
  <2>3. /\ IsXChar(text[k]) => t[k] = text[k]
        /\ ~IsXChar(text[k]) => t[k] = "."
    BY <2>1, SanitizeShape
  <2> QED
    BY <2>1, <2>2, <2>3
<1>6. Len(Sanitize(p)) = Len(q) /\ \A i \in 1 .. Len(q) : Sanitize(p)[i] = q[i]
  BY <1>2, <1>3, <1>4, <1>5
<1> HIDE DEF p, q, X
<1>7. Sanitize(p) = q
  BY <1>3, <1>4, <1>6
<1> QED
  BY <1>7 DEF p, q

\* The markers of a text are in the order of their numbers.
LEMMA SplitsInOrder ==
  ASSUME NEW S, NEW s \in Seq(S), NEW parts \in Seq(Seq(S)) \ {<<>>}, NEW marker,
         NEW at, Splits(at, parts, s, marker, Len(s)),
         NEW i \in 1 .. Len(parts) + 1, NEW j \in 1 .. Len(parts) + 1
  PROVE  /\ at[i] \in 0 .. Len(s) + 1 /\ at[j] \in 0 .. Len(s) + 1
         /\ i < j <=> at[i] < at[j]
<1>1. /\ at[i] \in 0 .. Len(s) + 1 /\ at[j] \in 0 .. Len(s) + 1
      /\ i < j => at[i] < at[j]
      /\ j < i => at[j] < at[i]
  BY DEF Splits
<1>2. i < j \/ j < i \/ i = j
  OBVIOUS
<1> QED
  BY <1>1, <1>2

\* The part behind a marker ends before the next one.
LEMMA PartAfter ==
  ASSUME NEW S, NEW s \in Seq(S), NEW parts \in Seq(Seq(S)) \ {<<>>}, NEW marker,
         NEW at, Splits(at, parts, s, marker, Len(s)), NEW j \in 2 .. Len(parts)
  PROVE  TextAfter(s, marker, at[j]) = SubSeq(s, at[j] + 2, at[j + 1] - 1)
<1> DEFINE l == Len(parts)
           n == Len(s)
           a == at[j]
           b == at[j + 1]
           ends == {m \in a + 1 .. n : s[m] = marker}
<1>1. l \in Nat /\ n \in Nat /\ j \in 1 .. l + 1 /\ j + 1 \in 1 .. l + 1 /\ l + 1 \in 1 .. l + 1
  OBVIOUS
<1>2. a \in 0 .. n + 1 /\ b \in 0 .. n + 1 /\ a < b
  <2>1. j < j + 1
    OBVIOUS
  <2> QED
    BY <1>1, <2>1, SplitsInOrder
<1>3. /\ at[l + 1] = n + 1 /\ (\A k \in 2 .. l : s[at[k]] = marker)
      /\ \A i \in 1 .. n : s[i] = marker => \E k \in 2 .. l : at[k] = i
  BY DEF Splits
<1>4. ASSUME NEW m \in ends
      PROVE  b <= m /\ j # l
  <2>0. m \in 1 .. n /\ s[m] = marker /\ a < m
    BY <1>1, <1>2
  <2>1. PICK k \in 2 .. l : at[k] = m
    BY <1>3, <2>0
  <2>2. k \in 1 .. l + 1
    BY <1>1
  <2>3. j < k
    BY <1>1, <2>0, <2>1, <2>2, SplitsInOrder
  <2>4. j # l /\ (k = j + 1 \/ j + 1 < k)
    BY <1>1, <2>3
  <2>5. j + 1 < k => b < at[k]
    BY <1>1, <2>2, SplitsInOrder
  <2> QED
    BY <1>2, <2>0, <2>1, <2>4, <2>5, SMTT(60)
<1>5. TextAfter(s, marker, a) = SubSeq(s, a + 2, IF ends = {} THEN n ELSE Min(ends) - 1)
  BY DEF TextAfter
<1>6. CASE j = l
  <2>1. ends = {}
    BY <1>4, <1>6
  <2>2. b - 1 = n
    BY <1>1, <1>3, <1>6
  <2> HIDE DEF a, b, ends
  <2>3. TextAfter(s, marker, a) = SubSeq(s, a + 2, b - 1)
    BY <1>5, <2>1, <2>2
  <2> QED
    BY <2>3 DEF a, b
<1>7. CASE j # l
  <2>1. j + 1 \in 2 .. l /\ j + 1 < l + 1
    BY <1>1, <1>7
  <2>2. s[b] = marker /\ b < n + 1
    <3>1. b < at[l + 1]
      BY <1>1, <2>1, SplitsInOrder
    <3> QED
      BY <1>3, <2>1, <3>1
  <2>3. b \in ends
    BY <1>1, <1>2, <2>2
  <2>4. \A m \in ends : b <= m
    BY <1>4
  <2>5. ends \in SUBSET (0 .. n) /\ ends # {}
    BY <1>1, <1>2, <2>3
  <2> HIDE DEF a, b, ends
  <2>6. Min(ends) \in ends /\ \A p \in ends : Min(ends) <= p
    BY <1>1, <2>5, LeastOf
  <2>7. Min(ends) = b
    <3> DEFINE m == Min(ends)
    <3>1. m \in ends /\ m <= b
      BY <2>3, <2>6
    <3> HIDE DEF m
    <3>2. m \in 0 .. n /\ b \in 0 .. n /\ b <= m
      BY <2>3, <2>4, <2>5, <3>1
    <3>3. m = b
      BY <3>1, <3>2
    <3> QED
      BY <3>3 DEF m
  <2>8. TextAfter(s, marker, a) = SubSeq(s, a + 2, b - 1)
    BY <1>5, <2>3, <2>7
  <2> QED
    BY <2>8 DEF a, b
<1> QED
  BY <1>6, <1>7

\* A part without its first element.
LEMMA PartTail ==
  ASSUME NEW S, NEW s \in Seq(S), NEW a \in 1 .. Len(s), NEW b \in a .. Len(s)
  PROVE  /\ SubSeq(s, a, b) # <<>> /\ Head(SubSeq(s, a, b)) = s[a]
         /\ Tail(SubSeq(s, a, b)) = SubSeq(s, a + 1, b)
<1> DEFINE t == SubSeq(s, a, b)
<1>1. /\ t \in Seq(S) /\ Len(t) = b - a + 1
      /\ \A i \in 1 .. b - a + 1 : t[i] = s[a + i - 1]
  BY PartShape
<1>2. 1 \in 1 .. b - a + 1 /\ a + 1 - 1 = a
  OBVIOUS
<1>3. t # <<>> /\ t[1] = s[a]
  BY <1>1, <1>2
<1>4. Head(t) = t[1]
  OBVIOUS
<1>5. Tail(t) = SubSeq(t, 2, b - a + 1)
  <2> HIDE DEF t
  <2> DEFINE r == Tail(t)
             q == SubSeq(t, 2, b - a + 1)
  <2>1. Len(t) >= 1 /\ Len(t) = b - a + 1
    BY <1>1
  <2>2. r \in Seq(S) /\ Len(r) = b - a /\ \A i \in 1 .. b - a : r[i] = t[i + 1]
    BY <1>1, <1>3, <2>1
  <2>3. q \in Seq(S) /\ Len(q) = b - a /\ \A i \in 1 .. b - a : q[i] = t[i + 1]
    BY <1>1, <2>1
  <2> HIDE DEF r, q
  <2>4. r = q
    BY <2>2, <2>3
  <2> QED
    BY <2>4 DEF r, q
<1>6. SubSeq(t, 2, b - a + 1) = SubSeq(s, a + 2 - 1, a + (b - a + 1) - 1)
  BY PartOfPart
<1>7. a + 2 - 1 = a + 1 /\ a + (b - a + 1) - 1 = b
  OBVIOUS
<1> HIDE DEF t
<1>8. t # <<>> /\ Head(t) = s[a] /\ Tail(t) = SubSeq(s, a + 1, b)
  BY <1>3, <1>4, <1>5, <1>6, <1>7
<1> QED
  BY <1>8 DEF t

\* Which parts of a text begin with a code.
Coded(parts) == {j \in DOMAIN parts : parts[j] # <<>> /\ Head(parts[j]) \in Codes}

\* They are the ones behind a marker that a code follows.
LEMMA CodedParts ==
  ASSUME NEW S, NEW s \in Seq(S), NEW parts \in Seq(Seq(S)) \ {<<>>}, NEW marker,
         NEW at, Splits(at, parts, s, marker, Len(s)), s # <<>>, s[1] = marker,
         marker \notin Codes
  PROVE  /\ 1 \notin Coded(parts)
         /\ \A j \in 2 .. Len(parts) : j \in Coded(parts) <=> at[j] \in Marked(s, marker)
<1> DEFINE l == Len(parts)
           n == Len(s)
<1>1. l \in Nat /\ l >= 1 /\ n \in Nat /\ n >= 1 /\ DOMAIN parts = 1 .. l
  OBVIOUS
<1>2. /\ at[1] = 0 /\ at[l + 1] = n + 1 /\ (\A k \in 2 .. l : s[at[k]] = marker)
      /\ (\A k \in 1 .. l : parts[k] = SubSeq(s, at[k] + 1, at[k + 1] - 1))
      /\ \A i \in 1 .. n : s[i] = marker => \E k \in 2 .. l : at[k] = i
  BY DEF Splits
<1>3. 1 \notin Coded(parts)
  <2>1. PICK k \in 2 .. l : at[k] = 1
    BY <1>1, <1>2
  <2>2. l >= 2 /\ 2 \in 1 .. l + 1 /\ k \in 1 .. l + 1 /\ 1 \in 1 .. l + 1 /\ 1 < 2
    BY <1>1
  <2>3. at[2] <= 1
    <3>1. CASE k = 2
      BY <2>1, <3>1
    <3>2. CASE 2 < k
      BY <2>1, <2>2, <3>2, SplitsInOrder
    <3> QED
      BY <3>1, <3>2
  <2>4. at[2] \in Nat /\ at[1] < at[2]
    BY <2>2, SplitsInOrder
  <2>5. at[2] = 1
    BY <1>2, <2>3, <2>4
  <2>6. parts[1] = SubSeq(s, at[1] + 1, at[1 + 1] - 1)
    <3>1. 1 \in 1 .. l
      BY <1>1
    <3> QED
      BY Zenon, <1>2, <3>1
  <2>7. parts[1] = SubSeq(s, 0 + 1, 1 - 1)
    BY <1>2, <2>5, <2>6
  <2>8. SubSeq(s, 0 + 1, 1 - 1) = <<>>
    OBVIOUS
  <2> QED
    BY <2>7, <2>8 DEF Coded
<1> HIDE DEF l
<1>4. ASSUME NEW j \in 2 .. l PROVE j \in Coded(parts) <=> at[j] \in Marked(s, marker)
  <2> DEFINE a == at[j]
             b == at[j + 1]
             p == parts[j]
  <2>1. /\ j \in 1 .. l /\ j \in 1 .. l + 1 /\ j + 1 \in 1 .. l + 1
        /\ 1 \in 1 .. l + 1 /\ 1 < j /\ j < j + 1
    BY <1>1
  <2>2. a \in 0 .. n + 1 /\ b \in 0 .. n + 1 /\ a < b /\ 0 < a
    <3>1. a \in 0 .. n + 1 /\ b \in 0 .. n + 1 /\ (j < j + 1 <=> a < b)
      BY <1>2, <2>1, SplitsInOrder DEF l
    <3>2. 1 < j <=> at[1] < a
      BY <1>2, <2>1, SplitsInOrder DEF l
    <3> QED
      BY <1>2, <2>1, <3>1, <3>2
  <2>3. p = SubSeq(s, a + 1, b - 1) /\ s[a] = marker
    BY <1>2, <2>1
  <2>4. j \in Coded(parts) <=> p # <<>> /\ Head(p) \in Codes
    BY <1>1, <2>1 DEF Coded
  <2>5. a \in Marked(s, marker) <=> a \in 1 .. n - 1 /\ s[a + 1] \in Codes
    BY <2>3 DEF Marked
  <2>6. ASSUME b = a + 1 PROVE p = <<>> /\ ~(a \in 1 .. n - 1 /\ s[a + 1] \in Codes)
    <3>1. SubSeq(s, a + 1, (a + 1) - 1) = <<>>
      BY <2>2
    <3>2. CASE j = l
      <4>1. b = n + 1
        BY <1>2, <3>2
      <4> HIDE DEF a, b, p
      <4>2. p = <<>>
        BY <2>3, <2>6, <3>1
      <4>3. a \notin 1 .. n - 1
        BY <1>1, <2>6, <4>1
      <4> QED
        BY <4>2, <4>3
    <3>3. CASE j # l
      <4>1. j + 1 \in 2 .. l
        BY <1>1, <3>3
      <4>2. s[b] = marker
        BY <1>2, <4>1
      <4> HIDE DEF a, b, p
      <4> QED
        BY <2>3, <2>6, <3>1, <4>2
    <3> QED
      BY <3>2, <3>3
  <2>7. ASSUME b # a + 1 PROVE p # <<>> /\ Head(p) = s[a + 1] /\ a \in 1 .. n - 1
    <3> HIDE DEF a, b, p
    <3>1. a + 1 \in 1 .. n /\ b - 1 \in a + 1 .. n
      BY <1>1, <2>2, <2>7
    <3>2. SubSeq(s, a + 1, b - 1) # <<>> /\ Head(SubSeq(s, a + 1, b - 1)) = s[a + 1]
      BY <3>1, PartTail
    <3>3. a \in 1 .. n - 1
      BY <2>2, <3>1
    <3> QED
      BY <2>3, <3>2, <3>3
  <2> HIDE DEF a, b, p
  <2>8. j \in Coded(parts) <=> a \in Marked(s, marker)
    BY <2>4, <2>5, <2>6, <2>7
  <2> QED
    BY <2>8 DEF a
<1> QED
  BY <1>3, <1>4 DEF l

\* The pairs of a text that begins with a marker are those of its markers.
LEMMA PairsShape ==
  ASSUME NEW S, NEW s \in Seq(S), NEW marker \in {"?", ">"}, s # <<>>, s[1] = marker,
         marker \notin Codes
  PROVE  \E f : /\ Lists(f, Len(Structured(s)), Marked(s, marker))
                /\ Len(Structured(s)) \in Nat
                /\ Structured(s) = [p \in 1 .. Len(Structured(s)) |->
                     [code |-> s[f[p] + 1], text |-> TextAfter(s, marker, f[p])]]
<1> DEFINE parts == Split(s, marker)
           J == Coded(parts)
           made == Keep(parts, J)
           l == Len(parts)
           n == Len(s)
           m == Len(made)
           M == Marked(s, marker)
<1>1. parts \in Seq(Seq(S)) \ {<<>>} /\ \E at : Splits(at, parts, s, marker, n)
  BY PieceShape
<1>2. PICK at : Splits(at, parts, s, marker, n)
  BY <1>1
<1>3. Structured(s) = [i \in DOMAIN made |-> [code |-> Head(made[i]), text |-> Tail(made[i])]]
  <2>1. Head(s) = marker
    OBVIOUS
  <2>2. J = {i \in DOMAIN parts : parts[i] # <<>> /\ Head(parts[i]) \in Codes}
    BY DEF Coded
  <2> HIDE DEF parts
  <2>3. made = Keep(parts, {i \in DOMAIN parts : parts[i] # <<>> /\ Head(parts[i]) \in Codes})
    BY <2>2
  <2> HIDE DEF J, made
  <2> QED
    BY <2>1, <2>3 DEF Structured, parts
<1> HIDE DEF parts
<1>4. J \in SUBSET (1 .. l)
  BY <1>1 DEF Coded
<1> HIDE DEF J
<1> DEFINE X == Seq(S)
<1>5. made \in Seq(X) /\ \E to : IsKept(parts, J, made, to)
  <2>1. parts \in Seq(X)
    BY <1>1
  <2> HIDE DEF X
  <2> QED
    BY <1>4, <2>1, KeepShape
<1>6. PICK to : IsKept(parts, J, made, to)
  BY <1>5
<1>7. m \in Nat /\ DOMAIN made = 1 .. m
  BY <1>5
<1> HIDE DEF made, m
<1>8. /\ to \in [1 .. m -> J] /\ (\A p \in 1 .. m : made[p] = parts[to[p]])
      /\ (\A p, q \in 1 .. m : p < q => to[p] < to[q])
      /\ (\A i \in J : \E p \in 1 .. m : to[p] = i)
  BY <1>6 DEF IsKept, m
<1>9. 1 \notin J /\ \A j \in 2 .. l : j \in J <=> at[j] \in M
  BY <1>1, <1>2, CodedParts DEF J
<1>10. l \in Nat /\ n \in Nat
  BY <1>1
<1>11. \A p \in 1 .. m : to[p] \in J /\ to[p] \in 2 .. l /\ to[p] \in 1 .. l + 1
  <2> SUFFICES ASSUME NEW p \in 1 .. m PROVE to[p] \in J /\ to[p] \in 2 .. l /\ to[p] \in 1 .. l + 1
    OBVIOUS
  <2>1. to[p] \in J /\ to[p] \in 1 .. l
    BY <1>4, <1>8
  <2>2. to[p] # 1
    BY <1>9, <2>1
  <2> QED
    BY <1>10, <2>1, <2>2
<1> DEFINE f == [p \in 1 .. m |-> at[to[p]]]
<1>12. \A p \in 1 .. m : f[p] = at[to[p]] /\ f[p] \in M
  BY <1>9, <1>11
<1>13. Lists(f, m, M)
  <2>1. f \in [1 .. m -> M]
    BY <1>12
  <2>2. ASSUME NEW p \in 1 .. m, NEW q \in 1 .. m, p < q PROVE f[p] < f[q]
    <3>1. to[p] < to[q] /\ to[p] \in 1 .. l + 1 /\ to[q] \in 1 .. l + 1
      BY <1>8, <1>11, <2>2
    <3>2. at[to[p]] < at[to[q]]
      BY <1>1, <1>2, <3>1, SplitsInOrder
    <3> QED
      BY <1>12, <3>2
  <2>3. ASSUME NEW i \in M PROVE \E p \in 1 .. m : f[p] = i
    <3>1. i \in 1 .. n /\ s[i] = marker
      BY DEF Marked
    <3>2. PICK j \in 2 .. l : at[j] = i
      BY <1>2, <3>1 DEF Splits
    <3>3. j \in J
      BY <1>9, <3>2
    <3>4. PICK p \in 1 .. m : to[p] = j
      BY <1>8, <3>3
    <3> QED
      BY <1>12, <3>2, <3>4
  <2> HIDE DEF f, M
  <2> QED
    BY <2>1, <2>2, <2>3 DEF Lists
<1>14. ASSUME NEW p \in 1 .. m
       PROVE  Head(made[p]) = s[f[p] + 1] /\ Tail(made[p]) = TextAfter(s, marker, f[p])
  <2> DEFINE j == to[p]
             a == at[j]
             b == at[j + 1]
  <2>1. /\ j \in 2 .. l /\ j \in 1 .. l /\ j \in 1 .. l + 1 /\ j + 1 \in 1 .. l + 1 /\ j < j + 1
        /\ 1 \in 1 .. l + 1 /\ 1 < j
    BY <1>10, <1>11
  <2>2. made[p] = parts[j] /\ f[p] = a /\ j \in J
    BY <1>8, <1>11, <1>12
  <2>3. parts[j] = SubSeq(s, a + 1, b - 1) /\ at[1] = 0
    BY <1>2, <2>1 DEF Splits
  <2>4. a \in 0 .. n + 1 /\ b \in 0 .. n + 1 /\ a < b /\ 0 < a
    <3> HIDE DEF j
    <3>1. a \in 0 .. n + 1 /\ b \in 0 .. n + 1 /\ (j < j + 1 <=> a < b)
      BY <1>1, <1>2, <2>1, SplitsInOrder
    <3>2. 1 < j <=> at[1] < a
      BY <1>1, <1>2, <2>1, SplitsInOrder
    <3> QED
      BY <2>1, <2>3, <3>1, <3>2
  <2>5. parts[j] # <<>>
    BY <2>2 DEF J, Coded
  <2>6. b # a + 1
    <3>1. SubSeq(s, a + 1, (a + 1) - 1) = <<>>
      BY <2>4
    <3> QED
      BY <2>3, <2>5, <3>1
  <2>7. a + 1 \in 1 .. n /\ b - 1 \in a + 1 .. n
    BY <1>10, <2>4, <2>6
  <2>8. TextAfter(s, marker, a) = SubSeq(s, a + 2, b - 1)
    <3> HIDE DEF j
    <3>1. j \in 2 .. Len(parts)
      BY <2>1
    <3> QED
      BY <1>1, <1>2, <3>1, PartAfter
  <2> HIDE DEF a, b, j, f
  <2>9. /\ Head(SubSeq(s, a + 1, b - 1)) = s[a + 1]
        /\ Tail(SubSeq(s, a + 1, b - 1)) = SubSeq(s, (a + 1) + 1, b - 1)
    BY <2>7, PartTail
  <2>10. (a + 1) + 1 = a + 2
    BY <2>4
  <2> QED
    BY <2>2, <2>3, <2>8, <2>9, <2>10
<1> HIDE DEF f, M
<1>15. Structured(s) =
        [p \in 1 .. m |-> [code |-> s[f[p] + 1], text |-> TextAfter(s, marker, f[p])]]
  BY <1>3, <1>7, <1>14
<1>16. Len(Structured(s)) = m
  BY <1>7, <1>15
<1> QED
  BY <1>7, <1>13, <1>15, <1>16 DEF M

\* Markers lists where the markers are.
LEMMA MarkersList ==
  ASSUME NEW S, NEW text \in Seq(S), NEW marker
  PROVE  /\ Lists(Markers(text, marker), Len(Markers(text, marker)), Marked(text, marker))
         /\ Len(Markers(text, marker)) \in Nat
<1> DEFINE n == Len(text)
           s == [i \in 1 .. n |-> i]
           M == Marked(text, marker)
           c == Keep(s, M)
<1>1. s \in Seq(Nat) /\ Len(s) = n /\ (\A i \in 1 .. n : s[i] = i) /\ DOMAIN text = 1 .. n
  OBVIOUS
<1>2. Markers(text, marker) = c
  BY <1>1 DEF Markers
<1>3. n \in Nat /\ M \in SUBSET (1 .. n)
  BY DEF Marked
<1> HIDE DEF s, n, M
<1>4. c \in Seq(Nat) /\ \E at : IsKept(s, M, c, at)
  BY <1>1, <1>3, KeepShape
<1>5. PICK at : IsKept(s, M, c, at)
  BY <1>4
<1> HIDE DEF c
<1> DEFINE m == Len(c)
<1>6. /\ at \in [1 .. m -> M] /\ (\A j \in 1 .. m : c[j] = s[at[j]])
      /\ (\A j, k \in 1 .. m : j < k => at[j] < at[k])
      /\ \A i \in M : \E j \in 1 .. m : at[j] = i
  BY <1>5 DEF IsKept
<1>7. m \in Nat /\ c \in [1 .. m -> Nat]
  BY <1>4
<1> HIDE DEF m
<1>8. \A j \in 1 .. m : c[j] = at[j] /\ c[j] \in M
  <2> SUFFICES ASSUME NEW j \in 1 .. m PROVE c[j] = at[j] /\ at[j] \in M
    OBVIOUS
  <2>1. at[j] \in M /\ c[j] = s[at[j]]
    BY <1>6
  <2>2. at[j] \in 1 .. n
    BY <1>3, <2>1
  <2> QED
    BY <1>1, <2>1, <2>2
<1>9. c \in [1 .. m -> M]
  BY <1>7, <1>8
<1>10. Lists(c, m, M)
  BY <1>6, <1>8, <1>9 DEF Lists
<1> QED
  BY <1>2, <1>7, <1>10 DEF M, m

\* Sanitizing moves no marker.
LEMMA SameMarked ==
  ASSUME NEW text \in Seq(Pieces)
  PROVE  Marked(Sanitize(text), "?") = Marked(text, "?")
<1> DEFINE n == Len(text)
           t == Sanitize(text)
<1>1. Len(t) = n /\ n \in Nat
  BY SanitizeShape
<1>2. \A i \in 1 .. n : (t[i] = "?" <=> text[i] = "?") /\ (t[i] \in Codes <=> text[i] \in Codes)
  BY SanitizeKeeps
<1> HIDE DEF n, t
<1>3. \A i \in 1 .. n - 1 : i \in 1 .. n /\ i + 1 \in 1 .. n
  BY <1>1
<1> QED
  BY <1>1, <1>2, <1>3 DEF Marked, n, t

\* What stands behind a marker, of a narrative and of the sanitized one.
LEMMA AfterMarker ==
  ASSUME NEW text \in Seq(Pieces), NEW i \in Marked(text, "?")
  PROVE  \E e \in i + 1 .. Len(text) :
           /\ TextAfter(Sanitize(text), "?", i) = SubSeq(Sanitize(text), i + 2, e)
           /\ TextAfter(text, "?", i) = SubSeq(text, i + 2, e)
<1> DEFINE n == Len(text)
           t == Sanitize(text)
           ends == {j \in i + 1 .. n : text[j] = "?"}
           e == IF ends = {} THEN n ELSE Min(ends) - 1
<1>1. Len(t) = n /\ n \in Nat /\ i \in 1 .. n - 1 /\ text[i + 1] \in Codes
  BY SanitizeShape DEF Marked
<1>2. \A j \in 1 .. n : t[j] = "?" <=> text[j] = "?"
  BY SanitizeKeeps
<1> HIDE DEF t
<1>3. ends = {j \in i + 1 .. Len(t) : t[j] = "?"}
  BY <1>1, <1>2
<1>4. e \in i + 1 .. n
  <2>1. CASE ends = {}
    BY <1>1, <2>1
  <2>2. CASE ends # {}
    <3>1. ends \in SUBSET (0 .. n)
      BY <1>1
    <3>2. text[i + 1] # "?"
      BY <1>1, NarrativeAssumption
    <3>3. \A j \in ends : j \in i + 2 .. n
      BY <1>1, <3>2
    <3> HIDE DEF ends
    <3>4. Min(ends) \in ends
      BY <1>1, <2>2, <3>1, LeastOf
    <3>5. Min(ends) \in i + 2 .. n
      BY <3>3, <3>4
    <3> DEFINE m == Min(ends)
    <3> HIDE DEF m
    <3>6. m - 1 \in i + 1 .. n
      BY <1>1, <3>5 DEF m
    <3> QED
      BY <2>2, <3>6 DEF m
  <2> QED
    BY <2>1, <2>2
<1>5. TextAfter(t, "?", i) = SubSeq(t, i + 2, e) /\ TextAfter(text, "?", i) = SubSeq(text, i + 2, e)
  BY <1>1, <1>3 DEF TextAfter
<1> HIDE DEF e
<1> QED
  BY <1>4, <1>5 DEF t, n

\* What stands behind a marker is sanitized as it is in the whole.
LEMMA SanitizeAfter ==
  ASSUME NEW text \in Seq(Pieces), NEW i \in Marked(text, "?")
  PROVE  TextAfter(Sanitize(text), "?", i) = Sanitize(TextAfter(text, "?", i))
<1>1. PICK e \in i + 1 .. Len(text) :
        /\ TextAfter(Sanitize(text), "?", i) = SubSeq(Sanitize(text), i + 2, e)
        /\ TextAfter(text, "?", i) = SubSeq(text, i + 2, e)
  BY AfterMarker
<1> DEFINE a == i + 2
<1>2. a \in 1 .. Len(text) + 1 /\ e \in a - 1 .. Len(text)
  BY DEF Marked
<1> HIDE DEF a
<1>3. Sanitize(SubSeq(text, a, e)) = SubSeq(Sanitize(text), a, e)
  BY <1>2, SanitizePart
<1> QED
  BY <1>1, <1>3 DEF a

\* Only a narrative that begins with a question mark has pairs.
LEMMA NoPairs ==
  ASSUME NEW text \in Seq(Pieces), text = <<>> \/ text[1] # "?"
  PROVE  Structured(Sanitize(text)) = <<>>
<1> DEFINE t == Sanitize(text)
<1>1. Len(t) = Len(text) /\ t \in Seq(Pieces \cup {"."})
  BY SanitizeShape
<1>2. CASE text = <<>>
  <2>1. t = <<>>
    BY <1>1, <1>2
  <2> QED
    BY <2>1 DEF Structured
<1>3. CASE text # <<>>
  <2>1. 1 \in 1 .. Len(text) /\ text[1] # "?"
    BY <1>3
  <2>2. t[1] # "?" /\ t[1] # ">"
    BY <2>1, SanitizeKeeps
  <2> HIDE DEF t
  <2>3. t # <<>> /\ Head(t) = t[1]
    BY <1>1, <2>1
  <2>4. Head(t) \notin {"?", ">"}
    BY <2>2, <2>3
  <2>5. Structured(t) = <<>>
    BY <2>4 DEF Structured
  <2> QED
    BY <2>5 DEF t
<1> QED
  BY <1>2, <1>3

\* The pairs of a narrative that begins with a question mark.
LEMMA QuestionPairs ==
  ASSUME NEW text \in Seq(Pieces), text # <<>>, text[1] = "?"
  PROVE  LET t == Sanitize(text)
             pairs == Structured(t)
         IN \E f : /\ Lists(f, Len(pairs), Marked(text, "?")) /\ Len(pairs) \in Nat
                   /\ pairs = [p \in 1 .. Len(pairs) |->
                        [code |-> t[f[p] + 1], text |-> TextAfter(t, "?", f[p])]]
<1> DEFINE t == Sanitize(text)
           pairs == Structured(t)
           X == Pieces \cup {"."}
<1>1. t \in Seq(X) /\ Len(t) = Len(text)
  BY SanitizeShape
<1>2. 1 \in 1 .. Len(text)
  OBVIOUS
<1>3. t[1] = "?" /\ t # <<>>
  <2>1. t[1] = "?"
    BY <1>2, SanitizeKeeps
  <2>2. Len(t) >= 1
    BY <1>1, <1>2
  <2> HIDE DEF t
  <2> QED
    BY <1>1, <2>1, <2>2
<1>4. "?" \notin Codes /\ "?" \in {"?", ">"}
  BY NarrativeAssumption
<1>5. Marked(t, "?") = Marked(text, "?")
  BY SameMarked
<1> HIDE DEF t, X
<1>6. PICK f : /\ Lists(f, Len(pairs), Marked(t, "?")) /\ Len(pairs) \in Nat
               /\ pairs = [p \in 1 .. Len(pairs) |->
                    [code |-> t[f[p] + 1], text |-> TextAfter(t, "?", f[p])]]
  BY <1>1, <1>3, <1>4, PairsShape
<1> QED
  BY <1>5, <1>6 DEF t

\* A list and a sequence of the same numbers are the same.
LEMMA SameList ==
  ASSUME NEW I \in SUBSET Nat, NEW m \in Nat, NEW n \in Nat,
         NEW f, Lists(f, m, I), NEW g, Lists(g, n, I)
  PROVE  m = n /\ \A j \in 1 .. m : f[j] = g[j]
<1>1. m <= n /\ \A j \in 1 .. m : f[j] = g[j]
  BY ListsAgree
<1>2. n <= m
  BY ListsAgree
<1> QED
  BY <1>1, <1>2

\* The pairs are those of the question marks (the property, of one narrative).
LEMMA QuestionMarksMake ==
  ASSUME NEW text \in Seq(Pieces), text # <<>>, text[1] = "?"
  PROVE  MarkersMake(text, "?", Structured(Sanitize(text)))
<1> DEFINE t == Sanitize(text)
           pairs == Structured(t)
           g == Markers(text, "?")
           M == Marked(text, "?")
<1>1. PICK f : /\ Lists(f, Len(pairs), M) /\ Len(pairs) \in Nat
               /\ pairs = [p \in 1 .. Len(pairs) |->
                    [code |-> t[f[p] + 1], text |-> TextAfter(t, "?", f[p])]]
  BY QuestionPairs
<1>2. Lists(g, Len(g), M) /\ Len(g) \in Nat
  BY MarkersList
<1>3. M \in SUBSET Nat
  BY DEF Marked
<1> HIDE DEF pairs, g
<1>4. Len(pairs) = Len(g) /\ \A p \in 1 .. Len(pairs) : f[p] = g[p]
  <2> DEFINE m == Len(pairs)
             n == Len(g)
  <2>1. Lists(f, m, M) /\ m \in Nat /\ Lists(g, n, M) /\ n \in Nat
    BY <1>1, <1>2
  <2> HIDE DEF M, m, n
  <2>2. m = n /\ \A p \in 1 .. m : f[p] = g[p]
    BY ONLY <1>3, <2>1, SameList
  <2> QED
    BY <2>2 DEF m, n
<1>5. DOMAIN pairs = 1 .. Len(pairs)
  BY <1>1
<1>6. ASSUME NEW p \in DOMAIN pairs
      PROVE  pairs[p].code = text[g[p] + 1] /\ pairs[p].text = Sanitize(TextAfter(text, "?", g[p]))
  <2> DEFINE i == f[p]
  <2>1. i \in M /\ g[p] = i
    BY <1>1, <1>4, <1>5 DEF Lists
  <2>2. pairs[p] = [code |-> t[i + 1], text |-> TextAfter(t, "?", i)]
    BY <1>1, <1>5
  <2> HIDE DEF i
  <2>3. i + 1 \in 1 .. Len(text) /\ text[i + 1] \in Codes
    BY <2>1 DEF Marked
  <2>4. t[i + 1] = text[i + 1]
    BY <2>3, SanitizeKeeps
  <2>5. TextAfter(t, "?", i) = Sanitize(TextAfter(text, "?", i))
    BY <2>1, SanitizeAfter
  <2> QED
    BY <2>1, <2>2, <2>4, <2>5
<1> HIDE DEF t, M
<1> QED
  BY <1>4, <1>6 DEF MarkersMake, pairs, g, t

\* A part with its first element in front.
LEMMA PartHeaded ==
  ASSUME NEW S, NEW s \in Seq(S), NEW a \in 1 .. Len(s), NEW b \in a .. Len(s)
  PROVE  /\ SubSeq(s, a, b) = <<s[a]>> \o SubSeq(s, a + 1, b)
         /\ Len(SubSeq(s, a + 1, b)) = b - a
<1> DEFINE p == SubSeq(s, a, b)
           q == SubSeq(s, a + 1, b)
           h == <<s[a]>>
           r == h \o q
<1>1. /\ p \in Seq(S) /\ Len(p) = b - a + 1
      /\ \A i \in 1 .. b - a + 1 : p[i] = s[a + i - 1]
  BY PartShape
<1>2. /\ q \in Seq(S) /\ Len(q) = b - a
      /\ \A i \in 1 .. b - a : q[i] = s[a + i]
  OBVIOUS
<1>3. h \in Seq(S) /\ Len(h) = 1 /\ h[1] = s[a]
  OBVIOUS
<1> HIDE DEF p, q, h
<1>4. /\ r \in Seq(S) /\ Len(r) = Len(h) + Len(q)
      /\ \A i \in 1 .. Len(h) : r[i] = h[i]
      /\ \A i \in Len(h) + 1 .. Len(h) + Len(q) : r[i] = q[i - Len(h)]
  BY <1>2, <1>3, Concat
<1> HIDE DEF r
<1>5. Len(r) = Len(p)
  BY <1>1, <1>2, <1>3, <1>4
<1>6. \A i \in 1 .. Len(p) : r[i] = p[i]
  <2> SUFFICES ASSUME NEW i \in 1 .. b - a + 1 PROVE r[i] = p[i]
    BY <1>1
  <2>1. CASE i = 1
    <3>1. a + 1 - 1 = a /\ 1 \in 1 .. 1
      OBVIOUS
    <3> QED
      BY <1>1, <1>3, <1>4, <2>1, <3>1
  <2>2. CASE i # 1
    <3>1. i \in 1 + 1 .. 1 + (b - a) /\ i - 1 \in 1 .. b - a /\ a + (i - 1) = a + i - 1
      BY <2>2
    <3>2. r[i] = q[i - 1]
      BY <1>2, <1>3, <1>4, <3>1
    <3>3. q[i - 1] = s[a + i - 1]
      BY <1>2, <3>1
    <3> QED
      BY <1>1, <3>2, <3>3
  <2> QED
    BY <2>1, <2>2
<1>7. p = r
  BY <1>1, <1>4, <1>5, <1>6
<1> QED
  BY <1>2, <1>7 DEF p, q, r, h

\* What is stored in a pair stands in the narrative.
LEMMA PairsStand ==
  ASSUME NEW text \in Seq(Pieces), NEW p \in DOMAIN Structured(Sanitize(text))
  PROVE  LET t == Sanitize(text)
             pair == Structured(t)[p]
         IN \E i \in DOMAIN text : SubSeq(t, i, i + Len(pair.text)) = <<pair.code>> \o pair.text
<1> DEFINE t == Sanitize(text)
           pairs == Structured(t)
           X == Pieces \cup {"."}
<1>0. text # <<>> /\ text[1] = "?"
  <2> SUFFICES ASSUME text = <<>> \/ text[1] # "?" PROVE FALSE
    OBVIOUS
  <2>1. pairs = <<>>
    BY NoPairs
  <2> QED
    BY <2>1
<1>1. PICK f : /\ Lists(f, Len(pairs), Marked(text, "?")) /\ Len(pairs) \in Nat
               /\ pairs = [q \in 1 .. Len(pairs) |->
                    [code |-> t[f[q] + 1], text |-> TextAfter(t, "?", f[q])]]
  BY <1>0, QuestionPairs
<1> DEFINE i == f[p]
<1> HIDE DEF pairs
<1>2. p \in 1 .. Len(pairs)
  BY <1>1 DEF pairs
<1>3. i \in Marked(text, "?") /\ pairs[p] = [code |-> t[i + 1], text |-> TextAfter(t, "?", i)]
  BY <1>1, <1>2 DEF Lists
<1> HIDE DEF i
<1>4. PICK e \in i + 1 .. Len(text) : TextAfter(t, "?", i) = SubSeq(t, i + 2, e)
  BY <1>3, AfterMarker
<1>5. t \in Seq(X) /\ Len(t) = Len(text)
  BY SanitizeShape
<1> HIDE DEF t, X
<1> DEFINE a == i + 1
<1>6. a \in 1 .. Len(t) /\ e \in a .. Len(t) /\ a + 1 = i + 2 /\ a \in DOMAIN text
  BY <1>3, <1>5 DEF Marked
<1> HIDE DEF a
<1>7. SubSeq(t, a, e) = <<t[a]>> \o SubSeq(t, a + 1, e) /\ Len(SubSeq(t, a + 1, e)) = e - a
  BY <1>5, <1>6, PartHeaded
<1>8. pairs[p].code = t[a] /\ pairs[p].text = SubSeq(t, a + 1, e)
  BY <1>3, <1>4, <1>6 DEF a
<1>9. a + Len(pairs[p].text) = e
  <2>1. Len(pairs[p].text) = e - a
    BY <1>7, <1>8
  <2>2. a + (e - a) = e
    BY <1>6
  <2> QED
    BY <2>1, <2>2
<1>10. SubSeq(t, a, a + Len(pairs[p].text)) = <<pairs[p].code>> \o pairs[p].text
  BY <1>7, <1>8, <1>9
<1> QED
  BY <1>6, <1>10 DEF pairs, t
-----------------------------------------------------------------------------
(***************************************************************************)
(* The inductive invariant: beside what the theorems state, where the      *)
(* position is when the dates are read, and what of a whole line they are. *)
(***************************************************************************)
Reading ==
  /\ stage # "value_date" => line.value_date = written.value
  /\ stage = "entry_date" => pos = 6
  /\ stage \notin {"value_date", "entry_date"} =>
       line.entry_date = IF written.entry = None THEN None
                         ELSE ParseMmdd(written.entry.month, written.entry.day, written.value)

LineInv ==
  /\ written \in Written /\ head \in Seq(Int) /\ InLine
  /\ {"value_date", "entry_date"} \subseteq DOMAIN line
  /\ line.value_date = None \/ IsDate(line.value_date)
  /\ NeverFarApart
  /\ stage = "value_date" => pos = 0
  /\ stage \in {"value_date", "entry_date"} => line.entry_date = None
  /\ Whole => Reading

\* What is left of the line, character by character.
LEMMA RestShape ==
  ASSUME head \in Seq(Int), pos \in 0 .. Len(head)
  PROVE  /\ Rest \in Seq(Int) /\ Len(Rest) = Len(head) - pos
         /\ \A i \in 1 .. Len(Rest) : Rest[i] = head[pos + i]
<1> DEFINE l == Len(head)
<1>1. l \in Nat /\ pos \in 0 .. l
  OBVIOUS
<1>2. Rest = SubSeq(head, pos + 1, l)
  BY DEF Rest
<1> QED
  BY <1>1, <1>2

\* The first part of the invariant holds of a line nobody has begun to read.
LEMMA InitEstablishes == Init => LineInv
<1> SUFFICES ASSUME Init PROVE LineInv
  OBVIOUS
<1> DEFINE e == Encode(written)
<1>1. written \in Written
  BY DEF Init
<1>2. e \in Seq(Int)
  BY <1>1, EncodeShape DEF DateDigits
<1>3. PICK n \in 0 .. Len(e) : head = SubSeq(e, 1, n)
  BY DEF Init
<1>4. head \in Seq(Int)
  <2> HIDE DEF e
  <2> QED
    BY <1>2, <1>3
<1>5. pos = 0 /\ stage = "value_date"
  BY DEF Init
<1>6. /\ {"value_date", "entry_date"} \subseteq DOMAIN line
      /\ line.value_date = None /\ line.entry_date = None
  BY DEF Init
<1>7. InLine
  BY <1>4, <1>5 DEF InLine
<1>8. Reading
  BY <1>5 DEF Reading
<1> QED
  BY <1>1, <1>4, <1>5, <1>6, <1>7, <1>8 DEF LineInv, NeverFarApart

\* The six digits are a date or None, and the written date if they are its.
LEMMA YymmddIsDate ==
  ASSUME head \in Seq(Int), pos = 0
  PROVE  /\ YymmddNext = None \/ IsDate(YymmddNext)
         /\ \A w \in Written : head = Encode(w) => YymmddNext = w.value
<1>1. /\ Rest \in Seq(Int) /\ Len(Rest) = Len(head)
      /\ \A i \in 1 .. Len(Rest) : Rest[i] = head[i]
  <2>1. pos \in 0 .. Len(head) /\ Len(head) \in Nat
    OBVIOUS
  <2> QED
    BY <2>1, RestShape
<1>2. YymmddNext = None \/ IsDate(YymmddNext)
  <2>1. CASE NextAre(6, IsDigit)
    <3>1. PivotYear(Two(1)) \in Int
      <4>1. \A i \in 1 .. 6 : Rest[i] \in 0 .. 9
        BY <2>1 DEF NextAre, IsDigit
      <4>2. Rest[1] \in Int /\ Rest[2] \in Int
        BY <4>1
      <4> QED
        BY <4>2 DEF Two, PivotYear
    <3> QED
      BY <2>1, <3>1, FromFields DEF YymmddNext, ParseYymmdd
  <2> QED
    BY <2>1 DEF YymmddNext
<1>3. ASSUME NEW w \in Written, head = Encode(w) PROVE YymmddNext = w.value
  <2>1. DateDigits(head, w.value)
    BY <1>3, EncodeShape
  <2>2. Len(Rest) >= 6 /\ \A i \in 1 .. 6 : Rest[i] = head[i]
    BY <1>1, <2>1 DEF DateDigits
  <2>3. DateDigits(Rest, w.value)
    BY <1>1, <2>1, <2>2, DigitsCopied
  <2>4. NextAre(6, IsDigit)
    BY <2>3 DEF NextAre, IsDigit, DateDigits
  <2>5. Two(1) = w.value.year % 100 /\ Two(3) = w.value.month /\ Two(5) = w.value.day
    BY <2>3 DEF Two, DateDigits
  <2>6. IsDate(w.value) /\ w.value.year \in 1950 .. 2049
    BY LineAssumption
  <2>7. PivotYear(w.value.year % 100) = w.value.year
    <3> DEFINE y == w.value.year
    <3>1. y \in 1950 .. 2049
      BY <2>6
    <3> HIDE DEF y
    <3>2. PivotYear(y % 100) = y
      BY <3>1 DEF PivotYear
    <3> QED
      BY <3>2 DEF y
  <2>8. FromYmd(w.value.year, w.value.month, w.value.day) = w.value
    BY <2>6, FromFields
  <2> QED
    BY <2>4, <2>5, <2>7, <2>8 DEF YymmddNext, ParseYymmdd
<1> QED
  BY <1>2, <1>3

\* Reading the value date moves to where the entry date can stand.
LEMMA ValueDateStep == ASSUME LineInv, ValueDate PROVE LineInv'
<1> DEFINE n == IF Len(head) < 6 THEN Len(head) ELSE 6
<1>1. /\ stage = "value_date" /\ stage' = "entry_date" /\ pos' = pos + n
      /\ line' = [line EXCEPT !["value_date"] = YymmddNext]
      /\ written' = written /\ head' = head
  BY DEF ValueDate, Subfield
<1>2. /\ written \in Written /\ head \in Seq(Int) /\ pos = 0 /\ line.entry_date = None
      /\ {"value_date", "entry_date"} \subseteq DOMAIN line
  BY <1>1 DEF LineInv
<1>3. n \in 0 .. Len(head) /\ Len(head) \in Nat
  BY <1>2
<1>4. pos' = n
  BY <1>1, <1>2, <1>3
<1>5. /\ {"value_date", "entry_date"} \subseteq DOMAIN line'
      /\ line'.value_date = YymmddNext /\ line'.entry_date = None
  BY <1>1, <1>2
<1>6. YymmddNext = None \/ IsDate(YymmddNext)
  BY <1>2, YymmddIsDate
<1>7. InLine'
  BY <1>1, <1>3, <1>4 DEF InLine
<1>8. ASSUME Whole' PROVE Reading'
  <2>1. head = Encode(written)
    BY <1>1, <1>8 DEF Whole
  <2>2. YymmddNext = written.value
    BY <1>2, <2>1, YymmddIsDate
  <2>3. Len(head) >= 6
    BY <1>2, <2>1, EncodeShape DEF DateDigits
  <2>4. n = 6
    BY <1>3, <2>3
  <2> HIDE DEF n
  <2> QED
    BY <1>1, <1>4, <1>5, <2>2, <2>4 DEF Reading
<1> HIDE DEF n
<1> QED
  BY <1>1, <1>2, <1>5, <1>6, <1>7, <1>8 DEF LineInv, NeverFarApart

\* The year of the value date puts the entry date within six months of it.
LEMMA EntryOfValue ==
  ASSUME NEW v, v = None \/ IsDate(v), NEW m, NEW n, ParseMmdd(m, n, v) # None
  PROVE  Apart(ParseMmdd(m, n, v), v) \in -6 .. 6
<1>1. v # None
  BY DEF ParseMmdd
<1> QED
  BY <1>1, EntryNear

\* The next four characters of a whole line are digits exactly when it has an
\* entry date, and then they are its.
LEMMA EntryNext ==
  ASSUME head \in Seq(Int), pos = 6, NEW w \in Written, head = Encode(w)
  PROVE  /\ w.entry = None => ~NextAre(4, IsDigit)
         /\ w.entry # None => /\ NextAre(4, IsDigit)
                              /\ Two(1) = w.entry.month /\ Two(3) = w.entry.day
<1>1. Len(head) >= 6 /\ Len(head) \in Nat
  BY EncodeShape DEF DateDigits
<1>2. /\ Rest \in Seq(Int) /\ Len(Rest) = Len(head) - 6
      /\ \A i \in 1 .. Len(Rest) : Rest[i] = head[6 + i]
  BY <1>1, RestShape
<1>3. ASSUME w.entry = None PROVE ~NextAre(4, IsDigit)
  <2>1. Len(head) >= 7 /\ head[7] \notin 0 .. 9
    BY <1>3, EncodeShape
  <2>2. Rest[1] = head[6 + 1]
    BY <1>1, <1>2, <2>1
  <2>3. Rest[1] \notin 0 .. 9
    BY <2>1, <2>2
  <2> QED
    BY <2>3 DEF NextAre, IsDigit
<1>4. ASSUME w.entry # None
      PROVE  NextAre(4, IsDigit) /\ Two(1) = w.entry.month /\ Two(3) = w.entry.day
  <2>1. EntryDigits(head, w.entry)
    BY <1>4, EncodeShape
  <2>2. Len(Rest) >= 4
    BY <1>1, <1>2, <2>1 DEF EntryDigits
  <2>3. /\ Rest[1] = head[6 + 1] /\ Rest[2] = head[6 + 2]
        /\ Rest[3] = head[6 + 3] /\ Rest[4] = head[6 + 4]
    <3>1. Len(Rest) \in Nat
      BY <1>1, <1>2
    <3>2. 1 \in 1 .. Len(Rest) /\ 2 \in 1 .. Len(Rest)
          /\ 3 \in 1 .. Len(Rest) /\ 4 \in 1 .. Len(Rest)
      BY <2>2, <3>1
    <3> QED
      BY <1>2, <3>2
  <2>4. Rest[1] = head[7] /\ Rest[2] = head[8] /\ Rest[3] = head[9] /\ Rest[4] = head[10]
    BY <2>3
  <2>5. /\ Rest[1] \in 0 .. 9 /\ Rest[2] \in 0 .. 9
        /\ Rest[3] \in 0 .. 9 /\ Rest[4] \in 0 .. 9
    BY <2>1, <2>4 DEF EntryDigits
  <2>6. NextAre(4, IsDigit)
    BY <2>2, <2>5 DEF NextAre, IsDigit
  <2>7. 10 * Rest[1] + Rest[2] = w.entry.month /\ 10 * Rest[3] + Rest[4] = w.entry.day
    BY <2>1, <2>4 DEF EntryDigits
  <2> QED
    BY <2>6, <2>7 DEF Two
<1> QED
  BY <1>3, <1>4

\* Reading the entry date, or missing one that is missing.
LEMMA EntryDateStep == ASSUME LineInv, EntryDate PROVE LineInv'
<1>1. /\ written \in Written /\ head \in Seq(Int) /\ pos \in 0 .. Len(head)
      /\ {"value_date", "entry_date"} \subseteq DOMAIN line
      /\ line.value_date = None \/ IsDate(line.value_date)
  BY DEF LineInv, InLine
<1>2. Len(Rest) = Len(head) - pos /\ Len(head) \in Nat
  BY <1>1, RestShape
<1>3. /\ stage = "entry_date" /\ stage' = "mark"
      /\ written' = written /\ head' = head
  BY DEF EntryDate, Subfield
<1>4. PICK n, e :
        /\ n \in {0, 4}
        /\ line' = [line EXCEPT !["entry_date"] = e] /\ pos' = pos + n
        /\ \/ NextAre(4, IsDigit) /\ n = 4 /\ e = ParseMmdd(Two(1), Two(3), line.value_date)
           \/ ~NextAre(4, IsDigit) /\ n = 0 /\ e = None
  BY DEF EntryDate, Subfield
<1>5. /\ {"value_date", "entry_date"} \subseteq DOMAIN line'
      /\ line'.value_date = line.value_date /\ line'.entry_date = e
  BY <1>1, <1>4
<1>6. InLine'
  <2>1. n \in {0, 4} /\ (n = 4 => Len(Rest) >= 4)
    BY <1>4 DEF NextAre
  <2>2. pos + n \in 0 .. Len(head)
    BY <1>1, <1>2, <2>1
  <2> QED
    BY <1>3, <1>4, <2>2 DEF InLine
<1>7. e # None => Apart(e, line.value_date) \in -6 .. 6
  BY <1>1, <1>4, EntryOfValue
<1>8. ASSUME Whole' PROVE Reading'
  <2>1. head = Encode(written)
    BY <1>3, <1>8 DEF Whole
  <2>2. line.value_date = written.value /\ pos = 6
    BY <1>3, <2>1 DEF LineInv, Whole, Reading
  <2>3. e = IF written.entry = None THEN None
            ELSE ParseMmdd(written.entry.month, written.entry.day, written.value)
    BY <1>1, <1>4, <2>1, <2>2, EntryNext
  <2> QED
    BY <1>3, <1>5, <2>2, <2>3 DEF Reading
<1> QED
  BY <1>1, <1>3, <1>5, <1>6, <1>7, <1>8 DEF LineInv, NeverFarApart

\* What every later step has in common: it leaves the dates alone.
LEMMA LaterStep ==
  ASSUME LineInv, stage \notin {"value_date", "entry_date"},
         stage' \notin {"value_date", "entry_date"},
         written' = written, head' = head, InLine', DOMAIN line' = DOMAIN line,
         line'.value_date = line.value_date, line'.entry_date = line.entry_date
  PROVE  LineInv'
<1>1. Whole' => Reading'
  BY DEF LineInv, Whole, Reading
<1> QED
  BY <1>1 DEF LineInv, NeverFarApart

\* A later subfield moves the position within the line.
LEMMA SubfieldStep ==
  ASSUME LineInv, NEW name, NEW n, NEW value, NEW next,
         Subfield(name, n, value, next), n \in 0 .. Len(Rest),
         name \notin {"value_date", "entry_date"},
         next \notin {"value_date", "entry_date"}
  PROVE  LineInv'
<1>1. /\ stage = name /\ stage' = next /\ pos' = pos + n
      /\ line' = [line EXCEPT ![name] = value] /\ written' = written /\ head' = head
  BY DEF Subfield
<1>2. /\ head \in Seq(Int) /\ pos \in 0 .. Len(head)
      /\ {"value_date", "entry_date"} \subseteq DOMAIN line
  BY DEF LineInv, InLine
<1>3. Len(Rest) = Len(head) - pos /\ Len(head) \in Nat
  BY <1>2, RestShape
<1>4. InLine'
  <2>1. pos + n \in 0 .. Len(head)
    BY <1>2, <1>3
  <2> QED
    BY <1>1, <2>1 DEF InLine
<1>5. /\ DOMAIN line' = DOMAIN line
      /\ line'.value_date = line.value_date /\ line'.entry_date = line.entry_date
  BY <1>1, <1>2
<1> QED
  BY <1>1, <1>4, <1>5, LaterStep

\* Every step keeps the first part of the invariant.
LEMMA StepPreserves == ASSUME LineInv, [Next]_vars PROVE LineInv'
<1>1. Len(Rest) \in Nat
  BY RestShape DEF LineInv, InLine
<1>2. CASE ValueDate
  BY <1>2, ValueDateStep
<1>3. CASE EntryDate
  BY <1>3, EntryDateStep
<1>4. CASE Mark
  <2>1. PICK n \in {0, 1, 2} : /\ n <= Len(Rest)
                               /\ Subfield("mark", n, SubSeq(Rest, 1, n), "funds")
    BY <1>1, <1>4 DEF Mark, NextAre
  <2> QED
    BY <1>1, <2>1, SubfieldStep
<1>5. CASE FundsCode
  <2>1. PICK n \in {0, 1} : /\ n <= Len(Rest)
                            /\ Subfield("funds", n, SubSeq(Rest, 1, n), "amount")
    BY <1>1, <1>5 DEF FundsCode, NextAre
  <2> QED
    BY <1>1, <2>1, SubfieldStep
<1>6. CASE Amount
  <2>1. PICK n \in 0 .. Len(Rest) :
          Subfield("amount", n, ParseMtAmount(SubSeq(Rest, 1, n)), "type")
    BY <1>6 DEF Amount
  <2> QED
    BY <2>1, SubfieldStep
<1>7. CASE TransactionType
  <2>1. PICK n \in {0, 4} : /\ n <= Len(Rest)
                            /\ Subfield("type", n, SubSeq(Rest, 1, n), "refs")
    BY <1>1, <1>7 DEF TransactionType
  <2> QED
    BY <1>1, <2>1, SubfieldStep
<1>8. CASE References
  <2>1. /\ stage = "refs" /\ stage' = "narrative"
        /\ written' = written /\ head' = head /\ pos' = pos
        /\ DOMAIN line' = DOMAIN line
        /\ line'.value_date = line.value_date /\ line'.entry_date = line.entry_date
    BY <1>8 DEF References, LineInv
  <2> QED
    BY <2>1, LaterStep DEF LineInv, InLine
<1>9. CASE JoinNarrative
  <2>1. /\ stage = "narrative" /\ stage' = "column"
        /\ written' = written /\ head' = head /\ pos' = pos
        /\ DOMAIN line' = DOMAIN line
        /\ line'.value_date = line.value_date /\ line'.entry_date = line.entry_date
    BY <1>9 DEF JoinNarrative, LineInv
  <2> QED
    BY <2>1, LaterStep DEF LineInv, InLine
<1>10. CASE BuildRow
  <2>1. /\ stage = "column" /\ stage' = "done"
        /\ written' = written /\ head' = head /\ pos' = pos
        /\ DOMAIN line' = DOMAIN line
        /\ line'.value_date = line.value_date /\ line'.entry_date = line.entry_date
    BY <1>10 DEF BuildRow, LineInv
  <2> QED
    BY <2>1, LaterStep DEF LineInv, InLine
<1>11. CASE UNCHANGED vars
  BY <1>11 DEF vars, LineInv, InLine, NeverFarApart, Whole, Reading
<1> QED
  BY <1>2, <1>3, <1>4, <1>5, <1>6, <1>7, <1>8, <1>9, <1>10, <1>11 DEF Next, Parse61
-----------------------------------------------------------------------------
(***************************************************************************)
(* The rest of the invariant: what is left of a whole line at each stage   *)
(* begins with the subfield that is read next, and those that were read    *)
(* are the written ones.                                                   *)
(***************************************************************************)
FieldNames == {"value_date", "entry_date", "mark", "funds", "amount", "type", "customer",
               "bank", "narrative", "struct", "column"}

\* What is left of the line.
Ahead ==
  /\ stage = "mark"   => Rest = AfterDates(written)
  /\ stage = "funds"  => Rest = AfterMark(written)
  /\ stage = "amount" => Rest = AfterFunds(written)
  /\ stage = "type"   => Rest = AfterAmount(written)
  /\ stage = "refs"   => Rest = EncodeRefs(written)

\* The stages at which a subfield has been read.
MarkRead   == {"funds", "amount", "type", "refs", "narrative", "column", "done"}
FundsRead  == MarkRead \ {"funds"}
AmountRead == FundsRead \ {"amount"}
TypeRead   == AmountRead \ {"type"}
RefsRead   == TypeRead \ {"refs"}

\* What has been read of it.
Behind ==
  /\ stage \in MarkRead => line.mark = written.mark
  /\ stage \in FundsRead => line.funds = written.funds
  /\ stage \in AmountRead => line.amount = ParseAmount(written.amount)
  /\ stage \in TypeRead => line.type = written.type
  /\ IF stage \in RefsRead THEN line.customer = written.customer /\ line.bank = written.bank
     ELSE line.bank = <<>>

Finished ==
  /\ stage \in {"column", "done"} =>
       line.narrative = Sanitize(written.narrative)
         /\ line.struct = Structured(Sanitize(written.narrative))
  /\ stage = "done" => line.column = DecCol(line.amount)

FieldsInv ==
  /\ DOMAIN line = FieldNames
  /\ Finished
  /\ Whole => Ahead /\ Behind

\* Texts of the same length and characters are the same.
LEMMA SameChars ==
  ASSUME NEW s \in Seq(Int), NEW t \in Seq(Int), Len(s) = Len(t),
         \A i \in 1 .. Len(t) : s[i] = t[i]
  PROVE  s = t
OBVIOUS

\* A text taken apart where it was put together.
LEMMA TakenApart ==
  ASSUME NEW s \in Seq(Int), NEW t \in Seq(Int)
  PROVE  /\ SubSeq(s \o t, 1, Len(s)) = s
         /\ SubSeq(s \o t, Len(s) + 1, Len(s \o t)) = t
OBVIOUS

\* What is left after what was read, and what was read of it.
LEMMA LeftAfter ==
  ASSUME NEW h \in Seq(Int), NEW p \in 0 .. Len(h), NEW s \in Seq(Int), NEW t \in Seq(Int),
         SubSeq(h, p + 1, Len(h)) = s \o t
  PROVE  SubSeq(h, p + Len(s) + 1, Len(h)) = t
<1> DEFINE l == Len(h)
           m == Len(s)
           r == SubSeq(h, p + 1, l)
<1>1. l \in Nat /\ m \in Nat /\ p \in 0 .. l
  OBVIOUS
<1>2. Len(r) = l - p /\ \A i \in 1 .. l - p : r[i] = h[p + i]
  BY <1>1
<1>3. /\ Len(r) = m + Len(t) /\ \A i \in 1 .. Len(t) : r[m + i] = t[i]
  <2>1. Joins(s, t, s \o t)
    BY ConcatenationJoins
  <2>2. r = s \o t
    OBVIOUS
  <2> HIDE DEF r
  <2>3. Joins(s, t, r)
    BY <2>1, <2>2
  <2> QED
    BY <2>3 DEF Joins
<1>4. l - p - m = Len(t) /\ Len(t) \in Nat
  <2>1. Len(r) = l - p /\ Len(r) = m + Len(t)
    BY <1>2, <1>3
  <2>2. Len(t) \in Nat
    OBVIOUS
  <2>3. l - p = m + Len(t)
    BY <2>1
  <2> HIDE DEF l, m, r
  <2> QED
    BY ONLY <1>1, <2>2, <2>3
<1> DEFINE u == SubSeq(h, p + m + 1, l)
<1>5. /\ u \in Seq(Int) /\ Len(u) = l - (p + m)
      /\ \A i \in 1 .. l - (p + m) : u[i] = h[p + m + i]
  <2> DEFINE a == p + m + 1
  <2>1. a \in 1 .. l + 1 /\ l \in a - 1 .. l /\ (l - a) + 1 = l - (p + m)
    BY <1>1, <1>4
  <2>2. \A i \in 1 .. l - (p + m) : a + i - 1 = p + m + i
    BY <1>1
  <2> HIDE DEF a
  <2>3. /\ SubSeq(h, a, l) \in Seq(Int) /\ Len(SubSeq(h, a, l)) = l - a + 1
        /\ \A i \in 1 .. l - a + 1 : SubSeq(h, a, l)[i] = h[a + i - 1]
    BY <2>1, PartShape
  <2>4. u = SubSeq(h, a, l)
    BY DEF a
  <2> HIDE DEF u, l
  <2> QED
    BY <2>1, <2>2, <2>3, <2>4
<1> HIDE DEF l, m, r, u
<1>6. \A i \in 1 .. Len(t) : u[i] = t[i]
  <2> TAKE i \in 1 .. Len(t)
  <2>1. i \in 1 .. l - (p + m) /\ m + i \in 1 .. l - p /\ p + m + i = p + (m + i)
    BY <1>1, <1>4
  <2>2. u[i] = h[p + (m + i)]
    BY <1>5, <2>1
  <2>3. r[m + i] = h[p + (m + i)]
    BY <1>2, <2>1
  <2> QED
    BY <1>3, <2>2, <2>3
<1>7. Len(u) = Len(t)
  BY <1>1, <1>4, <1>5
<1>8. u = t
  BY <1>5, <1>6, <1>7, SameChars
<1> QED
  BY <1>8 DEF u, m, l

\* What stands before the mark: the dates, of six or ten characters.
LEMMA DatesBefore ==
  ASSUME NEW w \in Written
  PROVE  \E s \in Seq(Int) : /\ Encode(w) = s \o AfterDates(w)
                             /\ Len(s) = IF w.entry = None THEN 6 ELSE 10
<1> DEFINE date  == <<(w.value.year % 100) \div 10, w.value.year % 10>> \o MonthDay(w.value)
           entry == MonthDay(w.entry)
           after == AfterDates(w)
<1>1. IsDate(w.value) /\ (w.entry = None \/ IsDate(w.entry))
  BY LineAssumption
<1>2. date \in Seq(Int) /\ Len(date) = 6
  BY <1>1, ValueDigits DEF DateDigits
<1>3. after \in Seq(Int)
  BY AfterDatesShape
<1>4. CASE w.entry = None
  <2>1. Encode(w) = date \o <<>> \o after
    BY <1>4 DEF Encode
  <2> HIDE DEF date, after
  <2>2. Encode(w) = date \o after
    BY <1>2, <2>1
  <2> QED
    BY <1>2, <1>4, <2>2 DEF after
<1>5. CASE w.entry # None
  <2>1. Encode(w) = (date \o entry) \o after
    BY <1>5 DEF Encode
  <2>2. entry \in Seq(Int) /\ Len(entry) = 4
    BY <1>1, <1>5, MonthDayShape
  <2> HIDE DEF date, entry, after
  <2>3. date \o entry \in Seq(Int) /\ Len(date \o entry) = 10
    <3>1. Joins(date, entry, date \o entry)
      BY <1>2, <2>2, ConcatenationJoins
    <3> DEFINE ten == date \o entry
    <3>2. Joins(date, entry, ten)
      BY <3>1
    <3> HIDE DEF ten
    <3>3. ten \in Seq(Int) /\ Len(ten) = 10
      BY <1>2, <2>2, <3>2 DEF Joins
    <3> QED
      BY <3>3 DEF ten
  <2> QED
    BY <1>5, <2>1, <2>3 DEF after
<1> QED
  BY <1>4, <1>5

\* The two ends of what is left, once its beginning is known.
LEMMA Begins ==
  ASSUME NEW s \in Seq(Int), NEW t \in Seq(Int)
  PROVE  /\ s \o t \in Seq(Int) /\ Len(s \o t) = Len(s) + Len(t)
         /\ \A i \in 1 .. Len(s) : (s \o t)[i] = s[i]
         /\ Len(t) >= 1 => (s \o t)[Len(s) + 1] = t[1]
<1>1. Joins(s, t, s \o t)
  BY ConcatenationJoins
<1> DEFINE c == s \o t
<1>2. Joins(s, t, c)
  BY <1>1
<1> HIDE DEF c
<1>3. Len(t) >= 1 => c[Len(s) + 1] = t[1]
  BY <1>2 DEF Joins
<1>4. /\ c \in Seq(Int) /\ Len(c) = Len(s) + Len(t)
      /\ \A i \in 1 .. Len(s) : c[i] = s[i]
  BY <1>2 DEF Joins
<1> QED
  BY <1>3, <1>4 DEF c

\* The marks are told apart by their first two letters.
LEMMA MarkTaken ==
  ASSUME NEW w \in Written, Rest = AfterDates(w), Mark
  PROVE  Subfield("mark", Len(w.mark), w.mark, "funds")
<1> DEFINE m == w.mark
           t == AfterMark(w)
           n == IF Len(Rest) >= 2 /\ <<Rest[1], Rest[2]>> \in Marks THEN 2
                ELSE IF Len(Rest) >= 1 /\ <<Rest[1]>> \in Marks THEN 1 ELSE 0
<1>1. m \in Marks /\ m \in Seq(Int) /\ t \in Seq(Int)
  BY LineAssumption, MarkIsSeq, SuffixesShape
<1>2. Rest = m \o t
  BY DEF AfterDates
<1>3. Subfield("mark", n, SubSeq(Rest, 1, n), "funds")
  BY DEF Mark
<1>4. SubSeq(Rest, 1, Len(m)) = m
  BY <1>1, <1>2, TakenApart
<1>5. n = Len(m)
  <2> DEFINE r == Rest
  <2>1. /\ r \in Seq(Int) /\ Len(r) = Len(m) + Len(t)
        /\ \A i \in 1 .. Len(m) : r[i] = m[i]
    BY <1>1, <1>2, Begins
  <2>2. n = IF Len(r) >= 2 /\ <<r[1], r[2]>> \in Marks THEN 2
            ELSE IF Len(r) >= 1 /\ <<r[1]>> \in Marks THEN 1 ELSE 0
    OBVIOUS
  <2>3. m \in {<<10>>, <<11>>, <<12, 10>>, <<12, 11>>}
    BY <1>1 DEF Marks, LetterC, LetterD, LetterR
  <2>4. Marks = {<<10>>, <<11>>, <<12, 10>>, <<12, 11>>}
    BY DEF Marks, LetterC, LetterD, LetterR
  <2>5. Len(t) \in Nat
    BY <1>1
  <2> HIDE DEF r, n, m, t
  <2>6. CASE m \in {<<12, 10>>, <<12, 11>>}
    <3>1. Len(m) = 2 /\ m[1] = 12 /\ m = <<12, m[2]>>
      BY <2>6
    <3>2. r[1] = 12 /\ r[2] = m[2] /\ Len(r) >= 2
      BY <2>1, <2>5, <3>1
    <3>3. <<r[1], r[2]>> = m
      BY <3>1, <3>2
    <3> QED
      BY <1>1, <2>2, <3>1, <3>2, <3>3
  <2>7. CASE m \in {<<10>>, <<11>>}
    <3>1. Len(m) = 1 /\ m[1] \in {10, 11} /\ m = <<m[1]>>
      BY <2>7
    <3>2. r[1] = m[1] /\ Len(r) >= 1
      BY <2>1, <2>5, <3>1
    <3>3. <<r[1], r[2]>> \notin Marks
      <4> DEFINE q == <<r[1], r[2]>>
      <4>1. Len(q) = 2 /\ q[1] = r[1]
        OBVIOUS
      <4> HIDE DEF q
      <4>2. q \notin {<<10>>, <<11>>, <<12, 10>>, <<12, 11>>}
        BY <3>1, <3>2, <4>1
      <4> QED
        BY <2>4, <4>2 DEF q
    <3>4. <<r[1]>> \in Marks
      BY <1>1, <3>1, <3>2
    <3> QED
      BY <2>2, <3>1, <3>2, <3>3, <3>4
  <2> QED
    BY <2>3, <2>6, <2>7
<1> HIDE DEF n
<1> QED
  BY <1>3, <1>4, <1>5

\* An amount begins with a digit or the separator, all of it is such, and what
\* follows it is not.
LEMMA AmountShape ==
  ASSUME NEW a \in [width : Nat, digits : Nat, decimals : Nat], a.width + a.decimals > 0
  PROVE  LET e == EncodeAmount(a)
             d == Digits(a.digits, a.width + a.decimals)
         IN /\ e \in Seq(Int) /\ Len(e) = a.width + a.decimals + 1
            /\ \A i \in 1 .. a.width : e[i] = d[i]
            /\ e[a.width + 1] = Comma
            /\ \A i \in a.width + 2 .. a.width + a.decimals + 1 : e[i] = d[i - 1]
            /\ \A i \in 1 .. Len(e) : e[i] \in 0 .. 9 \cup {Comma}
<1> DEFINE k == a.width + a.decimals
           c == a.width + 1
           d == Digits(a.digits, k)
           e == EncodeAmount(a)
<1>1. k \in Nat /\ c \in Nat /\ c >= 1 /\ c - 1 <= k /\ a.digits \in Nat /\ a.width = c - 1
  OBVIOUS
<1>2. d \in Seq(Int) /\ Len(d) = k /\ \A i \in 1 .. k : d[i] \in 0 .. 9
  BY <1>1, DigitsAreSeq
<1>3. e = SubSeq(d, 1, c - 1) \o <<Comma>> \o SubSeq(d, c, k)
  BY <1>2 DEF EncodeAmount, InsertAt
<1>4. <<Comma>> \in Seq(Int) /\ Len(<<Comma>>) = 1 /\ <<Comma>>[1] = Comma
  BY DEF Comma
<1> HIDE DEF d, k, c, e
<1> DEFINE s == SubSeq(d, 1, c - 1)
           t == SubSeq(d, c, k)
           o == <<Comma>>
           q == s \o o
<1>5. /\ s \in Seq(Int) /\ Len(s) = c - 1 /\ \A i \in 1 .. c - 1 : s[i] = d[i]
      /\ t \in Seq(Int) /\ Len(t) = k - c + 1 /\ \A i \in 1 .. k - c + 1 : t[i] = d[c + i - 1]
  BY <1>1, <1>2
<1>6. Joins(s, o, q)
  BY <1>4, <1>5, ConcatenationJoins
<1>7. /\ q \in Seq(Int) /\ Len(q) = c /\ q[c] = Comma /\ \A i \in 1 .. c - 1 : q[i] = d[i]
  <2> HIDE DEF s, o, q
  <2>1. Len(o) = 1 /\ o[1] = Comma
    BY <1>4 DEF o
  <2>2. q[Len(s) + 1] = o[1] /\ Len(q) = Len(s) + Len(o) /\ q \in Seq(Int)
    BY <1>6, <2>1 DEF Joins
  <2>3. \A i \in 1 .. c - 1 : q[i] = d[i]
    BY <1>5, <1>6 DEF Joins
  <2> QED
    BY <1>1, <1>5, <2>1, <2>2, <2>3
<1>8. e = q \o t
  BY <1>3
<1> HIDE DEF q, t
<1>9. Joins(q, t, e)
  BY <1>5, <1>7, <1>8, ConcatenationJoins
<1>10. /\ e \in Seq(Int) /\ Len(e) = k + 1 /\ e[c] = Comma /\ \A i \in 1 .. c - 1 : e[i] = d[i]
  <2>1. \A i \in 1 .. c : e[i] = q[i]
    BY <1>7, <1>9 DEF Joins
  <2>2. Len(e) = k + 1 /\ e \in Seq(Int)
    BY <1>1, <1>5, <1>7, <1>9 DEF Joins
  <2>3. e[c] = q[c]
    BY <1>1, <2>1
  <2>4. \A i \in 1 .. c - 1 : e[i] = d[i]
    BY <1>1, <1>7, <2>1
  <2> QED
    BY <1>7, <2>2, <2>3, <2>4
<1>11. ASSUME NEW i \in c + 1 .. k + 1 PROVE e[i] = d[i - 1]
  <2>1. i - c \in 1 .. k - c + 1 /\ i = c + (i - c) /\ c + (i - c) - 1 = i - 1
    BY <1>1
  <2>2. e[c + (i - c)] = t[i - c]
    BY <1>5, <1>7, <1>9, <2>1 DEF Joins
  <2> QED
    BY <1>5, <2>1, <2>2
<1>12. \A i \in 1 .. k + 1 : e[i] \in 0 .. 9 \cup {Comma}
  <2> TAKE i \in 1 .. k + 1
  <2>1. CASE i \in 1 .. c - 1
    <3>1. i \in 1 .. k
      BY <1>1, <2>1
    <3>2. e[i] = d[i] /\ d[i] \in 0 .. 9
      BY <1>2, <1>10, <2>1, <3>1
    <3> QED
      BY <3>2
  <2>2. CASE i = c
    BY <1>10, <2>2
  <2>3. CASE i \in c + 1 .. k + 1
    <3>1. i - 1 \in 1 .. k
      BY <1>1, <2>3
    <3> QED
      BY <1>2, <1>11, <2>3, <3>1
  <2> QED
    BY <1>1, <2>1, <2>2, <2>3
<1>13. c + 1 = a.width + 2 /\ c = a.width + 1 /\ k + 1 = a.width + a.decimals + 1
  BY DEF c, k
<1> QED
  BY <1>1, <1>10, <1>11, <1>12, <1>13 DEF e, d, k, c

\* g holds the numbers that the beginnings of a text make.
Numbers(g, text) ==
  /\ g \in [0 .. Len(text) -> Int] /\ g[0] = 0
  /\ \A k \in 1 .. Len(text) :
       g[k] = IF text[k] = Comma THEN g[k - 1] ELSE 10 * g[k - 1] + text[k]

\* NumberOf passes through them.
LEMMA NumberRecursion ==
  ASSUME NEW text \in Seq(Int)
  PROVE  \E g : Numbers(g, text) /\ NumberOf(text) = g[Len(text)]
<1> DEFINE n == Len(text)
           T == Int
           b == 0
           step(k, q) == IF text[k] = Comma THEN q ELSE 10 * q + text[k]
           st == [k \in 1 .. n |-> [q \in T |-> step(k, q)]]
           Up(f) == f = [k \in 0 .. n |-> IF k = 0 THEN b ELSE step(k, f[k - 1])]
           h == CHOOSE f : Up(f)
<1>1. n \in Nat /\ b \in T /\ \A k \in 1 .. n : \A q \in T : step(k, q) \in T
  <2>1. n \in Nat /\ b \in T /\ \A k \in 1 .. n : text[k] \in Int
    OBVIOUS
  <2> QED
    BY <2>1
<1>2. NumberOf(text) = h[n]
  BY DEF NumberOf
<1> HIDE DEF n, T, step, b
<1>3. st \in [1 .. n -> [T -> T]] /\ \A k \in 1 .. n : \A q \in T : st[k][q] = step(k, q)
  BY <1>1
<1> HIDE DEF st
<1>4. PICK g : Runs(g, n, T, b, st)
  BY <1>1, <1>3, Recursion
<1>5. g \in [0 .. n -> T] /\ \A k \in 0 .. n : g[k] = IF k = 0 THEN b ELSE step(k, g[k - 1])
  BY <1>1, <1>3, <1>4 DEF Runs
<1>6. Up(g)
  BY <1>5
<1>7. Up(h)
  BY <1>6
<1> HIDE DEF h
<1>8. \A k \in 0 .. n : h[k] = IF k = 0 THEN b ELSE step(k, h[k - 1])
  BY <1>7
<1>9. h[0] = b /\ \A k \in 1 .. n : h[k] = step(k, h[k - 1])
  <2>1. 0 \in 0 .. n /\ \A k \in 1 .. n : k \in 0 .. n /\ k # 0
    BY <1>1
  <2> QED
    BY <1>8, <2>1
<1>10. h \in [0 .. n -> T]
  <2> DEFINE A == {k \in 0 .. n : h[k] \in T}
  <2>1. 0 \in A /\ \A k \in 1 .. n : k - 1 \in A => k \in A
    BY <1>1, <1>9
  <2> HIDE DEF A
  <2>2. 0 .. n \subseteq A
    BY <1>1, <2>1, PrefixInduction
  <2> QED
    BY <1>7, <2>2 DEF A
<1> QED
  BY <1>2, <1>9, <1>10 DEF n, T, step, b, Numbers

\* Both sides of an inequality, multiplied.
LEMMA AtMostTimes ==
  ASSUME NEW p \in Nat, NEW a \in Nat, NEW b \in Nat, a <= b
  PROVE  p * a <= p * b
BY SMT

\* The quotient by ten times a number, in two turns.
LEMMA TwoQuotients ==
  ASSUME NEW n \in Nat, NEW p \in Nat, p >= 1
  PROVE  10 * (n \div (10 * p)) + ((n \div p) % 10) = n \div p
<1> DEFINE a == n \div p
           b == a \div 10
           c == n \div (10 * p)
<1>1. a \in Nat /\ p * a <= n /\ n < p * a + p
  BY Quotient
<1> HIDE DEF a
<1>2. b \in Nat /\ 10 * b <= a /\ a < 10 * b + 10 /\ a % 10 = a - 10 * b
  BY <1>1
<1> HIDE DEF b
<1>3. 10 * p \in Nat /\ 10 * p >= 1
  OBVIOUS
<1>4. c \in Nat /\ (10 * p) * c <= n /\ n < (10 * p) * c + 10 * p
  BY <1>3, Quotient
<1> HIDE DEF c
<1>5. ASSUME c < b PROVE FALSE
  <2>1. p * (10 * c + 10) <= p * (10 * b)
    BY <1>2, <1>4, <1>5, AtMostTimes
  <2>2. p * (10 * b) <= p * a
    BY <1>1, <1>2, AtMostTimes
  <2>3. p * (10 * c + 10) = (10 * p) * c + 10 * p
    BY <1>4, SMT
  <2> DEFINE x == p * (10 * c + 10)
             y == p * (10 * b)
             z == p * a
             u == (10 * p) * c
  <2>4. x \in Int /\ y \in Int /\ z \in Int /\ u \in Int
    BY <1>1, <1>2, <1>4
  <2>5. x <= y /\ y <= z /\ x = u + 10 * p /\ z <= n /\ n < u + 10 * p
    BY <1>1, <1>4, <2>1, <2>2, <2>3
  <2> HIDE DEF x, y, z, u
  <2> QED
    BY <2>4, <2>5
<1>6. ASSUME b < c PROVE FALSE
  <2>1. p * (a + 1) <= p * (10 * c)
    BY <1>1, <1>2, <1>4, <1>6, AtMostTimes
  <2>2. p * (10 * c) = (10 * p) * c
    BY <1>4, SMT
  <2>3. p * (a + 1) = p * a + p
    BY <1>1, SMT
  <2> DEFINE x == p * (a + 1)
             y == p * (10 * c)
             z == p * a
             u == (10 * p) * c
  <2>4. x \in Int /\ y \in Int /\ z \in Int /\ u \in Int
    BY <1>1, <1>2, <1>4
  <2>5. x <= y /\ y = u /\ x = z + p /\ n < z + p /\ u <= n
    BY <1>1, <1>4, <2>1, <2>2, <2>3
  <2> HIDE DEF x, y, z, u
  <2> QED
    BY <2>4, <2>5
<1>7. c = b
  BY <1>2, <1>4, <1>5, <1>6
<1>8. 10 * c + (a % 10) = a
  BY <1>1, <1>2, <1>7
<1> QED
  BY <1>8 DEF a, c

\* A text is the last t digits of n, with a separator as its c-th character
\* when it is that long.
DigitsOf(text, n, t, c) ==
  /\ text \in Seq(Int) /\ Len(text) \in {t, t + 1} /\ c \in 1 .. t + 1
  /\ Len(text) = t => c = t + 1
  /\ \A k \in 1 .. Len(text) :
       /\ k < c => text[k] = (n \div Pow10(t - k)) % 10
       /\ k = c => text[k] = Comma
       /\ k > c => text[k] = (n \div Pow10(t - (k - 1))) % 10

\* One more digit of a number.
LEMMA NextDigit ==
  ASSUME NEW n \in Nat, NEW t \in Nat, NEW i \in 0 .. t - 1
  PROVE  /\ 10 * (n \div Pow10(t - i)) + ((n \div Pow10(t - (i + 1))) % 10)
              = n \div Pow10(t - (i + 1))
         /\ (n \div Pow10(t - (i + 1))) % 10 \in 0 .. 9
<1> DEFINE p == Pow10(t - (i + 1))
<1>1. t - (i + 1) \in Nat /\ t - i = (t - (i + 1)) + 1
  OBVIOUS
<1>2. p \in Nat /\ p >= 1 /\ Pow10(t - i) = 10 * p
  BY <1>1, PowerOfTen, PowerPositive
<1> HIDE DEF p
<1>3. 10 * (n \div (10 * p)) + ((n \div p) % 10) = n \div p
  BY <1>2, TwoQuotients
<1>4. n \div p \in Nat
  BY <1>2, Quotient
<1>5. (n \div p) % 10 \in 0 .. 9
  BY <1>4
<1> QED
  BY <1>2, <1>3, <1>5 DEF p

\* The digits of a number make it again, with or without a separator.
LEMMA NumberRestored ==
  ASSUME NEW n \in Nat, NEW t \in Nat, n < Pow10(t), NEW c, NEW text, DigitsOf(text, n, t, c)
  PROVE  NumberOf(text) = n
<1> DEFINE l == Len(text)
<1>1. l \in Nat /\ l \in {t, t + 1} /\ text \in Seq(Int) /\ c \in 1 .. t + 1
      /\ (l = t => c = t + 1)
  BY DEF DigitsOf
<1>2. PICK g : Numbers(g, text) /\ NumberOf(text) = g[l]
  BY <1>1, NumberRecursion
<1> DEFINE A == {k \in 0 .. l : g[k] = n \div Pow10(t - (IF k < c THEN k ELSE k - 1))}
<1>3. 0 \in A
  <2>1. n \div Pow10(t) = 0
    <3> DEFINE p == Pow10(t)
    <3>1. p \in Nat /\ n < p
      BY PowerPositive
    <3> HIDE DEF p
    <3>2. n \div p = 0
      BY <3>1
    <3> QED
      BY <3>2 DEF p
  <2>2. g[0] = 0 /\ 0 < c /\ t - 0 = t
    BY <1>1, <1>2 DEF Numbers
  <2> QED
    BY <1>1, <2>1, <2>2
<1>4. ASSUME NEW k \in 1 .. l, k - 1 \in A PROVE k \in A
  <2> DEFINE i == IF k - 1 < c THEN k - 1 ELSE k - 2
  <2>1. g[k - 1] = n \div Pow10(t - i)
    <3>1. (k - 1) - 1 = k - 2
      OBVIOUS
    <3> QED
      BY <1>4, <3>1
  <2>2. g[k] = IF text[k] = Comma THEN g[k - 1] ELSE 10 * g[k - 1] + text[k]
    BY <1>2 DEF Numbers
  <2>3. CASE k = c
    <3>1. text[k] = Comma
      BY <2>3 DEF DigitsOf
    <3>2. g[k] = g[k - 1]
      BY <2>2, <3>1
    <3>3. i = k - 1 /\ ~(k < c) /\ k \in 0 .. l
      BY <1>1, <2>3
    <3> HIDE DEF i
    <3> QED
      BY <2>1, <3>2, <3>3
  <2>4. CASE k # c
    <3> DEFINE j == IF k < c THEN k ELSE k - 1
    <3>1. j = i + 1 /\ i \in 0 .. t - 1 /\ k \in 0 .. l
      BY <1>1, <2>4
    <3>2. text[k] = (n \div Pow10(t - j)) % 10
      <4>1. CASE k < c
        BY <4>1 DEF DigitsOf
      <4>2. CASE k > c
        <5>1. ~(k < c)
          BY <1>1, <4>2
        <5> QED
          BY <4>2, <5>1 DEF DigitsOf
      <4> QED
        BY <1>1, <2>4, <4>1, <4>2
    <3> HIDE DEF i
    <3>3. /\ 10 * (n \div Pow10(t - i)) + ((n \div Pow10(t - (i + 1))) % 10)
               = n \div Pow10(t - (i + 1))
          /\ (n \div Pow10(t - (i + 1))) % 10 \in 0 .. 9
      BY <3>1, NextDigit
    <3>4. text[k] \in 0 .. 9 /\ text[k] # Comma
      <4>1. text[k] \in 0 .. 9
        BY <3>1, <3>2, <3>3
      <4> QED
        BY <4>1 DEF Comma
    <3>5. g[k] = n \div Pow10(t - j)
      BY <2>1, <2>2, <3>1, <3>2, <3>3, <3>4
    <3> QED
      BY <3>1, <3>5
  <2> QED
    BY <2>3, <2>4
<1>5. 0 .. l \subseteq A
  <2> HIDE DEF A, l
  <2> QED
    BY <1>1, <1>3, <1>4, PrefixInduction
<1>6. l \in A /\ (IF l < c THEN l ELSE l - 1) = t
  BY <1>1, <1>5
<1>7. g[l] = n \div Pow10(0)
  <2>1. t - t = 0
    OBVIOUS
  <2> QED
    BY <1>6, <2>1
<1>8. n \div 1 = n /\ Pow10(0) = 1
  BY PowerOfTen
<1> QED
  BY <1>2, <1>7, <1>8

\* The amount that was written is the one that parse_mt_amount reads.
LEMMA AmountRestored ==
  ASSUME NEW a \in [width : Nat, digits : Nat, decimals : Nat], a.width + a.decimals > 0,
         a.digits < Pow10(a.width + a.decimals)
  PROVE  ParseMtAmount(EncodeAmount(a)) = ParseAmount(a)
<1> DEFINE n == a.digits
           t == a.width + a.decimals
           c == a.width + 1
           d == Digits(n, t)
           e == EncodeAmount(a)
           text == IF e # <<>> /\ Last(e) = Comma THEN Front(e) ELSE e
           points == {i \in DOMAIN text : text[i] = Comma}
           w == [digits   |-> NumberOf(text),
                 decimals |-> IF points = {} THEN 0 ELSE Len(text) - Min(points)]
<1>1. /\ n \in Nat /\ t \in Nat /\ t > 0 /\ n < Pow10(t) /\ c \in 1 .. t + 1
      /\ a.width = c - 1 /\ a.decimals = t + 1 - c
  OBVIOUS
<1>2. /\ e \in Seq(Int) /\ Len(e) = t + 1
      /\ \A i \in 1 .. c - 1 : e[i] = d[i]
      /\ e[c] = Comma
      /\ \A i \in c + 1 .. t + 1 : e[i] = d[i - 1]
  <2>1. a.width + 2 = c + 1 /\ a.width = c - 1 /\ a.width + a.decimals + 1 = t + 1
    BY <1>1
  <2> QED
    BY <2>1, AmountShape
<1>3. /\ Len(d) = t
      /\ \A i \in 1 .. t : d[i] = (n \div Pow10(t - i)) % 10 /\ d[i] \in 0 .. 9
  BY <1>1, DigitsAreSeq
<1>4. ParseMtAmount(e) = IF points = DOMAIN text \/ (\E i, j \in points : i # j) THEN NoAmount
                         ELSE ParseAmount(w)
  BY DEF ParseMtAmount
<1>5. ParseAmount(w) = ParseAmount([digits |-> w.digits, decimals |-> w.decimals])
  OBVIOUS
<1>6. \A v : v.digits = a.digits /\ v.decimals = a.decimals => ParseAmount(v) = ParseAmount(a)
  BY DEF ParseAmount, FromStr
<1> HIDE DEF t, c, d, e, n
<1>7. /\ text \in Seq(Int)
      /\ Len(text) = IF c = t + 1 THEN t ELSE t + 1
      /\ \A i \in 1 .. Len(text) : text[i] = e[i]
  <2>1. e # <<>> /\ Last(e) = e[t + 1] /\ t + 1 \in 1 .. t + 1
    BY <1>1, <1>2 DEF Last
  <2>2. CASE c = t + 1
    <3>1. text = Front(e) /\ Front(e) = SubSeq(e, 1, t)
      <4>1. Len(e) - 1 = t
        BY <1>1, <1>2
      <4> QED
        BY <1>2, <2>1, <2>2, <4>1 DEF Front
    <3> QED
      BY <1>1, <1>2, <2>2, <3>1
  <2>3. CASE c # t + 1
    <3>1. t + 1 \in c + 1 .. t + 1 /\ (t + 1) - 1 = t /\ t \in 1 .. t
      BY <1>1, <2>3
    <3>2. e[t + 1] \in 0 .. 9
      BY <1>2, <1>3, <3>1
    <3>3. text = e
      BY <2>1, <3>2 DEF Comma
    <3> QED
      BY <1>1, <1>2, <2>3, <3>3
  <2> QED
    BY <2>2, <2>3
<1> HIDE DEF text
<1>8. DigitsOf(text, n, t, c)
  <2>1. Len(text) \in {t, t + 1} /\ (Len(text) = t => c = t + 1) /\ Len(text) <= t + 1
    BY <1>1, <1>7
  <2>2. ASSUME NEW k \in 1 .. Len(text)
        PROVE  /\ k < c => text[k] = (n \div Pow10(t - k)) % 10
               /\ k = c => text[k] = Comma
               /\ k > c => text[k] = (n \div Pow10(t - (k - 1))) % 10
    <3>1. text[k] = e[k] /\ k \in Int
      BY <1>7
    <3>2. ASSUME k < c PROVE text[k] = (n \div Pow10(t - k)) % 10
      <4>1. k \in 1 .. c - 1 /\ k \in 1 .. t
        BY <1>1, <1>7, <3>2
      <4> QED
        BY <1>2, <1>3, <3>1, <4>1
    <3>3. ASSUME k > c PROVE text[k] = (n \div Pow10(t - (k - 1))) % 10
      <4>1. k \in c + 1 .. t + 1 /\ k - 1 \in 1 .. t
        BY <1>1, <2>1, <3>3
      <4>2. e[k] = d[k - 1]
        BY <1>2, <4>1
      <4>3. d[k - 1] = (n \div Pow10(t - (k - 1))) % 10
        BY <1>3, <4>1
      <4> QED
        BY <3>1, <4>2, <4>3
    <3> QED
      BY <1>2, <3>1, <3>2, <3>3
  <2> QED
    BY <1>1, <1>7, <2>1, <2>2 DEF DigitsOf
<1>9. NumberOf(text) = n
  BY <1>1, <1>8, NumberRestored
<1>10. ASSUME NEW i \in 1 .. Len(text), i # c PROVE text[i] # Comma
  <2>1. text[i] = e[i] /\ i \in Int /\ i <= t + 1
    BY <1>1, <1>7
  <2>2. CASE i < c
    <3>1. i \in 1 .. c - 1 /\ i \in 1 .. t
      BY <1>1, <2>1, <2>2
    <3>2. text[i] \in 0 .. 9
      BY <1>2, <1>3, <2>1, <3>1
    <3> QED
      BY <3>2 DEF Comma
  <2>3. CASE i > c
    <3>1. i \in c + 1 .. t + 1 /\ i - 1 \in 1 .. t
      BY <1>1, <2>1, <2>3
    <3>2. text[i] \in 0 .. 9
      BY <1>2, <1>3, <2>1, <3>1
    <3> QED
      BY <3>2 DEF Comma
  <2> QED
    BY <1>1, <1>10, <2>1, <2>2, <2>3
<1>11. points = IF c = t + 1 THEN {} ELSE {c}
  <2>1. CASE c = t + 1
    <3>1. \A i \in 1 .. Len(text) : i # c
      BY <1>1, <1>7, <2>1
    <3> QED
      BY <1>7, <1>10, <2>1, <3>1
  <2>2. CASE c # t + 1
    <3>1. c \in 1 .. Len(text)
      BY <1>1, <1>7, <2>2
    <3>2. text[c] = Comma
      BY <1>2, <1>7, <3>1
    <3> QED
      BY <1>7, <1>10, <2>2, <3>1, <3>2
  <2> QED
    BY <2>1, <2>2
<1>12. w.digits = n /\ w.decimals = t + 1 - c
  <2>1. CASE c = t + 1
    BY <1>1, <1>9, <1>11, <2>1
  <2>2. CASE c # t + 1
    <3>1. points = {c} /\ points # {}
      BY <1>11, <2>2
    <3>2. Min({c}) = c
      BY <1>1 DEF Min
    <3>3. Len(text) - Min(points) = t + 1 - c
      <4>1. Len(text) = t + 1
        BY <1>7, <2>2
      <4>2. Min(points) = c
        <5> HIDE DEF points
        <5> QED
          BY <3>1, <3>2
      <4>3. t \in Nat /\ c \in Nat
        BY <1>1
      <4> QED
        BY ONLY <4>1, <4>2, <4>3
    <3> HIDE DEF points
    <3> QED
      BY <1>9, <3>1, <3>3
  <2> QED
    BY <2>1, <2>2
<1>13. ~(points = DOMAIN text \/ (\E i, j \in points : i # j))
  <2>1. ~(\E i, j \in points : i # j)
    <3> HIDE DEF points
    <3> QED
      BY <1>11
  <2>2. points # DOMAIN text
    <3>1. DOMAIN text = 1 .. Len(text) /\ Len(text) >= 1
      BY <1>1, <1>7
    <3>2. CASE c = t + 1
      <4>1. 1 \in DOMAIN text
        BY <3>1
      <4> HIDE DEF points
      <4> QED
        BY <1>11, <3>2, <4>1
    <3>3. CASE c # t + 1
      <4>1. Len(text) >= 2 /\ 1 \in DOMAIN text /\ 2 \in DOMAIN text
        BY <1>1, <1>7, <3>1, <3>3
      <4> HIDE DEF points
      <4> QED
        BY <1>11, <3>3, <4>1
    <3> QED
      BY <3>2, <3>3
  <2> QED
    BY <2>1, <2>2
<1> HIDE DEF points, w
<1>14. ParseMtAmount(e) = ParseAmount(w)
  BY <1>4, <1>13
<1>15. w.digits = a.digits /\ w.decimals = a.decimals
  BY <1>1, <1>12 DEF n
<1> QED
  BY <1>6, <1>14, <1>15 DEF e

\* The subfields after the mark: a letter, the amount, the type, the references.
LEMMA FundsTaken ==
  ASSUME NEW w \in Written, Rest = AfterMark(w), FundsCode
  PROVE  Subfield("funds", Len(w.funds), w.funds, "amount")
<1> DEFINE t == AfterFunds(w)
           n == IF NextAre(1, IsLetter) THEN 1 ELSE 0
<1>1. w.funds \in Seq(Int) /\ t \in Seq(Int)
  BY SuffixesShape
<1>2. Subfield("funds", n, SubSeq(Rest, 1, n), "amount")
  BY DEF FundsCode
<1>3. SubSeq(Rest, 1, Len(w.funds)) = w.funds
  BY <1>1, TakenApart DEF AfterMark
<1>4. n = Len(w.funds)
  <2>1. CASE w.funds = <<>>
    <3>1. EncodeAmount(w.amount) \in Seq(Int) /\ Len(EncodeAmount(w.amount)) >= 1
          /\ EncodeAmount(w.amount)[1] \in 0 .. 9 \cup {Comma}
      <4> DEFINE a == w.amount
                 e == EncodeAmount(a)
      <4>1. a \in [width : Nat, digits : Nat, decimals : Nat] /\ a.width + a.decimals > 0
        BY LineAssumption
      <4>2. /\ e \in Seq(Int) /\ Len(e) = a.width + a.decimals + 1
            /\ \A i \in 1 .. Len(e) : e[i] \in 0 .. 9 \cup {Comma}
        BY <4>1, AmountShape
      <4> HIDE DEF e
      <4>3. Len(e) >= 1 /\ 1 \in 1 .. Len(e)
        BY <4>1, <4>2
      <4> QED
        BY <4>2, <4>3 DEF e
    <3>2. AfterAmount(w) \in Seq(Int)
      BY SuffixesShape
    <3>3. t[1] = EncodeAmount(w.amount)[1]
      BY <3>1, <3>2, KeepsHead DEF AfterFunds
    <3>4. t[1] \notin Letters
      <4>1. t[1] \in 0 .. 9 \cup {15}
        BY <3>1, <3>3 DEF Comma
      <4> QED
        BY <4>1 DEF Letters, LetterC, LetterD, LetterR, LetterN, LetterX
    <3>5. Rest = t
      <4> HIDE DEF t
      <4>1. <<>> \o t = t
        BY <1>1
      <4> QED
        BY <2>1, <4>1 DEF AfterMark, t
    <3>6. ~NextAre(1, IsLetter)
      BY <3>4, <3>5 DEF NextAre, IsLetter
    <3> QED
      BY <2>1, <3>6
  <2>2. CASE w.funds # <<>>
    <3>1. PICK c \in Letters : w.funds = <<c>>
      BY <2>2, LineAssumption
    <3>2. Len(w.funds) = 1 /\ w.funds[1] = c
      BY <3>1
    <3>3. Len(Rest) >= 1 /\ Rest[1] = c
      BY <1>1, <3>2, KeepsHead DEF AfterMark
    <3>4. NextAre(1, IsLetter)
      BY <3>3 DEF NextAre, IsLetter
    <3> QED
      BY <3>2, <3>4
  <2> QED
    BY <2>1, <2>2
<1> HIDE DEF n
<1> QED
  BY <1>2, <1>3, <1>4

\* All the numeric characters, and no more, are the amount.
LEMMA AmountTaken ==
  ASSUME NEW w \in Written, Rest = AfterFunds(w), Amount
  PROVE  Subfield("amount", Len(EncodeAmount(w.amount)), ParseAmount(w.amount), "type")
<1> DEFINE a == w.amount
           e == EncodeAmount(a)
           t == AfterAmount(w)
           r == Rest
<1>1. /\ a \in [width : Nat, digits : Nat, decimals : Nat] /\ a.width + a.decimals > 0
      /\ a.digits < Pow10(a.width + a.decimals)
  BY LineAssumption
<1>2. /\ e \in Seq(Int) /\ \A i \in 1 .. Len(e) : e[i] \in 0 .. 9 \cup {Comma}
  BY <1>1, AmountShape
<1>3. t \in Seq(Int) /\ Len(t) >= 1 /\ t[1] = LetterN
  <2>1. w.type \in Seq(Int) /\ Len(w.type) >= 1 /\ w.type[1] = LetterN
        /\ EncodeRefs(w) \in Seq(Int)
    BY SuffixesShape
  <2> QED
    BY <2>1, KeepsHead DEF AfterAmount
<1>4. r = e \o t
  BY DEF AfterFunds
<1>5. ParseMtAmount(e) = ParseAmount(a)
  BY <1>1, AmountRestored
<1>6. PICK n \in 0 .. Len(r) :
        /\ \A i \in 1 .. n : r[i] \in 0 .. 9 \cup {Comma}
        /\ n < Len(r) => r[n + 1] \notin 0 .. 9 \cup {Comma}
        /\ Subfield("amount", n, ParseMtAmount(SubSeq(r, 1, n)), "type")
  BY DEF Amount, IsNumeric
<1> HIDE DEF e, t, r, a
<1>7. /\ Len(r) = Len(e) + Len(t) /\ Len(e) \in Nat /\ Len(t) \in Nat
      /\ \A i \in 1 .. Len(e) : r[i] = e[i]
      /\ r[Len(e) + 1] = LetterN
  BY <1>2, <1>3, <1>4, Begins
<1>8. SubSeq(r, 1, Len(e)) = e
  BY <1>2, <1>3, <1>4, TakenApart
<1>9. LetterN \notin 0 .. 9 \cup {Comma}
  BY DEF LetterN, Comma
<1>10. ASSUME n > Len(e) PROVE FALSE
  <2>1. Len(e) + 1 \in 1 .. n
    BY <1>7, <1>10
  <2> QED
    BY <1>6, <1>7, <1>9, <2>1
<1>11. ASSUME n < Len(e) PROVE FALSE
  <2>1. n + 1 \in 1 .. Len(e) /\ n < Len(r)
    BY <1>7, <1>11
  <2>2. r[n + 1] \in 0 .. 9 \cup {Comma}
    BY <1>2, <1>7, <2>1
  <2> QED
    BY <1>6, <2>1, <2>2
<1>12. n = Len(e)
  BY <1>7, <1>10, <1>11
<1>13. Subfield("amount", Len(e), ParseMtAmount(e), "type")
  BY <1>6, <1>8, <1>12
<1> QED
  BY <1>5, <1>13 DEF e, a

\* Four characters that begin with N are the type.
LEMMA TypeTaken ==
  ASSUME NEW w \in Written, Rest = AfterAmount(w), TransactionType
  PROVE  Subfield("type", Len(w.type), w.type, "refs")
<1> DEFINE s == w.type
           t == EncodeRefs(w)
           r == Rest
           n == IF Len(r) >= 4 /\ r[1] = LetterN THEN 4 ELSE 0
<1>1. s \in Seq(Int) /\ Len(s) = 4 /\ s[1] = LetterN /\ t \in Seq(Int)
  BY SuffixesShape
<1>2. r = s \o t
  BY DEF AfterAmount
<1>3. Subfield("type", n, SubSeq(r, 1, n), "refs")
  BY DEF TransactionType
<1> HIDE DEF s, t, r
<1>4. Len(r) = Len(s) + Len(t) /\ Len(t) \in Nat /\ r[1] = s[1]
  <2>1. 1 \in 1 .. Len(s)
    BY <1>1
  <2>2. Len(t) \in Nat
    BY <1>1
  <2>3. Len(r) = Len(s) + Len(t) /\ \A i \in 1 .. Len(s) : r[i] = s[i]
    BY <1>1, <1>2, Begins
  <2> QED
    BY <2>1, <2>2, <2>3
<1>5. n = 4
  BY <1>1, <1>4
<1>6. SubSeq(r, 1, Len(s)) = s
  BY <1>1, <1>2, TakenApart
<1> HIDE DEF n
<1> QED
  BY <1>1, <1>3, <1>5, <1>6 DEF s

\* The references are split where they were put together.
LEMMA RefsSplit ==
  ASSUME NEW c \in Seq(Int), NEW b \in Seq(Int), SlashesIn(c) = {},
         c # <<>> => Last(c) # Slash
  PROVE  LET r == c \o (<<Slash, Slash>> \o b)
         IN /\ SlashesIn(r) # {} /\ SubSeq(r, 1, Min(SlashesIn(r)) - 1) = c
            /\ SubSeq(r, Min(SlashesIn(r)) + 2, Len(r)) = b
<1> DEFINE o == <<Slash, Slash>>
           t == o \o b
           r == c \o t
           l == Len(c)
           m == Min(SlashesIn(r))
<1>1. o \in Seq(Int) /\ Len(o) = 2 /\ o[1] = Slash /\ o[2] = Slash
  BY DEF Slash
<1>2. /\ t \in Seq(Int) /\ Len(t) = Len(b) + 2 /\ t[1] = Slash /\ t[2] = Slash
  <2> HIDE DEF o
  <2>1. Joins(o, b, t)
    BY <1>1, ConcatenationJoins
  <2> HIDE DEF t
  <2>2. t[1] = o[1] /\ t[2] = o[2]
    <3>1. 1 \in 1 .. Len(o) /\ 2 \in 1 .. Len(o)
      BY <1>1
    <3> QED
      BY <2>1, <3>1 DEF Joins
  <2>3. t \in Seq(Int) /\ Len(t) = Len(b) + 2
    BY <1>1, <2>1 DEF Joins
  <2> QED
    BY <1>1, <2>2, <2>3
<1>3. SubSeq(t, 3, Len(t)) = b
  <2> HIDE DEF o
  <2>1. SubSeq(t, Len(o) + 1, Len(t)) = b
    BY <1>1, TakenApart
  <2>2. Len(o) + 1 = 3
    BY <1>1
  <2> HIDE DEF t
  <2> QED
    BY <2>1, <2>2
<1>4. l \in Nat /\ Len(b) \in Nat
  OBVIOUS
<1>5. SubSeq(r, 1, l) = c /\ SubSeq(r, l + 1, Len(r)) = t
  BY <1>2, TakenApart
<1>6. Joins(c, t, r)
  BY <1>2, ConcatenationJoins
<1> HIDE DEF r, t, o, l
<1>7. /\ r \in Seq(Int) /\ Len(r) = l + Len(b) + 2
      /\ \A i \in 1 .. l : r[i] = c[i]
      /\ r[l + 1] = Slash /\ r[l + 2] = Slash
  <2>1. \A i \in 1 .. l : r[i] = c[i]
    BY <1>6 DEF Joins, l
  <2>2. r[l + 1] = t[1] /\ r[l + 2] = t[2]
    <3>1. 1 \in 1 .. Len(t) /\ 2 \in 1 .. Len(t)
      BY <1>2, <1>4
    <3> QED
      BY <1>6, <3>1 DEF Joins, l
  <2>3. Len(r) = l + Len(t) /\ r \in Seq(Int)
    BY <1>6 DEF Joins, l
  <2> QED
    BY <1>2, <1>4, <2>1, <2>2, <2>3
<1>8. l + 1 \in SlashesIn(r)
  BY <1>4, <1>7 DEF SlashesIn
<1>9. ASSUME NEW i \in SlashesIn(r) PROVE l + 1 <= i
  <2>1. i \in 1 .. Len(r) - 1 /\ r[i] = Slash /\ r[i + 1] = Slash /\ i \in Int
    BY DEF SlashesIn
  <2>2. ASSUME i < l PROVE FALSE
    <3>1. i \in 1 .. l - 1 /\ i \in 1 .. l /\ i + 1 \in 1 .. l
      BY <1>4, <2>1, <2>2
    <3>2. c[i] = Slash /\ c[i + 1] = Slash
      BY <1>7, <2>1, <3>1
    <3>3. i \in SlashesIn(c)
      BY <3>1, <3>2 DEF SlashesIn, l
    <3> QED
      BY <3>3
  <2>3. ASSUME i = l PROVE FALSE
    <3>1. l \in 1 .. l /\ c # <<>>
      BY <1>4, <2>1, <2>3 DEF l
    <3>2. c[l] = Slash
      BY <1>7, <2>1, <2>3, <3>1
    <3>3. Last(c) = c[l]
      BY DEF Last, l
    <3> QED
      BY <3>1, <3>2, <3>3
  <2> QED
    BY <1>4, <2>1, <2>2, <2>3
<1>10. m = l + 1
  <2>1. SlashesIn(r) \in SUBSET (0 .. Len(r)) /\ Len(r) \in Nat
    <3>1. Len(r) \in Nat
      BY <1>4, <1>7
    <3>2. 1 .. Len(r) - 1 \subseteq 0 .. Len(r)
      BY <3>1
    <3>3. SlashesIn(r) \subseteq 1 .. Len(r) - 1
      BY DEF SlashesIn
    <3> QED
      BY <3>1, <3>2, <3>3
  <2>2. Min(SlashesIn(r)) \in SlashesIn(r) /\ \A i \in SlashesIn(r) : Min(SlashesIn(r)) <= i
    BY <1>8, <2>1, LeastOf
  <2> HIDE DEF m
  <2>3. m \in SlashesIn(r) /\ m <= l + 1 /\ l + 1 <= m /\ m \in Int
    BY <1>8, <1>9, <2>1, <2>2 DEF m
  <2> QED
    BY <1>4, <2>3
<1>11. SubSeq(r, l + 3, Len(r)) = b
  <2>1. /\ t = SubSeq(r, l + 1, Len(r)) /\ b = SubSeq(t, 3, Len(t))
    BY <1>3, <1>5
  <2>2. SubSeq(r, l + 3, Len(r)) \in Seq(Int) /\ Len(SubSeq(r, l + 3, Len(r))) = Len(b)
        /\ \A i \in 1 .. Len(b) : SubSeq(r, l + 3, Len(r))[i] = r[l + 2 + i]
    <3> DEFINE n == Len(r)
               k == l + 3
               q == SubSeq(r, k, n)
    <3>1. n \in Nat /\ k \in 1 .. n + 1 /\ r \in Seq(Int) /\ n - k + 1 = Len(b)
      BY <1>4, <1>7
    <3>2. /\ q \in Seq(Int) /\ Len(q) = n - k + 1
          /\ \A i \in 1 .. n - k + 1 : q[i] = r[k + i - 1]
      <4>1. k \in 1 .. Len(r) + 1 /\ n \in k - 1 .. Len(r)
        BY <3>1
      <4> HIDE DEF k, n
      <4> QED
        BY <3>1, <4>1, PartShape DEF q
    <3>3. \A i \in 1 .. Len(b) : k + i - 1 = l + 2 + i
      BY <1>4
    <3> QED
      BY <3>1, <3>2, <3>3
  <2>3. \A i \in 1 .. Len(b) : b[i] = r[l + 2 + i]
    <3> TAKE i \in 1 .. Len(b)
    <3>1. i + 2 \in 1 .. Len(t) /\ Len(t) \in Nat /\ 3 + i - 1 = i + 2 /\ l + (i + 2) = l + 2 + i
      BY <1>2, <1>4
    <3>2. r[l + (i + 2)] = t[i + 2]
      BY <1>6, <3>1 DEF Joins, l
    <3>3. t[i + 2] = b[i]
      <4>1. Len(t) = Len(b) + 2 /\ t \in Seq(Int)
        BY <1>2
      <4>2. SubSeq(t, 3, Len(t))[i] = t[3 + i - 1]
        BY <1>4, <4>1
      <4> QED
        BY <2>1, <3>1, <4>2
    <3> QED
      BY <3>1, <3>2, <3>3
  <2> DEFINE q == SubSeq(r, l + 3, Len(r))
  <2>4. q \in Seq(Int) /\ Len(q) = Len(b) /\ \A i \in 1 .. Len(b) : q[i] = b[i]
    BY <2>2, <2>3
  <2> HIDE DEF q
  <2>5. q = b
    BY <2>4, SameChars
  <2> QED
    BY <2>5 DEF q
<1>12. m - 1 = l /\ m + 2 = l + 3
  BY <1>4, <1>10
<1>13. SlashesIn(r) # {} /\ SubSeq(r, 1, m - 1) = c /\ SubSeq(r, m + 2, Len(r)) = b
  BY <1>5, <1>8, <1>11, <1>12
<1> QED
  BY <1>13 DEF r, t, o, m

\* Both references of a line are read, or the one it has.
LEMMA RefsTaken ==
  ASSUME NEW w \in Written, Rest = EncodeRefs(w), References, line.bank = <<>>,
         {"customer", "bank"} \subseteq DOMAIN line
  PROVE  line'.customer = w.customer /\ line'.bank = w.bank
<1>1. /\ w.customer \in Seq(Int) /\ w.bank \in Seq(Int) /\ SlashesIn(w.customer) = {}
      /\ w.bank # <<>> /\ w.customer # <<>> => Last(w.customer) # Slash
  <2>1. w.customer \in Seq(Int) /\ w.bank \in Seq(Int)
    BY SuffixesShape
  <2>2. SlashesIn(w.customer) = {}
    BY LineAssumption DEF SlashesIn
  <2>3. w.bank # <<>> /\ w.customer # <<>> => Last(w.customer) # Slash
    BY LineAssumption
  <2> QED
    BY <2>1, <2>2, <2>3
<1>2. line' = IF SlashesIn(Rest) = {} THEN [line EXCEPT !.customer = Rest]
              ELSE [line EXCEPT !.customer = SubSeq(Rest, 1, Min(SlashesIn(Rest)) - 1),
                                !.bank = SubSeq(Rest, Min(SlashesIn(Rest)) + 2, Len(Rest))]
  BY DEF References
<1>3. CASE w.bank = <<>>
  <2>1. Rest = w.customer
    <3>1. w.customer \o <<>> = w.customer
      BY <1>1
    <3> QED
      BY <1>3, <3>1 DEF EncodeRefs
  <2> QED
    BY <1>1, <1>2, <1>3, <2>1
<1>4. CASE w.bank # <<>>
  <2>1. Rest = w.customer \o (<<Slash, Slash>> \o w.bank)
    BY <1>4 DEF EncodeRefs
  <2>2. /\ SlashesIn(Rest) # {}
        /\ SubSeq(Rest, 1, Min(SlashesIn(Rest)) - 1) = w.customer
        /\ SubSeq(Rest, Min(SlashesIn(Rest)) + 2, Len(Rest)) = w.bank
    <3> DEFINE c == w.customer
               b == w.bank
    <3>1. c \in Seq(Int) /\ b \in Seq(Int) /\ SlashesIn(c) = {} /\ (c # <<>> => Last(c) # Slash)
      BY <1>1, <1>4
    <3>2. Rest = c \o (<<Slash, Slash>> \o b)
      BY <2>1
    <3> HIDE DEF c, b
    <3> DEFINE r == c \o (<<Slash, Slash>> \o b)
    <3>3. /\ SlashesIn(r) # {}
          /\ SubSeq(r, 1, Min(SlashesIn(r)) - 1) = c
          /\ SubSeq(r, Min(SlashesIn(r)) + 2, Len(r)) = b
      BY <3>1, RefsSplit
    <3> HIDE DEF r
    <3>4. Rest = r
      BY <3>2 DEF r
    <3> QED
      BY <3>3, <3>4 DEF c, b
  <2> QED
    BY <1>2, <2>2
<1> QED
  BY <1>3, <1>4

-----------------------------------------------------------------------------
\* The second part of the invariant holds of a line nobody has begun to read.
LEMMA FieldsEstablished == Init => FieldsInv
<1> SUFFICES ASSUME Init PROVE FieldsInv
  OBVIOUS
<1>1. /\ stage = "value_date" /\ line.bank = <<>>
      /\ DOMAIN line = {"value_date", "entry_date", "mark", "funds", "amount", "type",
                        "customer", "bank", "narrative", "struct", "column"}
  BY DEF Init
<1>2. Finished /\ Ahead
  BY <1>1 DEF Finished, Ahead
<1>3. Behind
  BY <1>1 DEF Behind, MarkRead, FundsRead, AmountRead, TypeRead, RefsRead
<1> QED
  BY <1>1, <1>2, <1>3 DEF FieldsInv, FieldNames

\* What is left when a subfield has been read off.
LEMMA SubfieldAhead ==
  ASSUME head \in Seq(Int), pos \in 0 .. Len(head), NEW s \in Seq(Int), NEW t \in Seq(Int),
         Rest = s \o t, NEW name, NEW value, NEW next, Subfield(name, Len(s), value, next)
  PROVE  Rest' = t
<1>1. head' = head /\ pos' = pos + Len(s)
  BY DEF Subfield
<1>2. SubSeq(head, pos + 1, Len(head)) = s \o t
  BY DEF Rest
<1>3. SubSeq(head, pos + Len(s) + 1, Len(head)) = t
  BY <1>2, LeftAfter
<1> QED
  BY <1>1, <1>3 DEF Rest

\* The value date is read beside the subfields.
LEMMA ValueDateFields == ASSUME LineInv, FieldsInv, ValueDate PROVE FieldsInv'
<1>1. PICK n, value : Subfield("value_date", n, value, "entry_date")
  BY DEF ValueDate
<1>2. /\ DOMAIN line = FieldNames /\ stage = "value_date" /\ stage' = "entry_date"
      /\ head' = head /\ written' = written
      /\ line' = [line EXCEPT !["value_date"] = value]
  BY <1>1 DEF Subfield, FieldsInv
<1>3. DOMAIN line' = FieldNames /\ Finished' /\ Ahead' /\ line'.bank = line.bank
  BY <1>2 DEF Finished, Ahead, FieldNames
<1>4. ASSUME Whole' PROVE Behind'
  <2>1. line.bank = <<>>
    BY <1>2, <1>4 DEF FieldsInv, Whole, Behind, RefsRead, TypeRead, AmountRead, FundsRead, MarkRead
  <2> QED
    BY <1>2, <1>3, <2>1 DEF Behind, RefsRead, TypeRead, AmountRead, FundsRead, MarkRead
<1> QED
  BY <1>3, <1>4 DEF FieldsInv

\* Behind the dates, the mark is next, with an entry date and without.
LEMMA EntryDateFields == ASSUME LineInv, FieldsInv, EntryDate PROVE FieldsInv'
<1>1. PICK n, value : /\ Subfield("entry_date", n, value, "mark")
                      /\ n = IF NextAre(4, IsDigit) THEN 4 ELSE 0
  BY DEF EntryDate
<1>2. /\ DOMAIN line = FieldNames /\ stage = "entry_date" /\ stage' = "mark"
      /\ head' = head /\ written' = written /\ pos' = pos + n
      /\ line' = [line EXCEPT !["entry_date"] = value]
  BY <1>1 DEF Subfield, FieldsInv
<1>3. DOMAIN line' = FieldNames /\ Finished' /\ line'.bank = line.bank
  BY <1>2 DEF Finished, FieldNames
<1>4. ASSUME Whole' PROVE Behind' /\ Ahead'
  <2>1. Whole
    BY <1>2, <1>4 DEF Whole
  <2>2. line.bank = <<>>
    BY <1>2, <2>1 DEF FieldsInv, Behind, RefsRead, TypeRead, AmountRead, FundsRead, MarkRead
  <2>3. Behind'
    BY <1>2, <1>3, <2>2 DEF Behind, RefsRead, TypeRead, AmountRead, FundsRead, MarkRead
  <2>4. written \in Written /\ head \in Seq(Int) /\ pos = 6 /\ head = Encode(written)
    BY <1>2, <2>1 DEF LineInv, Reading, Whole
  <2>5. n = IF written.entry = None THEN 0 ELSE 4
    BY <1>1, <2>4, EntryNext
  <2>6. PICK s \in Seq(Int) : /\ head = s \o AfterDates(written)
                              /\ Len(s) = IF written.entry = None THEN 6 ELSE 10
    BY <2>4, DatesBefore
  <2>7. pos' = Len(s)
    BY <1>2, <2>4, <2>5, <2>6
  <2>8. SubSeq(s \o AfterDates(written), Len(s) + 1, Len(s \o AfterDates(written)))
           = AfterDates(written)
    BY <2>4, AfterDatesShape, TakenApart
  <2>9. Rest' = AfterDates(written)
    BY <1>2, <2>6, <2>7, <2>8 DEF Rest
  <2>10. Ahead'
    BY <1>2, <2>9 DEF Ahead
  <2> QED
    BY <2>3, <2>10
<1> QED
  BY <1>3, <1>4 DEF FieldsInv

\* The mark is read off, and the funds code is next.
LEMMA MarkFields == ASSUME LineInv, FieldsInv, Mark PROVE FieldsInv'
<1>1. PICK n, value : Subfield("mark", n, value, "funds")
  BY DEF Mark
<1>2. /\ DOMAIN line = FieldNames /\ Finished /\ stage = "mark" /\ stage' = "funds"
      /\ head' = head /\ written' = written
      /\ line' = [line EXCEPT !["mark"] = value]
  BY <1>1 DEF Subfield, FieldsInv
<1>3. DOMAIN line' = FieldNames /\ Finished'
  BY <1>2 DEF Finished
<1>4. ASSUME Whole' PROVE Ahead' /\ Behind'
  <2>1. Ahead /\ Behind /\ written \in Written /\ head \in Seq(Int) /\ pos \in 0 .. Len(head)
    BY <1>2, <1>4 DEF FieldsInv, LineInv, InLine, Whole
  <2>2. Rest = AfterDates(written)
    BY <1>2, <2>1 DEF Ahead
  <2>3. Subfield("mark", Len(written.mark), written.mark, "funds")
    BY <2>1, <2>2, MarkTaken
  <2>4. /\ Rest = written.mark \o AfterMark(written)
        /\ written.mark \in Seq(Int) /\ AfterMark(written) \in Seq(Int)
    <3>1. written.mark \in Seq(Int)
      BY <2>1, LineAssumption, MarkIsSeq
    <3>2. AfterMark(written) \in Seq(Int)
      BY <2>1, SuffixesShape
    <3> QED
      BY <2>2, <3>1, <3>2 DEF AfterDates
  <2>5. Rest' = AfterMark(written)
    BY <2>1, <2>3, <2>4, SubfieldAhead
  <2>6. line' = [line EXCEPT !["mark"] = written.mark]
    BY <2>3 DEF Subfield
  <2>7. Ahead'
    BY <1>2, <2>5 DEF Ahead
  <2>8. Behind'
    BY <1>2, <2>1, <2>6 DEF Behind, MarkRead, FundsRead, AmountRead, TypeRead, RefsRead, FieldNames
  <2> QED
    BY <2>7, <2>8
<1> QED
  BY <1>3, <1>4 DEF FieldsInv

\* The funds code is read off, and the amount is next.
LEMMA FundsFields == ASSUME LineInv, FieldsInv, FundsCode PROVE FieldsInv'
<1>1. PICK n, value : Subfield("funds", n, value, "amount")
  BY DEF FundsCode
<1>2. /\ DOMAIN line = FieldNames /\ Finished /\ stage = "funds" /\ stage' = "amount"
      /\ head' = head /\ written' = written
      /\ line' = [line EXCEPT !["funds"] = value]
  BY <1>1 DEF Subfield, FieldsInv
<1>3. DOMAIN line' = FieldNames /\ Finished'
  BY <1>2 DEF Finished
<1>4. ASSUME Whole' PROVE Ahead' /\ Behind'
  <2>1. Ahead /\ Behind /\ written \in Written /\ head \in Seq(Int) /\ pos \in 0 .. Len(head)
    BY <1>2, <1>4 DEF FieldsInv, LineInv, InLine, Whole
  <2>2. Rest = AfterMark(written)
    BY <1>2, <2>1 DEF Ahead
  <2>3. Subfield("funds", Len(written.funds), written.funds, "amount")
    BY <2>1, <2>2, FundsTaken
  <2>4. /\ Rest = written.funds \o AfterFunds(written)
        /\ written.funds \in Seq(Int) /\ AfterFunds(written) \in Seq(Int)
    BY <2>1, <2>2, SuffixesShape DEF AfterMark
  <2>5. Rest' = AfterFunds(written)
    BY <2>1, <2>3, <2>4, SubfieldAhead
  <2>6. line' = [line EXCEPT !["funds"] = written.funds]
    BY <2>3 DEF Subfield
  <2>7. Ahead'
    BY <1>2, <2>5 DEF Ahead
  <2>8. Behind'
    BY <1>2, <2>1, <2>6 DEF Behind, MarkRead, FundsRead, AmountRead, TypeRead, RefsRead, FieldNames
  <2> QED
    BY <2>7, <2>8
<1> QED
  BY <1>3, <1>4 DEF FieldsInv

\* The amount is read off, and the type is next.
LEMMA AmountFields == ASSUME LineInv, FieldsInv, Amount PROVE FieldsInv'
<1>1. PICK n, value : Subfield("amount", n, value, "type")
  BY DEF Amount
<1>2. /\ DOMAIN line = FieldNames /\ Finished /\ stage = "amount" /\ stage' = "type"
      /\ head' = head /\ written' = written
      /\ line' = [line EXCEPT !["amount"] = value]
  BY <1>1 DEF Subfield, FieldsInv
<1>3. DOMAIN line' = FieldNames /\ Finished'
  BY <1>2 DEF Finished
<1>4. ASSUME Whole' PROVE Ahead' /\ Behind'
  <2>1. Ahead /\ Behind /\ written \in Written /\ head \in Seq(Int) /\ pos \in 0 .. Len(head)
    BY <1>2, <1>4 DEF FieldsInv, LineInv, InLine, Whole
  <2>2. Rest = AfterFunds(written)
    BY <1>2, <2>1 DEF Ahead
  <2>3. Subfield("amount", Len(EncodeAmount(written.amount)), ParseAmount(written.amount), "type")
    BY <2>1, <2>2, AmountTaken
  <2>4. /\ Rest = EncodeAmount(written.amount) \o AfterAmount(written)
        /\ EncodeAmount(written.amount) \in Seq(Int) /\ AfterAmount(written) \in Seq(Int)
    BY <2>1, <2>2, SuffixesShape DEF AfterFunds
  <2>5. Rest' = AfterAmount(written)
    BY <2>1, <2>3, <2>4, SubfieldAhead
  <2>6. line' = [line EXCEPT !["amount"] = ParseAmount(written.amount)]
    BY <2>3 DEF Subfield
  <2>7. Ahead'
    BY <1>2, <2>5 DEF Ahead
  <2>8. Behind'
    BY <1>2, <2>1, <2>6 DEF Behind, MarkRead, FundsRead, AmountRead, TypeRead, RefsRead, FieldNames
  <2> QED
    BY <2>7, <2>8
<1> QED
  BY <1>3, <1>4 DEF FieldsInv

\* The type is read off, and the references are next.
LEMMA TypeFields == ASSUME LineInv, FieldsInv, TransactionType PROVE FieldsInv'
<1>1. PICK n, value : Subfield("type", n, value, "refs")
  BY DEF TransactionType
<1>2. /\ DOMAIN line = FieldNames /\ Finished /\ stage = "type" /\ stage' = "refs"
      /\ head' = head /\ written' = written
      /\ line' = [line EXCEPT !["type"] = value]
  BY <1>1 DEF Subfield, FieldsInv
<1>3. DOMAIN line' = FieldNames /\ Finished'
  BY <1>2 DEF Finished
<1>4. ASSUME Whole' PROVE Ahead' /\ Behind'
  <2>1. Ahead /\ Behind /\ written \in Written /\ head \in Seq(Int) /\ pos \in 0 .. Len(head)
    BY <1>2, <1>4 DEF FieldsInv, LineInv, InLine, Whole
  <2>2. Rest = AfterAmount(written)
    BY <1>2, <2>1 DEF Ahead
  <2>3. Subfield("type", Len(written.type), written.type, "refs")
    BY <2>1, <2>2, TypeTaken
  <2>4. /\ Rest = written.type \o EncodeRefs(written)
        /\ written.type \in Seq(Int) /\ EncodeRefs(written) \in Seq(Int)
    BY <2>1, <2>2, SuffixesShape DEF AfterAmount
  <2>5. Rest' = EncodeRefs(written)
    BY <2>1, <2>3, <2>4, SubfieldAhead
  <2>6. line' = [line EXCEPT !["type"] = written.type]
    BY <2>3 DEF Subfield
  <2>7. Ahead'
    BY <1>2, <2>5 DEF Ahead
  <2>8. Behind'
    BY <1>2, <2>1, <2>6 DEF Behind, MarkRead, FundsRead, AmountRead, TypeRead, RefsRead, FieldNames
  <2> QED
    BY <2>7, <2>8
<1> QED
  BY <1>3, <1>4 DEF FieldsInv

\* The references are all that was left.
LEMMA ReferencesFields == ASSUME LineInv, FieldsInv, References PROVE FieldsInv'
<1>1. /\ DOMAIN line = FieldNames /\ stage = "refs" /\ stage' = "narrative"
      /\ head' = head /\ written' = written
  BY DEF References, FieldsInv
<1>2. /\ DOMAIN line' = FieldNames
      /\ \A name \in FieldNames \ {"customer", "bank"} : line'[name] = line[name]
  BY <1>1 DEF References
<1>3. Finished' /\ Ahead'
  BY <1>1 DEF Finished, Ahead
<1>4. ASSUME Whole' PROVE Behind'
  <2>1. Ahead /\ Behind /\ written \in Written
    BY <1>1, <1>4 DEF FieldsInv, LineInv, Whole
  <2>2. Rest = EncodeRefs(written)
    BY <1>1, <2>1 DEF Ahead
  <2>3. line.bank = <<>> /\ {"customer", "bank"} \subseteq DOMAIN line
    BY <1>1, <2>1 DEF Behind, RefsRead, TypeRead, AmountRead, FundsRead, MarkRead, FieldNames
  <2>4. line'.customer = written.customer /\ line'.bank = written.bank
    BY <2>1, <2>2, <2>3, RefsTaken
  <2>5. /\ line.mark = written.mark /\ line.funds = written.funds
        /\ line.amount = ParseAmount(written.amount) /\ line.type = written.type
    BY <1>1, <2>1 DEF Behind, TypeRead, AmountRead, FundsRead, MarkRead
  <2>6. /\ line'.mark = line.mark /\ line'.funds = line.funds
        /\ line'.amount = line.amount /\ line'.type = line.type
    BY <1>2 DEF FieldNames
  <2> QED
    BY <1>1, <2>4, <2>5, <2>6
       DEF Behind, RefsRead, TypeRead, AmountRead, FundsRead, MarkRead
<1> QED
  BY <1>2, <1>3, <1>4 DEF FieldsInv

\* The last two steps leave what was read of the line alone.
LEMMA BehindKept ==
  ASSUME Behind, stage \in {"narrative", "column"}, stage' \in {"column", "done"},
         written' = written,
         \A name \in {"mark", "funds", "amount", "type", "customer", "bank"} :
           line'[name] = line[name]
  PROVE  Behind'
BY DEF Behind, RefsRead, TypeRead, AmountRead, FundsRead, MarkRead

\* Joining the narrative leaves what was read of the line.
LEMMA JoinNarrativeFields == ASSUME LineInv, FieldsInv, JoinNarrative PROVE FieldsInv'
<1>1. /\ DOMAIN line = FieldNames /\ stage = "narrative" /\ stage' = "column"
      /\ head' = head /\ written' = written
      /\ line' = [line EXCEPT !.narrative = Apply86(written.narrative).narrative,
                              !.struct = Apply86(written.narrative).struct]
  BY DEF JoinNarrative, FieldsInv
<1>2. /\ DOMAIN line' = FieldNames
      /\ line'.narrative = Sanitize(written.narrative)
      /\ line'.struct = Structured(Sanitize(written.narrative))
      /\ \A name \in {"mark", "funds", "amount", "type", "customer", "bank"} :
           line'[name] = line[name]
  BY <1>1 DEF Apply86, FieldNames
<1>3. Finished' /\ Ahead'
  BY <1>1, <1>2 DEF Finished, Ahead
<1>4. Whole' => Behind'
  BY <1>1, <1>2, BehindKept DEF FieldsInv, Whole
<1> QED
  BY <1>2, <1>3, <1>4 DEF FieldsInv

\* So does building the row.
LEMMA BuildRowFields == ASSUME LineInv, FieldsInv, BuildRow PROVE FieldsInv'
<1>1. /\ DOMAIN line = FieldNames /\ stage = "column" /\ stage' = "done"
      /\ head' = head /\ written' = written /\ Finished
      /\ line' = [line EXCEPT !.column = DecCol(line.amount)]
  BY DEF BuildRow, FieldsInv
<1>2. /\ DOMAIN line' = FieldNames /\ line'.column = DecCol(line.amount)
      /\ \A name \in FieldNames \ {"column"} : line'[name] = line[name]
  BY <1>1 DEF FieldNames
<1>3. /\ line'.narrative = line.narrative /\ line'.struct = line.struct
      /\ line'.amount = line.amount
      /\ \A name \in {"mark", "funds", "amount", "type", "customer", "bank"} :
           line'[name] = line[name]
  BY <1>2 DEF FieldNames
<1>4. Finished' /\ Ahead'
  BY <1>1, <1>2, <1>3 DEF Finished, Ahead
<1>5. Whole' => Behind'
  BY <1>1, <1>3, BehindKept DEF FieldsInv, Whole
<1> QED
  BY <1>2, <1>4, <1>5 DEF FieldsInv

\* Every step keeps the second part of the invariant.
LEMMA FieldsPreserved == ASSUME LineInv, FieldsInv, [Next]_vars PROVE FieldsInv'
<1>1. CASE UNCHANGED vars
  BY <1>1 DEF vars, FieldsInv, Finished, Whole, Ahead, Behind, Rest
<1> QED
  BY <1>1, ValueDateFields, EntryDateFields, MarkFields, FundsFields, AmountFields, TypeFields,
     ReferencesFields, JoinNarrativeFields, BuildRowFields DEF Next, Parse61


-----------------------------------------------------------------------------
\* Both parts of the invariant hold in every state of every behaviour.
LEMMA Invariance == Spec => [](LineInv /\ FieldsInv)
<1> DEFINE I == LineInv /\ FieldsInv
<1>1. Init => I
  BY InitEstablishes, FieldsEstablished
<1>2. I /\ [Next]_vars => I'
  BY StepPreserves, FieldsPreserved
<1> HIDE DEF I
<1>3. Spec => []I
  BY <1>1, <1>2, PTL DEF Spec
<1> QED
  BY <1>3 DEF I

\* What they say of a line that is done.
LEMMA DoneShape ==
  ASSUME LineInv, FieldsInv, Done
  PROVE  /\ written \in Written
         /\ line.narrative = Sanitize(written.narrative)
         /\ line.struct = Structured(Sanitize(written.narrative))
         /\ line.column = DecCol(line.amount)
         /\ Whole => /\ line.mark = written.mark /\ line.funds = written.funds
                     /\ line.amount = ParseAmount(written.amount)
                     /\ line.type = written.type
                     /\ line.customer = written.customer /\ line.bank = written.bank
<1>1. stage = "done" /\ written \in Written
  BY DEF Done, LineInv
<1>2. Finished /\ (Whole => Behind)
  BY DEF FieldsInv
<1> QED
  BY <1>1, <1>2 DEF Finished, Behind, RefsRead, TypeRead, AmountRead, FundsRead, MarkRead

(***************************************************************************)
(* parse_61 never reads beyond the line, whatever its characters are and   *)
(* wherever it was cut off: no slice it takes is out of range.             *)
(***************************************************************************)
THEOREM NoSliceOutOfRange == Spec => []InLine
<1>1. LineInv => InLine
  BY DEF LineInv
<1> QED
  BY Invariance, <1>1, PTL

(***************************************************************************)
(* parse_mmdd never puts an entry date more than six months from the value *)
(* date, whatever the digits are.                                          *)
(***************************************************************************)
THEOREM EntryStaysNear == Spec => []NeverFarApart
<1>1. LineInv => NeverFarApart
  BY DEF LineInv
<1> QED
  BY Invariance, <1>1, PTL

(***************************************************************************)
(* The dates of a whole line come back as they were written: every value   *)
(* date of the window, and every entry date at most five months from it.   *)
(***************************************************************************)
THEOREM DatesRoundTrip == Spec => []DatesSurvive
<1>1. LineInv => DatesSurvive
  <2> SUFFICES ASSUME LineInv, Done, Whole
               PROVE  /\ line.value_date = written.value
                      /\ written.entry = None => line.entry_date = None
                      /\ written.entry # None /\ Apart(written.entry, written.value) \in -5 .. 5
                           => line.entry_date = written.entry
    BY DEF DatesSurvive
  <2>1. /\ line.value_date = written.value
        /\ line.entry_date = IF written.entry = None THEN None
             ELSE ParseMmdd(written.entry.month, written.entry.day, written.value)
    BY DEF LineInv, Reading, Done
  <2>2. IsDate(written.value) /\ (written.entry = None \/ IsDate(written.entry))
    BY LineAssumption DEF LineInv
  <2>3. written.entry # None /\ Apart(written.entry, written.value) \in -5 .. 5
          => ParseMmdd(written.entry.month, written.entry.day, written.value) = written.entry
    BY <2>2, EntryRestored
  <2> QED
    BY <2>1, <2>3
<1> QED
  BY Invariance, <1>1, PTL

(***************************************************************************)
(* parse_61 reads back every line that arrives whole: each optional        *)
(* subfield that is missing is missed, none is read into the next one, and *)
(* the amount is the one its digits and separator stand for.               *)
(***************************************************************************)
THEOREM LinesRoundTrip == Spec => []ReadAsWritten
<1>1. LineInv /\ FieldsInv => ReadAsWritten
  <2> SUFFICES ASSUME LineInv, FieldsInv, Done, Whole
               PROVE  /\ \A name \in {"mark", "funds", "type", "customer", "bank"} :
                           line[name] = written[name]
                      /\ line.amount = ParseAmount(written.amount)
    BY DEF ReadAsWritten
  <2> QED
    BY DoneShape
<1> QED
  BY Invariance, <1>1, PTL

(***************************************************************************)
(* The column of a line and that of any amount that fits are equal exactly *)
(* when the two are the same amount: a join on them finds every payment of *)
(* the amount and no other, whatever the scales they were written with.    *)
(***************************************************************************)
THEOREM ExactJoins == Spec => []JoinsAreExact
<1>1. LineInv /\ FieldsInv => JoinsAreExact
  <2> SUFFICES ASSUME LineInv, FieldsInv, Done, Whole, Fits(written.amount),
                      NEW w \in Amounts, Fits(w)
               PROVE  line.column = Column[w] <=> SameAmount(w, written.amount)
    BY DEF JoinsAreExact
  <2> DEFINE v == written.amount
  <2>1. line.column = DecCol(ParseAmount(v))
    BY DoneShape
  <2>2. Column[w] = DecCol(ParseAmount(w))
    BY DEF Column
  <2>3. v.digits \in Nat /\ v.decimals \in Nat
    <3>1. v \in [width : Nat, digits : Nat, decimals : Nat]
      BY LineAssumption, DoneShape
    <3> QED
      BY <3>1
  <2>4. w.digits \in Nat /\ w.decimals \in Nat
    BY AmountsAssumption
  <2>5. Fits(v)
    OBVIOUS
  <2> HIDE DEF v
  <2>6. DecCol(ParseAmount(v)) = DecCol(ParseAmount(w)) <=> SameAmount(w, v)
    BY <2>3, <2>4, <2>5, SameInTheColumn
  <2> QED
    BY <2>1, <2>2, <2>6 DEF v
<1> QED
  BY Invariance, <1>1, PTL

(***************************************************************************)
(* clamp_scale rounds half up: whatever decimals a line has beyond the     *)
(* column's, the stored amount is the nearest one, and it is never NULL.   *)
(***************************************************************************)
THEOREM NearestStored == Spec => []RoundsToNearest
<1>1. LineInv /\ FieldsInv => RoundsToNearest
  <2> DEFINE w == written.amount
             k == w.decimals - MoneyScale
  <2> SUFFICES ASSUME LineInv, FieldsInv, Done, Whole, k > 0, w.decimals <= MaxScale,
                      w.digits <= MaxMantissa
               PROVE  /\ line.column # NoAmount
                      /\ 2 * (line.column.i128 * Pow10(k) - w.digits) \in -Pow10(k) + 1 .. Pow10(k)
    BY DEF RoundsToNearest
  <2>1. w.digits \in Nat /\ w.decimals \in Nat
    <3>1. w \in [width : Nat, digits : Nat, decimals : Nat]
      BY LineAssumption, DoneShape
    <3> QED
      BY <3>1
  <2>2. MoneyScale \in Nat /\ MaxScale \in Nat
    BY MoneyAssumption
  <2>3. w.decimals \in MoneyScale + 1 .. MaxScale /\ k \in Nat /\ k > 0
    BY <2>1, <2>2
  <2>4. line.column = DecCol(ParseAmount(w))
    BY DoneShape
  <2>5. w.digits <= MaxMantissa
    OBVIOUS
  <2> DEFINE r == RoundOff(w.digits, w.decimals - MoneyScale)
  <2>6. DecCol(ParseAmount(w)) = [i128 |-> r]
    <3> HIDE DEF w
    <3> QED
      BY <2>1, <2>3, <2>5, RoundedColumn
  <2>7. line.column # NoAmount /\ line.column.i128 = r
    <3> HIDE DEF r, w
    <3> QED
      BY <2>4, <2>6, AmountIsSome
  <2>8. 2 * (r * Pow10(k) - w.digits) \in -Pow10(k) + 1 .. Pow10(k)
    <3> HIDE DEF w
    <3>1. r = RoundOff(w.digits, k)
      OBVIOUS
    <3> HIDE DEF k, r
    <3> QED
      BY <2>1, <2>3, <3>1, RoundedOff
  <2> HIDE DEF r, k, w
  <2> QED
    BY <2>7, <2>8
<1> QED
  BY Invariance, <1>1, PTL

(***************************************************************************)
(* parse_structured_narrative stores one pair for each ?NN marker of the   *)
(* written narrative, in order and with its text, though it is given the   *)
(* sanitized one; a narrative that begins with neither marker has none.    *)
(***************************************************************************)
THEOREM MarkersBecomePairs == Spec => []QuestionMarksSplit
<1>1. LineInv /\ FieldsInv => QuestionMarksSplit
  <2> DEFINE text == written.narrative
  <2> SUFFICES ASSUME LineInv, FieldsInv, Done
               PROVE  IF text # <<>> /\ Head(text) = "?" THEN MarkersMake(text, "?", line.struct)
                      ELSE text # <<>> /\ Head(text) # ">" => line.struct = <<>>
    BY DEF QuestionMarksSplit
  <2>1. written \in Written /\ line.struct = Structured(Sanitize(text))
    BY DoneShape
  <2>2. text \in Seq(Pieces)
    BY <2>1, LineAssumption
  <2> HIDE DEF text
  <2>3. text # <<>> => Head(text) = text[1]
    BY <2>2
  <2>4. CASE text # <<>> /\ Head(text) = "?"
    BY <2>1, <2>2, <2>3, <2>4, QuestionMarksMake
  <2>5. CASE ~(text # <<>> /\ Head(text) = "?")
    BY <2>1, <2>2, <2>3, <2>5, NoPairs
  <2> QED
    BY <2>4, <2>5
<1> QED
  BY Invariance, <1>1, PTL

(***************************************************************************)
(* sanitize_x keeps every character in its place, and what a pair stores   *)
(* is a code and the text behind it, as they stand in the narrative.       *)
(***************************************************************************)
THEOREM NarrativeStaysInPlace == Spec => []NothingShifts
<1>1. LineInv /\ FieldsInv => NothingShifts
  <2> DEFINE text == written.narrative
             clean == Sanitize(text)
             pairs == Structured(clean)
  <2> SUFFICES ASSUME LineInv, FieldsInv, Done
               PROVE  /\ Len(line.narrative) = Len(text)
                      /\ \A i \in DOMAIN text : IsXChar(text[i]) => line.narrative[i] = text[i]
                      /\ \A p \in DOMAIN line.struct : \E i \in DOMAIN text :
                           SubSeq(line.narrative, i, i + Len(line.struct[p].text))
                             = <<line.struct[p].code>> \o line.struct[p].text
    BY DEF NothingShifts
  <2>1. written \in Written /\ line.narrative = clean /\ line.struct = pairs
    BY DoneShape
  <2>2. text \in Seq(Pieces)
    BY <2>1, LineAssumption
  <2>3. \A p \in DOMAIN pairs : \E i \in DOMAIN text :
          SubSeq(clean, i, i + Len(pairs[p].text)) = <<pairs[p].code>> \o pairs[p].text
    <3> HIDE DEF text
    <3> QED
      BY <2>2, PairsStand
  <2>4. Len(clean) = Len(text) /\ \A i \in DOMAIN text : IsXChar(text[i]) => clean[i] = text[i]
    <3> HIDE DEF text
    <3> QED
      BY <2>2, SanitizeShape
  <2> HIDE DEF text, clean, pairs
  <2> QED
    BY <2>1, <2>3, <2>4
<1> QED
  BY Invariance, <1>1, PTL
=============================================================================
