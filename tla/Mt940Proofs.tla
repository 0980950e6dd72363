----------------------------- MODULE Mt940Proofs -----------------------------
(***************************************************************************)
(* Proofs about a file of statements and of interim reports, for a file of *)
(* any length and any kinds of lines.  The one invariant of the state is   *)
(* that the lines of the text are numbered; the properties follow from it  *)
(* by what the loops of the readers do, each proved in three steps as in   *)
(* SequenceLemmas (EntriesShape, BodiesShape, GroupsShape, WriteShape,       *)
(* LimitShape).  A statement is then made of a group of fields that stand  *)
(* in the text in that order, and what is written of a group is read as    *)
(* the same group.                                                         *)
(***************************************************************************)
EXTENDS InterimReport, SequenceLemmas

\* The lines of a statement made of fields in F (None is the empty sequence).
Entries(F) == [entry : F, narrative : F \cup {<<>>}]

\* What a turn of parse_lines_from makes is lines again.
LEMMA EntryTaken ==
  ASSUME NEW F, NEW q \in Seq(Entries(F)), NEW f \in F
  PROVE  TakeEntry(q, f) \in Seq(Entries(F))
<1> DEFINE e == [q[Len(q)] EXCEPT !.narrative = f]
           r == [q EXCEPT ![Len(q)].narrative = f]
           new == [entry |-> f, narrative |-> <<>>]
<1>1. Append(q, new) \in Seq(Entries(F))
  <2>1. new \in Entries(F)
    BY DEF Entries
  <2> QED
    BY <2>1
<1>2. CASE q # <<>>
  <2>1. Len(q) \in 1 .. Len(q) /\ q[Len(q)] \in Entries(F)
    BY <1>2
  <2>2. e \in Entries(F)
    BY <2>1 DEF Entries
  <2>3. r = [q EXCEPT ![Len(q)] = e]
    OBVIOUS
  <2>4. r \in Seq(Entries(F))
    BY <1>2, <2>2, <2>3, ChangedLast DEF LastChanged
  <2>5. TakeEntry(q, f) \in {Append(q, new), r, q}
    BY DEF TakeEntry
  <2> QED
    BY <1>1, <2>4, <2>5
<1>3. CASE q = <<>>
  BY <1>1, <1>3 DEF TakeEntry
<1> QED
  BY <1>2, <1>3

\* g is what parse_lines_from has after each field.
EntryRuns(g, F, fields) ==
  /\ g \in [0 .. Len(fields) -> Seq(Entries(F))] /\ g[0] = <<>>
  /\ \A k \in 1 .. Len(fields) : g[k] = TakeEntry(g[k - 1], fields[k])

\* ParseLinesFrom passes through it.
LEMMA EntryRecursion ==
  ASSUME NEW F, NEW fields \in Seq(F)
  PROVE  \E g : EntryRuns(g, F, fields) /\ ParseLinesFrom(fields) = g[Len(fields)]
<1> DEFINE n == Len(fields)
           T == Seq(Entries(F))
           b == <<>>
           step(k, q) == TakeEntry(q, fields[k])
           st == [k \in 1 .. n |-> [q \in T |-> step(k, q)]]
           Up(f) == f = [k \in 0 .. n |-> IF k = 0 THEN b ELSE step(k, f[k - 1])]
           h == CHOOSE f : Up(f)
<1>1. n \in Nat /\ b \in T /\ \A k \in 1 .. n : \A q \in T : step(k, q) \in T
  <2>1. n \in Nat /\ b \in T
    OBVIOUS
  <2>2. ASSUME NEW k \in 1 .. n, NEW q \in T PROVE step(k, q) \in T
    <3>1. fields[k] \in F
      OBVIOUS
    <3> QED
      BY <3>1, EntryTaken
  <2> QED
    BY <2>1, <2>2
<1>2. ParseLinesFrom(fields) = h[n]
  BY DEF ParseLinesFrom
<1> HIDE DEF n, T, step, b
<1>3. st \in [1 .. n -> [T -> T]] /\ \A k \in 1 .. n : \A q \in T : st[k][q] = step(k, q)
  BY <1>1
<1> HIDE DEF st
<1>4. PICK g : Runs(g, n, T, b, st)
  BY <1>1, <1>3, Recursion
<1>5. g \in [0 .. n -> T] /\ \A k \in 0 .. n : g[k] = IF k = 0 THEN b ELSE step(k, g[k - 1])
  BY <1>1, <1>3, <1>4 DEF Runs
<1>6. Up(g)
  BY <1>5
<1>7. Up(h)
  BY <1>6
<1> HIDE DEF h
<1>8. \A k \in 0 .. n : h[k] = IF k = 0 THEN b ELSE step(k, h[k - 1])
  BY <1>7
<1>9. h[0] = b /\ \A k \in 1 .. n : h[k] = step(k, h[k - 1])
  <2>1. 0 \in 0 .. n /\ \A k \in 1 .. n : k \in 0 .. n /\ k # 0
    BY <1>1
  <2> QED
    BY <1>8, <2>1
<1>10. h \in [0 .. n -> T]
  <2> DEFINE A == {k \in 0 .. n : h[k] \in T}
  <2>1. 0 \in A /\ \A k \in 1 .. n : k - 1 \in A => k \in A
    BY <1>1, <1>9
  <2> HIDE DEF A
  <2>2. 0 .. n \subseteq A
    BY <1>1, <2>1, PrefixInduction
  <2> QED
    BY <1>7, <2>2 DEF A
<1> QED
  BY <1>2, <1>9, <1>10 DEF n, T, step, b, EntryRuns

\* g is what serialize_fields has written after each field.
WriteRuns(g, S, fields) ==
  /\ g \in [0 .. Len(fields) -> Seq(S)] /\ g[0] = <<>>
  /\ \A k \in 1 .. Len(fields) : g[k] = g[k - 1] \o fields[k]

\* SerializeFields passes through it.
LEMMA WriteRecursion ==
  ASSUME NEW S, NEW fields \in Seq(Seq(S))
  PROVE  \E g : WriteRuns(g, S, fields) /\ SerializeFields(fields) = g[Len(fields)]
<1> DEFINE n == Len(fields)
           T == Seq(S)
           b == <<>>
           step(k, q) == q \o fields[k]
           st == [k \in 1 .. n |-> [q \in T |-> step(k, q)]]
           Up(f) == f = [k \in 0 .. n |-> IF k = 0 THEN b ELSE step(k, f[k - 1])]
           h == CHOOSE f : Up(f)
<1>1. n \in Nat /\ b \in T /\ \A k \in 1 .. n : \A q \in T : step(k, q) \in T
  <2>1. n \in Nat /\ b \in T
    OBVIOUS
  <2>2. ASSUME NEW k \in 1 .. n, NEW q \in T PROVE step(k, q) \in T
    <3>1. fields[k] \in Seq(S)
      OBVIOUS
    <3> QED
      BY <3>1
  <2> QED
    BY <2>1, <2>2
<1>2. SerializeFields(fields) = h[n]
  BY DEF SerializeFields
<1> HIDE DEF n, T, step, b
<1>3. st \in [1 .. n -> [T -> T]] /\ \A k \in 1 .. n : \A q \in T : st[k][q] = step(k, q)
  BY <1>1
<1> HIDE DEF st
<1>4. PICK g : Runs(g, n, T, b, st)
  BY <1>1, <1>3, Recursion
<1>5. g \in [0 .. n -> T] /\ \A k \in 0 .. n : g[k] = IF k = 0 THEN b ELSE step(k, g[k - 1])
  BY <1>1, <1>3, <1>4 DEF Runs
<1>6. Up(g)
  BY <1>5
<1>7. Up(h)
  BY <1>6
<1> HIDE DEF h
<1>8. \A k \in 0 .. n : h[k] = IF k = 0 THEN b ELSE step(k, h[k - 1])
  BY <1>7
<1>9. h[0] = b /\ \A k \in 1 .. n : h[k] = step(k, h[k - 1])
  <2>1. 0 \in 0 .. n /\ \A k \in 1 .. n : k \in 0 .. n /\ k # 0
    BY <1>1
  <2> QED
    BY <1>8, <2>1
<1>10. h \in [0 .. n -> T]
  <2> DEFINE A == {k \in 0 .. n : h[k] \in T}
  <2>1. 0 \in A /\ \A k \in 1 .. n : k - 1 \in A => k \in A
    BY <1>1, <1>9
  <2> HIDE DEF A
  <2>2. 0 .. n \subseteq A
    BY <1>1, <2>1, PrefixInduction
  <2> QED
    BY <1>7, <2>2 DEF A
<1> QED
  BY <1>2, <1>9, <1>10 DEF n, T, step, b, WriteRuns

\* The entries made of the first k fields are the :61: fields at[1], at[2], ...,
\* and a narrative is a later field with no :61: before it.
EntriesAt(at, lines, fields, k) ==
  /\ at \in [1 .. Len(lines) -> 1 .. k]
  /\ \A i, j \in 1 .. Len(lines) : i < j => at[i] < at[j]
  /\ \A i \in 1 .. Len(lines) : lines[i].entry = fields[at[i]] /\ TagOf(fields[at[i]]) = "61"
  /\ \A e \in 1 .. k : TagOf(fields[e]) = "61" => \E i \in 1 .. Len(lines) : at[i] = e
  /\ \A i \in 1 .. Len(lines) : lines[i].narrative # <<>> =>
       \E n \in at[i] + 1 .. k : /\ lines[i].narrative = fields[n]
                                 /\ \A e \in at[i] + 1 .. n : TagOf(fields[e]) # "61"

\* A :61:.
LEMMA EntryStarted ==
  ASSUME NEW F, NEW fields \in Seq(F), NEW k \in 1 .. Len(fields), NEW q \in Seq(Entries(F)),
         NEW at, EntriesAt(at, q, fields, k - 1), TagOf(fields[k]) = "61"
  PROVE  \E d : EntriesAt(d, Append(q, [entry |-> fields[k], narrative |-> <<>>]), fields, k)
<1> DEFINE n == Len(q)
           f == fields[k]
           e == [entry |-> f, narrative |-> <<>>]
           r == Append(q, e)
           d == [i \in 1 .. n + 1 |-> IF i = n + 1 THEN k ELSE at[i]]
<1>1. f \in F /\ e.entry = f /\ e.narrative = <<>> /\ e \in Entries(F)
  BY DEF Entries
<1> HIDE DEF e
<1>2. /\ Len(r) = n + 1 /\ r[n + 1] = e /\ n \in Nat
      /\ \A i \in 1 .. n : r[i] = q[i]
  BY <1>1
<1> HIDE DEF r
<1>3. at \in [1 .. n -> 1 .. k - 1] /\ (\A i, j \in 1 .. n : i < j => at[i] < at[j])
  BY DEF EntriesAt
<1>4. /\ \A i \in 1 .. n : q[i].entry = fields[at[i]] /\ TagOf(fields[at[i]]) = "61"
      /\ \A m \in 1 .. k - 1 : TagOf(fields[m]) = "61" => \E i \in 1 .. n : at[i] = m
      /\ \A i \in 1 .. n : q[i].narrative # <<>> =>
           \E m \in at[i] + 1 .. k - 1 : /\ q[i].narrative = fields[m]
                                         /\ \A g \in at[i] + 1 .. m : TagOf(fields[g]) # "61"
  BY DEF EntriesAt
<1> HIDE DEF n
<1>5. 1 .. n + 1 = (1 .. n) \cup {n + 1} /\ n + 1 \notin 1 .. n /\ n + 1 \in 1 .. n + 1
  BY <1>2
<1>6. (\A i \in 1 .. n : d[i] = at[i]) /\ d[n + 1] = k
  BY <1>5
<1>7. d \in [1 .. n + 1 -> 1 .. k]
  <2>1. k \in 1 .. k /\ \A i \in 1 .. k - 1 : i \in 1 .. k
    OBVIOUS
  <2>2. \A i \in 1 .. n + 1 : (IF i = n + 1 THEN k ELSE at[i]) \in 1 .. k
    BY <1>3, <1>5, <2>1
  <2> QED
    BY <2>2
<1> HIDE DEF d
<1>8. \A i, j \in 1 .. n + 1 : i < j => d[i] < d[j]
  <2> SUFFICES ASSUME NEW i \in 1 .. n + 1, NEW j \in 1 .. n + 1, i < j PROVE d[i] < d[j]
    OBVIOUS
  <2>1. i \in 1 .. n
    BY <1>2
  <2>2. CASE j = n + 1
    <3>1. at[i] \in 1 .. k - 1
      BY <1>3, <2>1
    <3>2. d[i] = at[i] /\ d[j] = k
      BY <1>6, <2>1, <2>2
    <3> QED
      BY <3>1, <3>2
  <2>3. CASE j \in 1 .. n
    BY <1>3, <1>6, <2>1, <2>3
  <2> QED
    BY <1>5, <2>2, <2>3
<1>9. \A i \in 1 .. n + 1 : r[i].entry = fields[d[i]] /\ TagOf(fields[d[i]]) = "61"
  <2>1. \A i \in 1 .. n : r[i].entry = fields[d[i]] /\ TagOf(fields[d[i]]) = "61"
    BY <1>2, <1>4, <1>6
  <2>2. r[n + 1].entry = fields[d[n + 1]] /\ TagOf(fields[d[n + 1]]) = "61"
    BY <1>1, <1>2, <1>6
  <2> QED
    BY <1>5, <2>1, <2>2
<1>10. \A m \in 1 .. k : TagOf(fields[m]) = "61" => \E i \in 1 .. n + 1 : d[i] = m
  <2> SUFFICES ASSUME NEW m \in 1 .. k, TagOf(fields[m]) = "61"
               PROVE  \E i \in 1 .. n + 1 : d[i] = m
    OBVIOUS
  <2>1. CASE m = k
    BY <1>5, <1>6, <2>1
  <2>2. CASE m \in 1 .. k - 1
    <3>1. PICK i \in 1 .. n : at[i] = m
      BY <1>4, <2>2
    <3> QED
      BY <1>5, <1>6, <3>1
  <2> QED
    BY <2>1, <2>2
<1>11. \A i \in 1 .. n + 1 : r[i].narrative # <<>> =>
         \E m \in d[i] + 1 .. k : /\ r[i].narrative = fields[m]
                                  /\ \A g \in d[i] + 1 .. m : TagOf(fields[g]) # "61"
  <2> SUFFICES ASSUME NEW i \in 1 .. n + 1, r[i].narrative # <<>>
               PROVE  \E m \in d[i] + 1 .. k :
                        /\ r[i].narrative = fields[m]
                        /\ \A g \in d[i] + 1 .. m : TagOf(fields[g]) # "61"
    OBVIOUS
  <2>1. i \in 1 .. n
    BY <1>1, <1>2, <1>5
  <2>2. r[i] = q[i] /\ d[i] = at[i]
    BY <1>2, <1>6, <2>1
  <2>3. PICK m \in at[i] + 1 .. k - 1 : /\ q[i].narrative = fields[m]
                                        /\ \A g \in at[i] + 1 .. m : TagOf(fields[g]) # "61"
    BY <1>4, <2>1, <2>2
  <2>4. at[i] \in 1 .. k - 1
    BY <1>3, <2>1
  <2>5. m \in d[i] + 1 .. k
    BY <2>2, <2>3, <2>4
  <2> QED
    BY <2>2, <2>3, <2>5
<1>12. EntriesAt(d, r, fields, k)
  BY Zenon, <1>2, <1>7, <1>8, <1>9, <1>10, <1>11 DEF EntriesAt
<1> QED
  BY <1>12 DEF r, e

\* A field that is no :61: and no narrative.
LEMMA FieldSkipped ==
  ASSUME NEW fields, NEW k \in Nat \ {0}, NEW q, NEW at, EntriesAt(at, q, fields, k - 1),
         TagOf(fields[k]) # "61"
  PROVE  EntriesAt(at, q, fields, k)
<1> DEFINE n == Len(q)
<1>1. at \in [1 .. n -> 1 .. k - 1] /\ (\A i, j \in 1 .. n : i < j => at[i] < at[j])
  BY DEF EntriesAt
<1>2. /\ \A i \in 1 .. n : q[i].entry = fields[at[i]] /\ TagOf(fields[at[i]]) = "61"
      /\ \A m \in 1 .. k - 1 : TagOf(fields[m]) = "61" => \E i \in 1 .. n : at[i] = m
      /\ \A i \in 1 .. n : q[i].narrative # <<>> =>
           \E m \in at[i] + 1 .. k - 1 : /\ q[i].narrative = fields[m]
                                         /\ \A g \in at[i] + 1 .. m : TagOf(fields[g]) # "61"
  BY DEF EntriesAt
<1> HIDE DEF n
<1>3. \A m \in 1 .. k - 1 : m \in 1 .. k
  OBVIOUS
<1>4. at \in [1 .. n -> 1 .. k]
  BY <1>1, <1>3
<1>5. \A m \in 1 .. k : TagOf(fields[m]) = "61" => \E i \in 1 .. n : at[i] = m
  <2>1. \A m \in 1 .. k : m \in 1 .. k - 1 \/ m = k
    OBVIOUS
  <2> QED
    BY <1>2, <2>1
<1>6. \A i \in 1 .. n : q[i].narrative # <<>> =>
        \E m \in at[i] + 1 .. k : /\ q[i].narrative = fields[m]
                                  /\ \A g \in at[i] + 1 .. m : TagOf(fields[g]) # "61"
  <2>1. \A i \in 1 .. n : \A m \in at[i] + 1 .. k - 1 : m \in at[i] + 1 .. k
    BY <1>1
  <2> QED
    BY <1>2, <2>1
<1> QED
  BY <1>1, <1>2, <1>4, <1>5, <1>6 DEF EntriesAt, n

\* A narrative of the last entry.
LEMMA NarrativeTaken ==
  ASSUME NEW F, NEW fields \in Seq(F), NEW k \in 1 .. Len(fields), NEW q \in Seq(Entries(F)),
         NEW at, EntriesAt(at, q, fields, k - 1), TagOf(fields[k]) # "61", q # <<>>,
         NEW r, LastChanged(r, q, Entries(F), [q[Len(q)] EXCEPT !.narrative = fields[k]])
  PROVE  EntriesAt(at, r, fields, k)
<1> DEFINE n == Len(q)
           f == fields[k]
           e == [q[n] EXCEPT !.narrative = f]
<1>1. /\ Len(r) = n /\ r[n] = e /\ n \in Nat \ {0}
      /\ \A i \in 1 .. n - 1 : r[i] = q[i]
  BY DEF LastChanged
<1>2. 1 .. n = (1 .. n - 1) \cup {n} /\ n \in 1 .. n
  BY <1>1
<1>3. e.entry = q[n].entry /\ e.narrative = f
  <2>1. q[n] \in Entries(F)
    BY <1>2
  <2> QED
    BY <2>1 DEF Entries
<1> HIDE DEF e
<1>4. EntriesAt(at, q, fields, k)
  BY FieldSkipped
<1>5. at \in [1 .. n -> 1 .. k - 1] /\ (\A i, j \in 1 .. n : i < j => at[i] < at[j])
  BY DEF EntriesAt
<1>6. \A m \in 1 .. k - 1 : TagOf(fields[m]) = "61" => \E i \in 1 .. n : at[i] = m
  BY DEF EntriesAt
<1>7. /\ at \in [1 .. n -> 1 .. k] /\ (\A i, j \in 1 .. n : i < j => at[i] < at[j])
      /\ \A i \in 1 .. n : q[i].entry = fields[at[i]] /\ TagOf(fields[at[i]]) = "61"
      /\ \A m \in 1 .. k : TagOf(fields[m]) = "61" => \E i \in 1 .. n : at[i] = m
      /\ \A i \in 1 .. n : q[i].narrative # <<>> =>
           \E m \in at[i] + 1 .. k : /\ q[i].narrative = fields[m]
                                     /\ \A g \in at[i] + 1 .. m : TagOf(fields[g]) # "61"
  BY <1>4 DEF EntriesAt
<1> HIDE DEF n, f
<1>8. \A i \in 1 .. n : r[i].entry = fields[at[i]] /\ TagOf(fields[at[i]]) = "61"
  BY <1>1, <1>2, <1>3, <1>7
<1>9. \A i \in 1 .. n : r[i].narrative # <<>> =>
        \E m \in at[i] + 1 .. k : /\ r[i].narrative = fields[m]
                                  /\ \A g \in at[i] + 1 .. m : TagOf(fields[g]) # "61"
  <2>1. \A i \in 1 .. n - 1 : i \in 1 .. n /\ r[i] = q[i]
    BY <1>1
  <2>2. at[n] \in 1 .. k - 1
    BY <1>2, <1>5
  <2>3. k \in at[n] + 1 .. k
    BY <2>2
  <2>4. \A g \in at[n] + 1 .. k : TagOf(fields[g]) # "61"
    <3> SUFFICES ASSUME NEW g \in at[n] + 1 .. k - 1, TagOf(fields[g]) = "61" PROVE FALSE
      <4>1. \A g \in at[n] + 1 .. k : g \in at[n] + 1 .. k - 1 \/ g = k
        BY <2>2
      <4> QED
        BY <4>1
    <3>1. g \in 1 .. k - 1
      BY <2>2
    <3>2. PICK i \in 1 .. n : at[i] = g
      BY <1>6, <3>1
    <3>3. i = n \/ i < n
      BY <1>1
    <3>4. i < n => at[i] < at[n]
      BY <1>2, <1>5
    <3>5. at[i] > at[n]
      BY <2>2, <3>2
    <3> QED
      BY <1>5, <2>2, <3>2, <3>3, <3>4, <3>5
  <2>5. r[n].narrative = fields[k]
    BY <1>1, <1>3 DEF f
  <2>6. \E m \in at[n] + 1 .. k : /\ r[n].narrative = fields[m]
                                  /\ \A g \in at[n] + 1 .. m : TagOf(fields[g]) # "61"
    BY <2>3, <2>4, <2>5
  <2> SUFFICES ASSUME NEW i \in 1 .. n, r[i].narrative # <<>>
               PROVE  \E m \in at[i] + 1 .. k :
                        /\ r[i].narrative = fields[m]
                        /\ \A g \in at[i] + 1 .. m : TagOf(fields[g]) # "61"
    OBVIOUS
  <2>7. CASE i \in 1 .. n - 1
    <3>1. r[i] = q[i] /\ q[i].narrative # <<>>
      BY <2>1, <2>7
    <3>2. \E m \in at[i] + 1 .. k :
            /\ q[i].narrative = fields[m]
            /\ \A g \in at[i] + 1 .. m : TagOf(fields[g]) # "61"
      BY <1>7, <3>1
    <3> QED
      BY Zenon, <3>1, <3>2
  <2>8. CASE i = n
    BY Zenon, <2>6, <2>8
  <2> QED
    BY <1>2, <2>7, <2>8
<1> QED
  BY Zenon, <1>1, <1>7, <1>8, <1>9 DEF EntriesAt

\* What parse_lines_from makes of fields.
LEMMA EntriesShape ==
  ASSUME NEW F, NEW fields \in Seq(F)
  PROVE  /\ ParseLinesFrom(fields) \in Seq(Entries(F))
         /\ \E at : EntriesAt(at, ParseLinesFrom(fields), fields, Len(fields))
<1> DEFINE n == Len(fields)
<1>1. PICK p : EntryRuns(p, F, fields) /\ ParseLinesFrom(fields) = p[n]
  BY EntryRecursion
<1>2. /\ p \in [0 .. n -> Seq(Entries(F))] /\ p[0] = <<>> /\ n \in Nat
      /\ \A k \in 1 .. n : p[k] = TakeEntry(p[k - 1], fields[k])
  BY <1>1 DEF EntryRuns
<1> DEFINE T == {k \in 0 .. n : \E at : EntriesAt(at, p[k], fields, k)}
<1>3. 0 \in T
  <2>1. Len(<<>>) = 0 /\ (1 .. 0) = {} /\ <<>> \in [1 .. 0 -> 1 .. 0]
    OBVIOUS
  <2>2. EntriesAt(<<>>, <<>>, fields, 0)
    BY <2>1 DEF EntriesAt
  <2> QED
    BY <1>2, <2>2
<1>4. ASSUME NEW k \in 1 .. n, k - 1 \in T PROVE k \in T
  <2>1. PICK at : EntriesAt(at, p[k - 1], fields, k - 1)
    BY <1>4
  <2> DEFINE q == p[k - 1]
             f == fields[k]
             e == [q[Len(q)] EXCEPT !.narrative = f]
             r == [q EXCEPT ![Len(q)].narrative = f]
  <2>2. q \in Seq(Entries(F)) /\ k \in 0 .. n /\ p[k] = TakeEntry(q, f) /\ k \in Nat \ {0}
    <3>1. k \in 0 .. n /\ k - 1 \in 0 .. n /\ k \in Nat \ {0}
      BY <1>2
    <3> QED
      BY Zenon, <1>2, <3>1
  <2>3. f \in F
    OBVIOUS
  <2>4. EntriesAt(at, q, fields, k - 1)
    BY <2>1
  <2> HIDE DEF q
  <2>5. CASE TagOf(f) = "61"
    <3>1. p[k] = Append(q, [entry |-> fields[k], narrative |-> <<>>])
      BY <2>2, <2>5 DEF TakeEntry
    <3>2. \E d : EntriesAt(d, Append(q, [entry |-> fields[k], narrative |-> <<>>]), fields, k)
      BY <2>2, <2>4, <2>5, EntryStarted
    <3> QED
      BY <2>2, <3>1, <3>2
  <2>6. CASE TagOf(f) = "86" /\ q # <<>>
    <3>1. p[k] = r
      BY <2>2, <2>6 DEF TakeEntry
    <3>2. q[Len(q)] \in Entries(F)
      BY <2>2, <2>6
    <3>3. e \in Entries(F)
      BY <2>3, <3>2 DEF Entries
    <3>4. r = [q EXCEPT ![Len(q)] = e]
      OBVIOUS
    <3>5. LastChanged(r, q, Entries(F), e)
      <4> HIDE DEF e, r
      <4>1. LastChanged([q EXCEPT ![Len(q)] = e], q, Entries(F), e)
        BY <2>2, <2>6, <3>3, ChangedLast
      <4> QED
        BY <3>4, <4>1
    <3> HIDE DEF r
    <3>6. EntriesAt(at, r, fields, k)
      BY <2>2, <2>4, <2>6, <3>5, NarrativeTaken
    <3> QED
      BY <2>2, <3>1, <3>6
  <2>7. CASE TagOf(f) # "61" /\ ~(TagOf(f) = "86" /\ q # <<>>)
    <3>1. p[k] = q
      BY <2>2, <2>7 DEF TakeEntry
    <3>2. EntriesAt(at, q, fields, k)
      BY <2>2, <2>4, <2>7, FieldSkipped
    <3> QED
      BY <2>2, <3>1, <3>2
  <2> QED
    BY <2>5, <2>6, <2>7
<1> HIDE DEF T
<1>5. n \in T
  <2> HIDE DEF n
  <2>1. 0 .. n \subseteq T
    BY <1>2, <1>3, <1>4, PrefixInduction
  <2> QED
    BY <1>2, <2>1
<1>6. n \in 0 .. n
  BY <1>2
<1> QED
  BY <1>1, <1>2, <1>5, <1>6 DEF T

\* Every line of the text says where it stands.
Numbered(t) == \A i \in 1 .. Len(t) : t[i].id = i

\* The lines w stand next to each other in t.
IsPart(w, t) == \E a \in 1 .. Len(t) + 1 : \E b \in a - 1 .. Len(t) : w = SubSeq(t, a, b)

\* The lines v stand before the lines w, and before line s.
Before(v, w) == \A i \in 1 .. Len(v) : \A j \in 1 .. Len(w) : v[i].id < w[j].id

BeforeLine(v, s) == \A i \in 1 .. Len(v) : v[i].id < s

\* The bodies are parts of the text, those of a flat one in order.
BodiesIn(bodies, t) ==
  /\ \A i \in 1 .. Len(bodies) : IsPart(bodies[i], t)
  /\ Flat(t) => \A i, j \in 1 .. Len(bodies) : i < j => Before(bodies[i], bodies[j])

\* Blocks that open from line `from` on are behind them.
BodiesBefore(bodies, t, from) ==
  Flat(t) => \A i \in 1 .. Len(bodies) : \A s \in LinesFrom(t, from, "{4:") : BeforeLine(bodies[i], s)

\* The lines of a part.
LEMMA PartLines ==
  ASSUME NEW S, NEW t \in Seq(S), Numbered(t), NEW a, a \in 1 .. Len(t) + 1,
         NEW b, b \in a - 1 .. Len(t)
  PROVE  /\ SubSeq(t, a, b) \in Seq(S) /\ IsPart(SubSeq(t, a, b), t)
         /\ \A i \in 1 .. Len(SubSeq(t, a, b)) : SubSeq(t, a, b)[i].id \in a .. b
<1>1. IsPart(SubSeq(t, a, b), t)
  BY DEF IsPart
<1> DEFINE x == SubSeq(t, a, b)
           n == Len(t)
<1>2. /\ x \in Seq(S) /\ Len(x) = b - a + 1
      /\ \A i \in 1 .. b - a + 1 : x[i] = t[a + i - 1]
  BY Zenon, PartShape
<1>3. n \in Nat /\ \A i \in 1 .. n : t[i].id = i
  BY DEF Numbered
<1>4. a \in 1 .. n + 1 /\ b \in a - 1 .. n
  OBVIOUS
<1> HIDE DEF x, n
<1>5. ASSUME NEW i \in 1 .. Len(x) PROVE x[i].id \in a .. b
  <2>1. i \in 1 .. b - a + 1 /\ a + i - 1 \in 1 .. n /\ a + i - 1 \in a .. b
    BY <1>2, <1>3, <1>4
  <2> QED
    BY <1>2, <1>3, <2>1
<1> QED
  BY <1>1, <1>2, <1>5 DEF x

\* The lines where a block found opens and ends, as numbers.
LEMMA BlockLines ==
  ASSUME NEW t, Len(t) \in Nat, NEW from, from \in 1 .. Len(t) + 1, NEW s, NEW e, NEW f,
         BlockAt(t, from, s, e, f)
  PROVE  /\ s \in 1 .. Len(t) /\ s \in from .. Len(t) /\ t[s].kind = "{4:" /\ e \in Nat
         /\ s + 1 \in 1 .. Len(t) + 1 /\ e - 1 \in (s + 1) - 1 .. Len(t) /\ f \in Nat /\ f > s
<1> DEFINE n == Len(t)
<1>1. s \in LinesFrom(t, from, "{4:") /\ e \in Balanced(t, s) /\ f \in Nat /\ f > s
  BY DEF BlockAt
<1>2. s \in from .. n /\ t[s].kind = "{4:"
  BY ONLY Zenon, <1>1 DEF LinesFrom, n
<1>3. e \in s + 1 .. n
  BY <1>1 DEF Balanced
<1>4. n \in Nat /\ from \in 1 .. n + 1
  OBVIOUS
<1> HIDE DEF n
<1>5. s \in 1 .. n /\ s + 1 \in 1 .. n + 1 /\ e - 1 \in (s + 1) - 1 .. n
  BY Zenon, <1>2, <1>3, <1>4, BlockBounds
<1>6. e \in Nat
  BY <1>3, <1>5
<1> QED
  BY <1>1, <1>2, <1>5, <1>6 DEF n

\* Behind m, which is no earlier than e.
LEMMA LessThrough ==
  ASSUME NEW n \in Nat, NEW s, s \in 1 .. n, NEW e \in Nat,
         NEW m, m \in s + 1 .. n, NEW j, j \in 1 .. n, e <= m, m < j
  PROVE  e < j
OBVIOUS

\* A line number is a natural.
LEMMA IsNumber ==
  ASSUME NEW n \in Nat, NEW s, s \in 1 .. n
  PROVE  s \in Nat
OBVIOUS

\* Blocks that open behind a block of a flat text are behind all of it.
LEMMA BehindFlat ==
  ASSUME NEW t, Flat(t), NEW n, n \in Nat, DOMAIN t = 1 .. n, Len(t) = n,
         NEW s, s \in 1 .. n, t[s].kind = "{4:", NEW e, e \in Nat,
         NEW from, NEW f, BlockAt(t, from, s, e, f),
         NEW j, j \in 1 .. n, t[j].kind = "{4:", s < j
  PROVE  e < j
<1>1. PICK k \in Balanced(t, s) : k < j
  BY DEF Flat, Openers
<1>2. e <= k
  BY DEF BlockAt
<1>3. k \in s + 1 .. n
  BY DEF Balanced
<1> QED
  BY Zenon, <1>1, <1>2, <1>3, LessThrough

\* A line from f on is from where the loop was before, too.
LEMMA FurtherDown ==
  ASSUME NEW n \in Nat, NEW from, from \in 1 .. n + 1, NEW s, s \in from .. n,
         NEW f, f \in Nat, f > s, NEW j, j \in f .. n
  PROVE  j \in 1 .. n /\ s < j /\ j \in from .. n
OBVIOUS

\* Of lines x and y, y in a block that opens at line s below x.
LEMMA LinesApart ==
  ASSUME NEW s \in Nat, NEW e \in Nat, NEW x, x < s, NEW y, y \in s + 1 .. e - 1,
         NEW a \in Nat, NEW b \in Int, x \in a .. b
  PROVE  x < y
OBVIOUS

\* A line of a body is above what follows the block.
LEMMA InsideBlock ==
  ASSUME NEW s \in Nat, NEW e \in Nat, NEW y, y \in s + 1 .. e - 1, NEW j \in Nat, e < j
  PROVE  y < j
OBVIOUS

\* r is q and one more element.
IsOneMore(r, q, x) ==
  Len(r) = Len(q) + 1 /\ r[Len(q) + 1] = x /\ \A i \in 1 .. Len(q) : r[i] = q[i]

\* Append adds one element.
LEMMA OneBodyMore ==
  ASSUME NEW S, NEW q, q \in Seq(Seq(S)), NEW x, x \in Seq(S)
  PROVE  IsOneMore(Append(q, x), q, x)
<1> DEFINE X == Seq(S)
<1>1. q \in Seq(X) /\ x \in X
  OBVIOUS
<1> HIDE DEF X
<1> QED
  BY <1>1, Longer DEF IsOneMore

\* One more body, of the block that opens at line s.
LEMMA BodyAdded ==
  ASSUME NEW S, NEW t, t \in Seq(S), Numbered(t), NEW q, q \in Seq(Seq(S)),
         NEW from, from \in 1 .. Len(t) + 1,
         NEW s, NEW e, NEW f, BlockAt(t, from, s, e, f),
         BodiesIn(q, t), BodiesBefore(q, t, from)
  PROVE  /\ BodiesIn(Append(q, SubSeq(t, s + 1, e - 1)), t)
         /\ BodiesBefore(Append(q, SubSeq(t, s + 1, e - 1)), t, f)
<1> DEFINE n == Len(q)
           l == Len(t)
           x == SubSeq(t, s + 1, e - 1)
           r == Append(q, x)
<1>1. l \in Nat /\ n \in Nat /\ from \in 1 .. l + 1 /\ DOMAIN t = 1 .. l
  OBVIOUS
<1>2. /\ s \in 1 .. l /\ s \in from .. l /\ t[s].kind = "{4:" /\ e \in Nat
      /\ s + 1 \in 1 .. l + 1 /\ e - 1 \in (s + 1) - 1 .. l /\ f \in Nat /\ f > s
  BY Zenon, <1>1, BlockLines
<1>3. s \in LinesFrom(t, from, "{4:")
  BY DEF BlockAt
<1>4. /\ \A i \in 1 .. n : IsPart(q[i], t)
      /\ Flat(t) => \A i, j \in 1 .. n : i < j => Before(q[i], q[j])
  BY DEF BodiesIn
<1>5. Flat(t) => \A i \in 1 .. n : \A j \in LinesFrom(t, from, "{4:") : BeforeLine(q[i], j)
  BY DEF BodiesBefore
<1> HIDE DEF l
<1>6. s \in Nat
  BY Zenon, <1>1, <1>2, IsNumber
<1>7. x \in Seq(S) /\ IsPart(x, t) /\ \A i \in 1 .. Len(x) : x[i].id \in s + 1 .. e - 1
  BY Zenon, <1>2, PartLines DEF l
<1>8. /\ Len(r) = n + 1 /\ r[n + 1] = x
      /\ \A i \in 1 .. n : r[i] = q[i]
  <2>1. IsOneMore(r, q, x)
    BY Zenon, <1>7, OneBodyMore
  <2> QED
    BY <2>1 DEF IsOneMore
<1> HIDE DEF n, x, r
<1>9. \A i \in 1 .. n + 1 : i \in 1 .. n \/ i = n + 1
  BY <1>1
<1>10. \A i \in 1 .. n + 1 : IsPart(r[i], t)
  BY <1>4, <1>7, <1>8, <1>9
<1>11. ASSUME Flat(t), NEW i \in 1 .. n PROVE Before(q[i], x)
  <2>1. BeforeLine(q[i], s)
    BY Zenon, <1>3, <1>5, <1>11
  <2> SUFFICES ASSUME NEW y \in 1 .. Len(q[i]), NEW z \in 1 .. Len(x) PROVE q[i][y].id < x[z].id
    BY DEF Before
  <2>2. q[i][y].id < s
    BY <2>1 DEF BeforeLine
  <2>3. x[z].id \in s + 1 .. e - 1
    BY Zenon, <1>7
  <2>4. PICK a \in 1 .. l + 1 : \E b \in a - 1 .. l : q[i] = SubSeq(t, a, b)
    BY <1>4 DEF IsPart, l
  <2>5. PICK b \in a - 1 .. l : q[i] = SubSeq(t, a, b)
    BY <2>4
  <2>6. q[i][y].id \in a .. b
    BY Zenon, <2>4, <2>5, PartLines DEF l
  <2>7. a \in Nat /\ b \in Int
    BY <1>1, <2>4, <2>5
  <2> QED
    BY Zenon, <1>2, <1>6, <2>2, <2>3, <2>6, <2>7, LinesApart
<1>12. ASSUME Flat(t) PROVE \A i, j \in 1 .. n + 1 : i < j => Before(r[i], r[j])
  <2> SUFFICES ASSUME NEW i \in 1 .. n + 1, NEW j \in 1 .. n + 1, i < j PROVE Before(r[i], r[j])
    OBVIOUS
  <2>1. i \in 1 .. n /\ r[i] = q[i]
    BY <1>1, <1>8
  <2>2. CASE j \in 1 .. n
    BY <1>4, <1>8, <1>12, <2>1, <2>2
  <2>3. CASE j = n + 1
    <3>1. Before(q[i], x) /\ r[j] = x
      BY Zenon, <1>8, <1>11, <1>12, <2>1, <2>3
    <3> QED
      BY <2>1, <3>1
  <2> QED
    BY <1>9, <2>2, <2>3
<1>13. ASSUME Flat(t), NEW i \in 1 .. n + 1, NEW j \in LinesFrom(t, f, "{4:") PROVE BeforeLine(r[i], j)
  <2>1. j \in f .. l /\ t[j].kind = "{4:"
    <3>1. j \in LinesFrom(t, f, "{4:")
      BY Zenon
    <3> QED
      BY ONLY Zenon, <3>1 DEF LinesFrom, l
  <2>2. j \in 1 .. l /\ s < j /\ j \in from .. l
    BY Zenon, <1>1, <1>2, <2>1, FurtherDown
  <2>3. CASE i \in 1 .. n
    <3>1. j \in LinesFrom(t, from, "{4:")
      BY <2>1, <2>2 DEF LinesFrom, l
    <3> QED
      BY <1>5, <1>8, <1>13, <2>3, <3>1
  <2>4. CASE i = n + 1
    <3>1. e < j
      BY <1>1, <1>2, <1>13, <2>1, <2>2, BehindFlat DEF l
    <3>2. r[i] = x /\ j \in Nat
      BY Zenon, <1>1, <1>8, <2>2, <2>4, IsNumber
    <3>3. ASSUME NEW y \in 1 .. Len(x) PROVE x[y].id < j
      <4>1. x[y].id \in s + 1 .. e - 1
        BY Zenon, <1>7
      <4>2. s \in Nat /\ e \in Nat /\ j \in Nat
        BY Zenon, <1>2, <1>6, <3>2
      <4> QED
        BY Zenon, <3>1, <4>1, <4>2, InsideBlock
    <3> QED
      BY Zenon, <3>2, <3>3 DEF BeforeLine
  <2> QED
    BY <1>9, <2>3, <2>4
<1>14. BodiesIn(r, t)
  BY Zenon, <1>8, <1>10, <1>12 DEF BodiesIn
<1>15. BodiesBefore(r, t, f)
  BY Zenon, <1>8, <1>13 DEF BodiesBefore
<1> QED
  BY <1>14, <1>15 DEF r, x

\* What block4_bodies finds.
LEMMA BodiesShape ==
  ASSUME NEW S, NEW t \in Seq(S), Numbered(t)
  PROVE  /\ Block4Bodies(t) \in Seq(Seq(S)) /\ BodiesIn(Block4Bodies(t), t)
         /\ LinesFrom(t, 1, "{4:") = {} => Block4Bodies(t) = <<t>>
<1> DEFINE n == Len(t)
<1>1. PICK p : BlockRuns(p, S, t) /\ BodiesFound(t, p[n].bodies)
  BY BlockRecursion
<1>2. /\ p \in [0 .. n -> Found(S, t)] /\ p[0] = [from |-> 1, bodies |-> <<>>] /\ n \in Nat
      /\ \A k \in 1 .. n : p[k] = TakeBlock(t, p[k - 1])
  BY <1>1 DEF BlockRuns
<1> DEFINE Placed(q) == BodiesIn(q.bodies, t) /\ BodiesBefore(q.bodies, t, q.from)
           None0 == LinesFrom(t, 1, "{4:") = {}
           T == {k \in 0 .. n : Placed(p[k]) /\ (None0 => p[k] = p[0])}
<1>3. 0 \in T
  <2>1. p[0].bodies = <<>> /\ Len(<<>>) = 0 /\ (1 .. 0) = {}
    BY <1>2
  <2>2. Placed(p[0])
    BY <2>1 DEF BodiesIn, BodiesBefore
  <2> HIDE DEF Placed, None0
  <2> QED
    BY <1>2, <2>2
<1>4. ASSUME NEW k \in 1 .. n, k - 1 \in T PROVE k \in T
  <2> DEFINE q == p[k - 1]
             r == p[k]
  <2>1. q \in Found(S, t) /\ k \in 0 .. n /\ r = TakeBlock(t, q)
    BY <1>2
  <2>2. Placed(q) /\ (None0 => q = p[0])
    <3> HIDE DEF Placed, None0
    <3> QED BY <1>4
  <2> HIDE DEF q, r
  <2>3. CASE r = q
    <3> HIDE DEF Placed, None0
    <3>1. Placed(r) /\ (None0 => r = p[0])
      BY <2>2, <2>3
    <3> QED
      BY <2>1, <3>1 DEF r
  <2>4. CASE r # q
    <3>1. PICK s, e, f : BlockAt(t, q.from, s, e, f) /\ r = [from |-> f, bodies |-> Append(q.bodies, SubSeq(t, s + 1, e - 1))]
      BY <2>1, <2>4, BlockTaken
    <3>2. q.from \in 1 .. Len(t) + 1 /\ q.bodies \in Seq(Seq(S))
      BY <2>1 DEF Found
    <3> DEFINE from == q.from
               bodies == q.bodies
               more == Append(bodies, SubSeq(t, s + 1, e - 1))
    <3>3. BodiesIn(more, t) /\ BodiesBefore(more, t, f)
      <4>1. /\ from \in 1 .. Len(t) + 1 /\ bodies \in Seq(Seq(S))
            /\ BodiesIn(bodies, t) /\ BodiesBefore(bodies, t, from)
            /\ BlockAt(t, from, s, e, f)
        BY <2>2, <3>1, <3>2
      <4> HIDE DEF from, bodies
      <4> QED
        BY Zenon, <4>1, BodyAdded
    <3>4. r.from = f /\ r.bodies = more
      BY <3>1
    <3>5. Placed(r)
      <4> HIDE DEF more
      <4> QED BY <3>3, <3>4
    <3>6. ~None0
      <4>1. s \in 1 .. Len(t) /\ t[s].kind = "{4:"
        BY Zenon, <1>2, <3>1, <3>2, BlockLines
      <4> QED
        BY <4>1 DEF LinesFrom
    <3> HIDE DEF Placed, None0
    <3> QED
      BY <2>1, <3>5, <3>6 DEF r
  <2> QED
    BY <2>3, <2>4
<1>5. n \in T
  <2> HIDE DEF n, T
  <2>1. 0 .. n \subseteq T
    BY <1>2, <1>3, <1>4, PrefixInduction
  <2> QED
    BY <1>2, <2>1
<1> DEFINE found == p[n].bodies
<1>6. found \in Seq(Seq(S)) /\ p[0].bodies = <<>>
  <2>1. p[n] \in Found(S, t)
    BY <1>2
  <2> QED
    BY <1>2, <2>1 DEF Found
<1>7. Block4Bodies(t) = IF found = <<>> THEN <<t>> ELSE found
  BY <1>1 DEF BodiesFound
<1>8. BodiesIn(found, t)
  BY <1>5
<1>9. None0 => found = <<>>
  BY <1>5, <1>6
<1> HIDE DEF found, None0, T
<1>10. BodiesIn(<<t>>, t)
  <2>1. SubSeq(t, 1, Len(t)) = t /\ Len(t) \in Nat
    OBVIOUS
  <2>2. 1 \in 1 .. Len(t) + 1 /\ Len(t) \in 1 - 1 .. Len(t)
    BY <2>1
  <2>3. IsPart(t, t)
    BY Zenon, <2>1, <2>2 DEF IsPart
  <2> HIDE DEF IsPart
  <2>4. Len(<<t>>) = 1 /\ <<t>>[1] = t /\ \A i \in 1 .. 1 : i = 1
    OBVIOUS
  <2> QED
    BY <2>3, <2>4 DEF BodiesIn
<1>11. <<t>> \in Seq(Seq(S))
  OBVIOUS
<1> QED
  BY <1>6, <1>7, <1>8, <1>9, <1>10, <1>11 DEF None0

\* fs are fields of the numbered text t, in its order.
FieldsIn(fs, t) ==
  /\ AreFields(fs) /\ HeadsAscend(fs)
  /\ \A m \in 1 .. Len(fs) : fs[m][1].id \in 1 .. Len(t) /\ fs[m][1] = t[fs[m][1].id]

\* No field between two of fs is missing.
NoneMissing(fs, t) ==
  \A m, n \in 1 .. Len(fs) : \A i \in fs[m][1].id .. fs[n][1].id :
     IsTag(t[i]) => \E k \in 1 .. Len(fs) : fs[k][1].id = i

\* The fields of a group: none is missing, and only the first is a :20:.
GroupIn(g, t) ==
  /\ g # <<>> /\ FieldsIn(g, t) /\ NoneMissing(g, t)
  /\ \A m \in 2 .. Len(g) : TagOf(g[m]) # "20"

\* The fields of group g stand before those of group h.
GroupBefore(g, h) ==
  \A m \in 1 .. Len(g) : \A n \in 1 .. Len(h) : g[m][1].id < h[n][1].id

\* The lines w are those after line a.
LinesAfter(w, t, a) ==
  \A i \in 1 .. Len(w) : a + i \in 1 .. Len(t) /\ w[i] = t[a + i] /\ w[i].id = a + i

\* The lines of a part of a numbered text.
LEMMA PartOfText ==
  ASSUME NEW S, NEW t, t \in Seq(S), Numbered(t), NEW w, IsPart(w, t)
  PROVE  w \in Seq(S) /\ \E a \in Nat : LinesAfter(w, t, a)
<1> DEFINE n == Len(t)
<1>1. n \in Nat /\ \A i \in 1 .. n : t[i].id = i
  BY DEF Numbered
<1>2. PICK a \in 1 .. n + 1 : \E b \in a - 1 .. n : w = SubSeq(t, a, b)
  BY DEF IsPart
<1>3. PICK b \in a - 1 .. n : w = SubSeq(t, a, b)
  BY <1>2
<1>4. /\ w \in Seq(S) /\ Len(w) = b - a + 1
      /\ \A i \in 1 .. b - a + 1 : w[i] = t[a + i - 1]
  BY Zenon, <1>3, PartShape
<1> HIDE DEF n
<1>5. a - 1 \in Nat
  BY <1>1
<1>6. ASSUME NEW i \in 1 .. Len(w)
      PROVE  (a - 1) + i \in 1 .. n /\ w[i] = t[(a - 1) + i] /\ w[i].id = (a - 1) + i
  <2>1. i \in 1 .. b - a + 1 /\ (a - 1) + i = a + i - 1 /\ (a - 1) + i \in 1 .. n
    BY <1>1, <1>4
  <2> QED
    BY <1>1, <1>4, <2>1
<1> QED
  BY <1>4, <1>5, <1>6 DEF n, LinesAfter

\* The fields of a part of a text.
LEMMA BodyFields ==
  ASSUME NEW S, NEW t, t \in Seq(S), Numbered(t), NEW w, IsPart(w, t)
  PROVE  /\ ParseBody(w) \in Seq(Seq(S)) /\ FieldsIn(ParseBody(w), t)
         /\ NoneMissing(ParseBody(w), t) /\ FieldsOf(ParseBody(w), w, Len(w))
<1> DEFINE fs == ParseBody(w)
           n == Len(t)
           l == Len(w)
<1>1. w \in Seq(S) /\ \E a \in Nat : LinesAfter(w, t, a)
  BY Zenon, PartOfText
<1>2. PICK a \in Nat : /\ w \in Seq(S)
                       /\ \A i \in 1 .. l : /\ a + i \in 1 .. n
                                            /\ w[i] = t[a + i] /\ w[i].id = a + i
  BY <1>1 DEF LinesAfter
<1>3. l \in Nat /\ n \in Nat
  BY <1>2
<1>4. Ascend(w)
  <2> HIDE DEF l
  <2> SUFFICES ASSUME NEW i \in 1 .. l, NEW j \in 1 .. l, i < j PROVE w[i].id < w[j].id
    BY DEF Ascend, l
  <2>1. w[i].id = a + i /\ w[j].id = a + j
    BY <1>2
  <2> QED
    BY <1>2, <1>3, <2>1
<1>5. fs \in Seq(Seq(S)) /\ FieldsOf(fs, w, l) /\ HeadsAscend(fs)
  BY Zenon, <1>2, <1>4, ParsedFields
<1>6. /\ AreFields(fs) /\ (\A m \in 1 .. Len(fs) : \E i \in 1 .. l : fs[m][1] = w[i])
      /\ \A i \in 1 .. l : IsTag(w[i]) => \E m \in 1 .. Len(fs) : fs[m][1] = w[i]
  BY <1>5 DEF FieldsOf, HeadsAmong, HeadsAll
<1> HIDE DEF fs, l, n
<1>7. ASSUME NEW m \in 1 .. Len(fs)
      PROVE  fs[m][1].id \in a + 1 .. a + l /\ fs[m][1].id \in 1 .. n /\ fs[m][1] = t[fs[m][1].id]
  <2>1. PICK i \in 1 .. l : fs[m][1] = w[i]
    BY <1>6
  <2>2. a + i \in 1 .. n /\ w[i] = t[a + i] /\ w[i].id = a + i
    BY <1>2
  <2>3. a + i \in a + 1 .. a + l
    BY <1>2, <1>3
  <2> QED
    BY <2>1, <2>2, <2>3
<1>8. FieldsIn(fs, t)
  BY <1>5, <1>6, <1>7 DEF FieldsIn, n
<1>9. ASSUME NEW m \in 1 .. Len(fs), NEW k \in 1 .. Len(fs),
             NEW i \in fs[m][1].id .. fs[k][1].id, IsTag(t[i])
      PROVE  \E j \in 1 .. Len(fs) : fs[j][1].id = i
  <2> DEFINE x == fs[m][1].id
             y == fs[k][1].id
  <2>1. x \in a + 1 .. a + l /\ y \in a + 1 .. a + l /\ i \in x .. y
    BY <1>7
  <2> HIDE DEF x, y
  <2>2. i - a \in 1 .. l /\ a + (i - a) = i
    BY <1>2, <1>3, <2>1
  <2>3. w[i - a] = t[i] /\ w[i - a].id = i
    BY <1>2, <2>2
  <2>4. PICK j \in 1 .. Len(fs) : fs[j][1] = w[i - a]
    BY <1>6, <1>9, <2>2, <2>3
  <2> QED
    BY <2>3, <2>4
<1>10. NoneMissing(fs, t)
  BY <1>9 DEF NoneMissing
<1> QED
  BY <1>5, <1>8, <1>10 DEF fs, l

\* The fields g are those of fs from the a-th on.
FieldsFrom(g, fs, a) ==
  /\ a \in Nat \ {0} /\ Len(g) \in Nat \ {0}
  /\ \A m \in 1 .. Len(g) : (a - 1) + m \in 1 .. Len(fs) /\ g[m] = fs[(a - 1) + m]

\* Where the fields of a group stand among those of the body.
LEMMA GroupFields ==
  ASSUME NEW F, NEW fs, fs \in Seq(F), NEW gs, NEW c, Starts(c, gs, fs, Len(fs)),
         NEW j, j \in 1 .. Len(gs), Len(gs) \in Nat
  PROVE  gs[j] \in Seq(F) /\ FieldsFrom(gs[j], fs, c[j]) /\ c[j] + Len(gs[j]) = c[j + 1]
<1> DEFINE n == Len(fs)
           g == gs[j]
           l == Len(gs)
           a == c[j]
           b == c[j + 1]
<1>1. n \in Nat /\ l \in Nat /\ j \in 1 .. l + 1 /\ j + 1 \in 1 .. l + 1 /\ j < j + 1
  OBVIOUS
<1>2. c \in [1 .. l + 1 -> 1 .. n + 1] /\ (\A i, k \in 1 .. l + 1 : i < k => c[i] < c[k])
  BY DEF Starts
<1>3. a \in 1 .. n + 1 /\ b \in 1 .. n + 1 /\ a < b
  BY <1>1, <1>2
<1>4. g = SubSeq(fs, a, b - 1)
  BY DEF Starts
<1> HIDE DEF n, l, a, b
<1>5. b - 1 \in a - 1 .. n /\ a \in Nat \ {0} /\ (b - 1) - a + 1 = b - a /\ b - a \in Nat \ {0}
  BY <1>1, <1>3
<1>6. /\ g \in Seq(F) /\ Len(g) = (b - 1) - a + 1
      /\ \A i \in 1 .. (b - 1) - a + 1 : g[i] = fs[a + i - 1]
  BY <1>3, <1>4, <1>5, PartShape DEF n
<1> HIDE DEF g
<1>7. ASSUME NEW m \in 1 .. Len(g) PROVE (a - 1) + m \in 1 .. n /\ g[m] = fs[(a - 1) + m]
  <2>1. m \in 1 .. b - a /\ (a - 1) + m = a + m - 1 /\ (a - 1) + m \in 1 .. n
    BY <1>1, <1>3, <1>5, <1>6
  <2> QED
    BY <1>5, <1>6, <2>1
<1>8. a + Len(g) = b
  BY <1>3, <1>5, <1>6
<1> QED
  BY <1>5, <1>6, <1>7, <1>8 DEF a, b, g, n, FieldsFrom

\* Fields counted from field a on are in the order they had.
LEMMA ShiftedOrder ==
  ASSUME NEW a \in Nat \ {0}, NEW m \in Int, NEW n \in Int
  PROVE  m < n <=> (a - 1) + m < (a - 1) + n
OBVIOUS

\* A field between two of a group is counted from the start of the group.
LEMMA BackShifted ==
  ASSUME NEW a \in Nat \ {0}, NEW l \in Nat, NEW m, m \in 1 .. l, NEW n, n \in 1 .. l,
         NEW k \in Int, k >= (a - 1) + m, k <= (a - 1) + n
  PROVE  k - a + 1 \in 1 .. l /\ (a - 1) + (k - a + 1) = k
OBVIOUS

\* Each group of the fields of a body is one of fields of the text.
LEMMA GroupOf ==
  ASSUME NEW F, NEW fs, fs \in Seq(F), NEW t, Len(t) \in Nat, FieldsIn(fs, t), NoneMissing(fs, t),
         NEW gs, NEW c, Starts(c, gs, fs, Len(fs)),
         NEW j, j \in 1 .. Len(gs), Len(gs) \in Nat
  PROVE  GroupIn(gs[j], t)
<1> DEFINE g == gs[j]
           l == Len(g)
           n == Len(fs)
           a == c[j]
<1>1. g \in Seq(F) /\ FieldsFrom(g, fs, a) /\ a + l = c[j + 1]
  BY GroupFields
<1>2. /\ a \in Nat \ {0} /\ l \in Nat \ {0} /\ g \in Seq(F) /\ a + l = c[j + 1]
      /\ \A m \in 1 .. l : (a - 1) + m \in 1 .. n /\ g[m] = fs[(a - 1) + m]
  BY <1>1 DEF FieldsFrom
<1>3. /\ \A m \in 1 .. n : IsField(fs[m])
      /\ \A m, k \in 1 .. n : m < k => fs[m][1].id < fs[k][1].id
      /\ \A m \in 1 .. n : fs[m][1].id \in 1 .. Len(t) /\ fs[m][1] = t[fs[m][1].id]
  BY DEF FieldsIn, AreFields, HeadsAscend
<1>4. \A m \in a + 1 .. c[j + 1] - 1 : TagOf(fs[m]) # "20"
  BY DEF Starts
<1>5. n \in Nat
  OBVIOUS
<1> HIDE DEF g, l, n, a
<1>6. g # <<>>
  BY <1>2 DEF l
<1>7. AreFields(g)
  BY <1>2, <1>3 DEF AreFields, l
<1>8. HeadsAscend(g)
  <2> SUFFICES ASSUME NEW m \in 1 .. l, NEW k \in 1 .. l, m < k PROVE g[m][1].id < g[k][1].id
    BY DEF HeadsAscend, l
  <2>1. m \in Int /\ k \in Int
    OBVIOUS
  <2>2. (a - 1) + m < (a - 1) + k
    BY <1>2, <2>1, ShiftedOrder
  <2>3. /\ (a - 1) + m \in 1 .. n /\ g[m] = fs[(a - 1) + m]
        /\ (a - 1) + k \in 1 .. n /\ g[k] = fs[(a - 1) + k]
    BY <1>2
  <2> QED
    BY <1>3, <2>2, <2>3
<1>9. FieldsIn(g, t)
  <2>1. \A m \in 1 .. l : g[m][1].id \in 1 .. Len(t) /\ g[m][1] = t[g[m][1].id]
    <3> TAKE m \in 1 .. l
    <3>1. (a - 1) + m \in 1 .. n /\ g[m] = fs[(a - 1) + m]
      BY <1>2
    <3> QED
      BY <1>3, <3>1
  <2> QED
    BY Zenon, <1>7, <1>8, <2>1 DEF FieldsIn, l
<1>10. NoneMissing(g, t)
  <2> SUFFICES ASSUME NEW m \in 1 .. l, NEW k \in 1 .. l, NEW i \in g[m][1].id .. g[k][1].id,
                      IsTag(t[i])
               PROVE  \E o \in 1 .. l : g[o][1].id = i
    BY DEF NoneMissing, l
  <2> DEFINE x == (a - 1) + m
             y == (a - 1) + k
  <2>1. x \in 1 .. n /\ g[m] = fs[x] /\ y \in 1 .. n /\ g[k] = fs[y]
    BY <1>2
  <2> HIDE DEF x, y
  <2>2. PICK z \in 1 .. n : fs[z][1].id = i
    <3>1. i \in fs[x][1].id .. fs[y][1].id
      BY <2>1
    <3> QED
      BY <2>1, <3>1 DEF NoneMissing, n
  <2>3. x <= z /\ z <= y
    <3> DEFINE u == fs[x][1].id
               v == fs[y][1].id
    <3>1. u \in 1 .. Len(t) /\ v \in 1 .. Len(t) /\ i \in u .. v
      BY <1>3, <2>1
    <3>2. (z < x => i < u) /\ (y < z => v < i)
      BY <1>3, <2>1, <2>2
    <3> HIDE DEF u, v
    <3>3. i >= u /\ i <= v /\ i \in Int /\ u \in Int /\ v \in Int
      BY <3>1
    <3> QED
      BY <1>5, <2>1, <2>2, <3>2, <3>3
  <2>4. z - a + 1 \in 1 .. l /\ (a - 1) + (z - a + 1) = z
    <3>1. z \in Int /\ z >= (a - 1) + m /\ z <= (a - 1) + k
      BY <1>2, <1>5, <2>1, <2>3 DEF x, y
    <3> QED
      BY <1>2, <3>1, BackShifted
  <2>5. g[z - a + 1] = fs[z]
    BY <1>2, <2>4
  <2> QED
    BY <2>2, <2>4, <2>5
<1>11. \A m \in 2 .. l : TagOf(g[m]) # "20"
  <2> TAKE m \in 2 .. l
  <2>1. m \in 1 .. l /\ (a - 1) + m \in a + 1 .. (a + l) - 1
    BY <1>2
  <2>2. g[m] = fs[(a - 1) + m]
    BY <1>2, <2>1
  <2> QED
    BY <1>2, <1>4, <2>1, <2>2
<1> QED
  BY Zenon, <1>6, <1>9, <1>10, <1>11 DEF GroupIn, g, l

\* The groups of a body are in order.
LEMMA GroupsApart ==
  ASSUME NEW F, NEW fs, fs \in Seq(F), HeadsAscend(fs),
         NEW gs, NEW c, Starts(c, gs, fs, Len(fs)), Len(gs) \in Nat,
         NEW i, i \in 1 .. Len(gs), NEW j, j \in 1 .. Len(gs), i < j
  PROVE  GroupBefore(gs[i], gs[j])
<1> DEFINE n == Len(fs)
<1>1. /\ c[i] \in Nat \ {0} /\ Len(gs[i]) \in Nat /\ c[i] + Len(gs[i]) = c[i + 1]
      /\ \A m \in 1 .. Len(gs[i]) : (c[i] - 1) + m \in 1 .. n /\ gs[i][m] = fs[(c[i] - 1) + m]
  BY GroupFields DEF FieldsFrom
<1>2. /\ c[j] \in Nat \ {0} /\ Len(gs[j]) \in Nat
      /\ \A m \in 1 .. Len(gs[j]) : (c[j] - 1) + m \in 1 .. n /\ gs[j][m] = fs[(c[j] - 1) + m]
  BY GroupFields DEF FieldsFrom
<1>3. c[i + 1] <= c[j] /\ c[i + 1] \in Nat
  <2>1. /\ \A p, k \in 1 .. Len(gs) + 1 : p < k => c[p] < c[k]
        /\ \A p \in 1 .. Len(gs) + 1 : c[p] \in 1 .. n + 1
    BY DEF Starts
  <2>2. i + 1 \in 1 .. Len(gs) + 1 /\ j \in 1 .. Len(gs) + 1 /\ (i + 1 = j \/ i + 1 < j)
    OBVIOUS
  <2>3. c[i + 1] \in 1 .. n + 1 /\ c[j] \in 1 .. n + 1 /\ n \in Nat
    BY <2>1, <2>2
  <2>4. c[i + 1] = c[j] \/ c[i + 1] < c[j]
    BY <2>1, <2>2
  <2> QED
    BY <2>3, <2>4
<1>4. \A m, k \in 1 .. n : m < k => fs[m][1].id < fs[k][1].id
  BY DEF HeadsAscend
<1> SUFFICES ASSUME NEW m \in 1 .. Len(gs[i]), NEW k \in 1 .. Len(gs[j])
             PROVE  gs[i][m][1].id < gs[j][k][1].id
  BY DEF GroupBefore
<1> DEFINE a == c[i]
           b == c[j]
           p == Len(gs[i])
<1>5. (a - 1) + m \in 1 .. n /\ gs[i][m] = fs[(a - 1) + m]
  BY <1>1
<1>6. (b - 1) + k \in 1 .. n /\ gs[j][k] = fs[(b - 1) + k]
  BY <1>2
<1>7. a \in Nat /\ b \in Nat /\ a + p <= b /\ p \in Nat /\ m \in 1 .. p /\ k \in Nat \ {0}
  BY <1>1, <1>2, <1>3, SMTT(60)
<1> HIDE DEF a, b, p, n
<1>8. (a - 1) + m < (b - 1) + k
  BY <1>7
<1> QED
  BY <1>4, <1>5, <1>6, <1>8

\* The fields of g begin with lines of w.
HeadsOf(g, w) == \A m \in 1 .. Len(g) : \E i \in 1 .. Len(w) : g[m][1] = w[i]

\* Every tagged line of w begins a field of some group.
HeadsIn(w, gs) ==
  \A i \in 1 .. Len(w) : IsTag(w[i]) =>
    \E j \in 1 .. Len(gs) : \E m \in 1 .. Len(gs[j]) : gs[j][m][1] = w[i]

GroupsInOrder(gs) == \A i, j \in 1 .. Len(gs) : i < j => GroupBefore(gs[i], gs[j])

\* gs are the groups of the body w of a text.
GroupsOf(gs, w, t) ==
  /\ \A j \in 1 .. Len(gs) : GroupIn(gs[j], t) /\ HeadsOf(gs[j], w)
  /\ GroupsInOrder(gs) /\ HeadsIn(w, gs)

\* The place in its group of a field that stands from a to b - 1.
LEMMA PlaceInGroup ==
  ASSUME NEW a \in Nat \ {0}, NEW l \in Nat, NEW b, a + l = b, NEW m \in Int, m \in a .. b - 1
  PROVE  m - a + 1 \in 1 .. l /\ (a - 1) + (m - a + 1) = m
OBVIOUS

\* The groups of a body, as parts of the text.
LEMMA GroupsOfBody ==
  ASSUME NEW S, NEW t, t \in Seq(S), Numbered(t), NEW w, IsPart(w, t), w \in Seq(S)
  PROVE  /\ SplitStatements(ParseBody(w)) \in Seq(Seq(Seq(S)))
         /\ GroupsOf(SplitStatements(ParseBody(w)), w, t)
<1> DEFINE fs == ParseBody(w)
           gs == SplitStatements(fs)
           F == Seq(S)
           n == Len(fs)
<1>1. fs \in Seq(F) /\ FieldsIn(fs, t) /\ NoneMissing(fs, t) /\ FieldsOf(fs, w, Len(w))
  BY Zenon, BodyFields
<1>2. gs \in Seq(Seq(F))
  BY Zenon, BodyGroups
<1> HIDE DEF fs, F
<1>3. PICK c : Starts(c, gs, fs, n)
  BY <1>1, SplitShape
<1> HIDE DEF gs
<1>4. Len(gs) \in Nat /\ n \in Nat /\ Len(t) \in Nat
  BY <1>1, <1>2
<1>5. HeadsAscend(fs) /\ HeadsAmong(fs, w, Len(w)) /\ HeadsAll(fs, w, Len(w))
  BY <1>1 DEF FieldsIn, FieldsOf
<1>6. \A j \in 1 .. Len(gs) : GroupIn(gs[j], t)
  BY <1>1, <1>3, <1>4, GroupOf
<1>7. \A j \in 1 .. Len(gs) : FieldsFrom(gs[j], fs, c[j]) /\ c[j] + Len(gs[j]) = c[j + 1]
  BY <1>1, <1>3, <1>4, GroupFields
<1>8. ASSUME NEW j \in 1 .. Len(gs) PROVE HeadsOf(gs[j], w)
  <2> SUFFICES ASSUME NEW m \in 1 .. Len(gs[j]) PROVE \E i \in 1 .. Len(w) : gs[j][m][1] = w[i]
    BY DEF HeadsOf
  <2>1. (c[j] - 1) + m \in 1 .. n /\ gs[j][m] = fs[(c[j] - 1) + m]
    BY <1>7 DEF FieldsFrom
  <2> QED
    BY <1>5, <2>1 DEF HeadsAmong
<1>9. GroupsInOrder(gs)
  BY <1>1, <1>3, <1>4, <1>5, GroupsApart DEF GroupsInOrder
<1>10. HeadsIn(w, gs)
  <2> SUFFICES ASSUME NEW i \in 1 .. Len(w), IsTag(w[i])
               PROVE  \E j \in 1 .. Len(gs) : \E m \in 1 .. Len(gs[j]) : gs[j][m][1] = w[i]
    BY DEF HeadsIn
  <2>1. PICK m \in 1 .. n : fs[m][1] = w[i]
    BY <1>5 DEF HeadsAll
  <2>2. PICK j \in 1 .. Len(gs) : m \in c[j] .. c[j + 1] - 1
    BY <1>3 DEF Starts
  <2> DEFINE a == c[j]
             b == c[j + 1]
             l == Len(gs[j])
  <2>3. a \in Nat \ {0} /\ l \in Nat /\ a + l = b /\ m \in Int /\ m \in a .. b - 1
    BY <1>7, <2>2 DEF FieldsFrom
  <2>4. \A k \in 1 .. l : gs[j][k] = fs[(a - 1) + k]
    BY <1>7 DEF FieldsFrom
  <2> HIDE DEF a, b, l
  <2>5. m - a + 1 \in 1 .. l /\ (a - 1) + (m - a + 1) = m
    BY <2>3, PlaceInGroup
  <2>6. gs[j][m - a + 1] = fs[m]
    BY <2>4, <2>5
  <2> QED
    BY <2>1, <2>5, <2>6 DEF l
<1> QED
  BY <1>2, <1>6, <1>8, <1>9, <1>10 DEF GroupsOf, gs, fs, F

\* The groups of the first k bodies.
GroupsUpTo(gs, k, bodies, t) ==
  /\ \A j \in 1 .. Len(gs) : GroupIn(gs[j], t) /\ \E b \in 1 .. k : HeadsOf(gs[j], bodies[b])
  /\ Flat(t) => GroupsInOrder(gs)

\* The lines of one body before those of another, and so their groups.
LEMMA BodiesApart ==
  ASSUME NEW v, NEW w, Before(v, w), NEW g, HeadsOf(g, v), NEW h, HeadsOf(h, w)
  PROVE  GroupBefore(g, h)
BY DEF Before, HeadsOf, GroupBefore

\* And the groups of the next one.
LEMMA GroupsAdded ==
  ASSUME NEW X, NEW q, q \in Seq(X), NEW gs, gs \in Seq(X), NEW k, k \in Nat \ {0},
         NEW bodies, NEW t, GroupsUpTo(q, k - 1, bodies, t), GroupsOf(gs, bodies[k], t),
         Flat(t) => \A b \in 1 .. k - 1 : Before(bodies[b], bodies[k])
  PROVE  GroupsUpTo(q \o gs, k, bodies, t)
<1> DEFINE r == q \o gs
           l == Len(q)
           n == Len(gs)
<1>1. /\ l \in Nat /\ n \in Nat /\ Len(r) = l + n
      /\ \A i \in 1 .. l : r[i] = q[i]
      /\ \A i \in l + 1 .. l + n : r[i] = gs[i - l]
  BY Concat
<1>2. /\ \A j \in 1 .. l : GroupIn(q[j], t) /\ \E b \in 1 .. k - 1 : HeadsOf(q[j], bodies[b])
      /\ Flat(t) => \A i, j \in 1 .. l : i < j => GroupBefore(q[i], q[j])
  BY DEF GroupsUpTo, GroupsInOrder
<1>3. /\ \A j \in 1 .. n : GroupIn(gs[j], t) /\ HeadsOf(gs[j], bodies[k])
      /\ \A i, j \in 1 .. n : i < j => GroupBefore(gs[i], gs[j])
  BY DEF GroupsOf, GroupsInOrder
<1> HIDE DEF r, l, n
<1>4. \A i \in 1 .. l + n : i \in 1 .. l \/ (i \in l + 1 .. l + n /\ i - l \in 1 .. n)
  BY <1>1
<1>5. ASSUME NEW j \in 1 .. l + n
      PROVE  GroupIn(r[j], t) /\ \E b \in 1 .. k : HeadsOf(r[j], bodies[b])
  <2>1. CASE j \in 1 .. l
    <3>1. PICK b \in 1 .. k - 1 : HeadsOf(q[j], bodies[b])
      BY <1>2, <2>1
    <3>2. b \in 1 .. k
      OBVIOUS
    <3> QED
      BY <1>1, <1>2, <2>1, <3>1, <3>2
  <2>2. CASE j \in l + 1 .. l + n /\ j - l \in 1 .. n
    <3>1. k \in 1 .. k
      OBVIOUS
    <3> QED
      BY <1>1, <1>3, <2>2, <3>1
  <2> QED
    BY <1>4, <2>1, <2>2
<1>6. ASSUME Flat(t), NEW i \in 1 .. l + n, NEW j \in 1 .. l + n, i < j
      PROVE  GroupBefore(r[i], r[j])
  <2>1. CASE i \in 1 .. l /\ j \in 1 .. l
    BY <1>1, <1>2, <1>6, <2>1
  <2>2. CASE i \in 1 .. l /\ j \in l + 1 .. l + n /\ j - l \in 1 .. n
    <3>1. PICK b \in 1 .. k - 1 : HeadsOf(q[i], bodies[b])
      BY <1>2, <2>2
    <3>2. Before(bodies[b], bodies[k])
      BY <1>6
    <3>3. GroupBefore(q[i], gs[j - l])
      BY Zenon, <1>3, <2>2, <3>1, <3>2, BodiesApart
    <3> QED
      BY <1>1, <2>2, <3>3
  <2>3. CASE /\ i \in l + 1 .. l + n /\ i - l \in 1 .. n
             /\ j \in l + 1 .. l + n /\ j - l \in 1 .. n
    <3>1. i - l < j - l
      BY <1>1, <1>6, <2>3
    <3> QED
      BY <1>1, <1>3, <2>3, <3>1
  <2>4. ~(i \in l + 1 .. l + n /\ j \in 1 .. l)
    BY <1>1, <1>6
  <2> QED
    BY <1>4, <2>1, <2>2, <2>3, <2>4
<1> QED
  BY <1>1, <1>5, <1>6 DEF GroupsUpTo, GroupsInOrder, r

\* The groups of a file, which its statements are made of.
LEMMA GroupsShape ==
  ASSUME NEW S, NEW t, t \in Seq(S), Numbered(t)
  PROVE  /\ Groups(t) \in Seq(Seq(Seq(S)))
         /\ \A j \in 1 .. Len(Groups(t)) : GroupIn(Groups(t)[j], t)
         /\ Flat(t) => GroupsInOrder(Groups(t))
<1> DEFINE bodies == Block4Bodies(t)
           n == Len(bodies)
           X == Seq(Seq(S))
<1>1. bodies \in Seq(Seq(S)) /\ BodiesIn(bodies, t)
  BY BodiesShape
<1>2. /\ \A i \in 1 .. n : IsPart(bodies[i], t)
      /\ Flat(t) => \A i, j \in 1 .. n : i < j => Before(bodies[i], bodies[j])
  BY <1>1 DEF BodiesIn
<1>3. PICK p : GroupRuns(p, S, bodies) /\ Groups(t) = p[n]
  BY <1>1, GroupRecursion
<1>4. /\ p \in [0 .. n -> Seq(X)] /\ p[0] = <<>> /\ n \in Nat
      /\ \A k \in 1 .. n : p[k] = p[k - 1] \o SplitStatements(ParseBody(bodies[k]))
  BY <1>1, <1>3 DEF GroupRuns
<1>5. \A k \in 1 .. n : bodies[k] \in Seq(S)
  BY <1>1
<1> HIDE DEF bodies, n
<1> DEFINE T == {k \in 0 .. n : GroupsUpTo(p[k], k, bodies, t)}
<1>6. 0 \in T
  <2>1. Len(<<>>) = 0 /\ (1 .. 0) = {}
    OBVIOUS
  <2>2. GroupsUpTo(<<>>, 0, bodies, t)
    BY <2>1 DEF GroupsUpTo, GroupsInOrder
  <2> QED
    BY <1>4, <2>2
<1>7. ASSUME NEW k \in 1 .. n, k - 1 \in T PROVE k \in T
  <2> DEFINE q == p[k - 1]
             w == bodies[k]
             gs == SplitStatements(ParseBody(w))
  <2>1. k \in 0 .. n /\ k - 1 \in 0 .. n /\ k \in Nat \ {0}
    BY <1>4
  <2>2. q \in Seq(X) /\ k \in 0 .. n /\ k \in Nat \ {0} /\ p[k] = q \o gs
    <3> HIDE DEF X
    <3> QED BY <1>4, <2>1
  <2>3. GroupsUpTo(q, k - 1, bodies, t)
    BY <1>7
  <2>4. IsPart(w, t) /\ w \in Seq(S)
    BY <1>2, <1>5
  <2>5. gs \in Seq(X) /\ GroupsOf(gs, w, t)
    BY Zenon, <2>4, GroupsOfBody
  <2>6. Flat(t) => \A b \in 1 .. k - 1 : Before(bodies[b], bodies[k])
    <3>1. \A b \in 1 .. k - 1 : b \in 1 .. n /\ b < k
      BY <1>4
    <3> QED
      BY <1>2, <3>1
  <2> HIDE DEF q, gs, X
  <2>7. GroupsUpTo(q \o gs, k, bodies, t)
    BY <2>2, <2>3, <2>5, <2>6, GroupsAdded DEF w
  <2> QED
    BY <2>2, <2>7
<1> HIDE DEF T
<1>8. n \in T
  <2>1. 0 .. n \subseteq T
    BY <1>4, <1>6, <1>7, PrefixInduction
  <2> QED
    BY <1>4, <2>1
<1> DEFINE groups == Groups(t)
<1>9. groups \in Seq(X) /\ GroupsUpTo(groups, n, bodies, t)
  BY <1>3, <1>4, <1>8 DEF T
<1> HIDE DEF groups
<1>10. (\A j \in 1 .. Len(groups) : GroupIn(groups[j], t)) /\ (Flat(t) => GroupsInOrder(groups))
  BY <1>9 DEF GroupsUpTo
<1> QED
  BY <1>9, <1>10 DEF groups

\* The kinds of lines that occur, and the lines.
Kinds == UNION {f.kinds : f \in Families}

TextLines == [kind : Kinds, id : Nat]

\* Every line of the text says where it stands.
TextOk == text \in Seq(TextLines) /\ Numbered(text)

\* A line written keeps the lines numbered.
LEMMA LineWritten ==
  ASSUME NEW t, t \in Seq(TextLines), Numbered(t), NEW kind, kind \in Kinds
  PROVE  /\ Append(t, [kind |-> kind, id |-> Len(t) + 1]) \in Seq(TextLines)
         /\ Numbered(Append(t, [kind |-> kind, id |-> Len(t) + 1]))
<1> DEFINE n == Len(t)
           l == [kind |-> kind, id |-> n + 1]
           r == Append(t, l)
<1>1. l \in TextLines /\ l.id = n + 1 /\ n \in Nat
  BY DEF TextLines
<1>2. \A i \in 1 .. n : t[i].id = i
  BY DEF Numbered
<1> HIDE DEF l
<1>3. /\ r \in Seq(TextLines) /\ Len(r) = n + 1 /\ r[n + 1] = l
      /\ \A i \in 1 .. n : r[i] = t[i]
  BY <1>1, Longer
<1> HIDE DEF r, n
<1>4. ASSUME NEW i \in 1 .. n + 1 PROVE r[i].id = i
  <2>1. CASE i \in 1 .. n
    BY <1>2, <1>3, <2>1
  <2>2. CASE i = n + 1
    BY <1>1, <1>3, <2>2
  <2> QED
    BY <1>1, <2>1, <2>2
<1>5. Numbered(r)
  BY <1>3, <1>4 DEF Numbered
<1> QED
  BY <1>3, <1>5 DEF r, l, n

\* The type of the text, which Write keeps.
THEOREM TextIsNumbered == Spec => []TextOk
<1>1. Init => TextOk
  <2> SUFFICES ASSUME Init PROVE TextOk
    OBVIOUS
  <2>1. text = <<>> /\ Len(<<>>) = 0 /\ (1 .. 0) = {} /\ <<>> \in Seq(TextLines)
    BY DEF Init
  <2> QED
    BY <2>1 DEF TextOk, Numbered
<1>2. TextOk /\ [Next]_text => TextOk'
  <2> SUFFICES ASSUME TextOk, [Next]_text PROVE TextOk'
    OBVIOUS
  <2>1. ASSUME NEW f \in Families, NEW kind \in f.kinds, Write(kind) PROVE TextOk'
    <3>1. text' = Append(text, [kind |-> kind, id |-> Len(text) + 1])
      BY <2>1 DEF Write
    <3>2. kind \in Kinds
      BY DEF Kinds
    <3>3. text \in Seq(TextLines) /\ Numbered(text)
      BY DEF TextOk
    <3>4. text' \in Seq(TextLines) /\ Numbered(text')
      BY <3>1, <3>2, <3>3, LineWritten
    <3> QED
      BY <3>4 DEF TextOk, Numbered
  <2>2. CASE UNCHANGED text
    BY <2>2 DEF TextOk, Numbered
  <2> QED
    BY <2>1, <2>2 DEF Next
<1> QED
  BY <1>1, <1>2, PTL DEF Spec

\* A statement of a file is made of a group of its fields.
LEMMA StatementOfGroup ==
  ASSUME NEW S, NEW t, t \in Seq(S), Numbered(t), NEW st, st \in Range(ParseFile(t))
  PROVE  \E g \in Seq(Seq(S)) : GroupIn(g, t) /\ st = StatementFromFields(g)
<1> DEFINE gs == Groups(t)
           X == Seq(Seq(S))
<1>1. gs \in Seq(X) /\ \A j \in 1 .. Len(gs) : GroupIn(gs[j], t)
  BY GroupsShape
<1>2. ParseFile(t) = [j \in DOMAIN gs |-> StatementFromFields(gs[j])]
  BY DEF ParseFile
<1> HIDE DEF gs, X
<1>3. DOMAIN gs = 1 .. Len(gs)
  BY <1>1
<1>4. PICK j \in DOMAIN ParseFile(t) : st = ParseFile(t)[j]
  BY DEF Range
<1>5. j \in 1 .. Len(gs) /\ st = StatementFromFields(gs[j])
  BY <1>2, <1>3, <1>4
<1>6. gs[j] \in X
  BY <1>1, <1>5
<1> QED
  BY <1>1, <1>5, <1>6 DEF X

\* The lines of a statement are fields of its group, in its order.
LEMMA EntriesOfGroup ==
  ASSUME NEW S, NEW g, g \in Seq(Seq(S))
  PROVE  /\ StatementFromFields(g).lines = ParseLinesFrom(g)
         /\ ParseLinesFrom(g) \in Seq(Entries(Seq(S)))
         /\ \E at : EntriesAt(at, ParseLinesFrom(g), g, Len(g))
<1> DEFINE F == Seq(S)
<1>1. g \in Seq(F)
  OBVIOUS
<1>2. ParseLinesFrom(g) \in Seq(Entries(F)) /\ \E at : EntriesAt(at, ParseLinesFrom(g), g, Len(g))
  <2> HIDE DEF F
  <2> QED BY <1>1, EntriesShape
<1>3. StatementFromFields(g).lines = ParseLinesFrom(g)
  BY DEF StatementFromFields
<1> QED
  BY <1>2, <1>3

\* The tags that start a statement and an entry.
Starters == {"20", "61"}

\* A :20: and a :61: are tags, and no floor limits.
LEMMA TagsOfEntries ==
  ASSUME NEW kind, kind \in Starters
  PROVE  kind \notin NotTags /\ kind \notin FloorLimitKinds
BY Zenon DEF NotTags, Openers, FloorLimitKinds, Starters

\* A field of a statement or an entry has that tag, and begins with that line.
LEMMA TagOfHead ==
  ASSUME NEW f, NEW kind, kind \in Starters
  PROVE  TagOf(f) = kind <=> f[1].kind = kind
<1>1. kind \notin FloorLimitKinds /\ kind # "34F"
  BY Zenon, TagsOfEntries DEF Starters
<1>2. TagOf(f) = IF f[1].kind \in FloorLimitKinds THEN "34F" ELSE f[1].kind
  BY DEF TagOf
<1> QED
  BY Zenon, <1>1, <1>2

\* The lines of the text with this kind.
LEMMA LineOfKind ==
  ASSUME NEW t, NEW kind, kind \in Starters, NEW i \in Lines(t, kind)
  PROVE  i \in DOMAIN t /\ t[i].kind = kind /\ IsTag(t[i])
BY TagsOfEntries DEF Lines, IsTag

Apart(x, i, y) == x < i /\ i < y

\* Line i stands between where fields f and h begin.
Within(i, f, h) == Apart(f[1].id, i, h[1].id)

\* Between two fields of a group is one with this tag.
TagBetween(kind, g, m, n) == \E k \in m + 1 .. n - 1 : TagOf(g[k]) = kind

NotOutside(k, m, n, x, i, y) ==
  (k < m => i < x) /\ (n < k => y < i) /\ (k = m => i = x) /\ (k = n => i = y)

\* An order of places and one of line numbers that agree.
LEMMA InBetween ==
  ASSUME NEW l \in Nat, NEW m, m \in 1 .. l, NEW n, n \in 1 .. l, NEW k, k \in 1 .. l,
         NEW x \in Int, NEW i \in Int, NEW y \in Int, Apart(x, i, y),
         NotOutside(k, m, n, x, i, y)
  PROVE  Apart(m, k, n)
BY DEF NotOutside, Apart

\* A line of the text between two fields of a group that starts a statement
\* or an entry begins a field between them.
LEMMA FieldBetween ==
  ASSUME NEW S, NEW t, t \in Seq(S), NEW g, g \in Seq(Seq(S)), GroupIn(g, t),
         NEW m, m \in 1 .. Len(g), NEW n, n \in 1 .. Len(g),
         NEW kind, kind \in Starters, NEW i, i \in Lines(t, kind), Within(i, g[m], g[n])
  PROVE  TagBetween(kind, g, m, n)
<1> DEFINE l == Len(g)
<1>1. /\ \A p, k \in 1 .. l : p < k => g[p][1].id < g[k][1].id
      /\ \A p \in 1 .. l : g[p][1].id \in 1 .. Len(t) /\ g[p][1] = t[g[p][1].id]
  BY DEF GroupIn, FieldsIn, HeadsAscend
<1>2. i \in DOMAIN t /\ t[i].kind = kind /\ IsTag(t[i])
  BY Zenon, LineOfKind
<1>3. l \in Nat /\ Len(t) \in Nat /\ i \in 1 .. Len(t)
  BY <1>2
<1> DEFINE x == g[m][1].id
           y == g[n][1].id
<1>4. x \in 1 .. Len(t) /\ y \in 1 .. Len(t) /\ x < i /\ i < y
  BY <1>1 DEF Within, Apart
<1>5. i \in g[m][1].id .. g[n][1].id
  <2>1. i \in x .. y
    <3> HIDE DEF x, y
    <3> QED BY <1>3, <1>4
  <2> QED
    BY <2>1
<1>6. PICK k \in 1 .. l : g[k][1].id = i
  BY <1>2, <1>5 DEF GroupIn, NoneMissing
<1>7. m < k /\ k < n
  <2>1. m \in 1 .. l /\ n \in 1 .. l
    OBVIOUS
  <2>2. NotOutside(k, m, n, x, i, y)
    BY <1>1, <1>6 DEF NotOutside
  <2> HIDE DEF x, y, l
  <2>3. x \in Int /\ y \in Int /\ i \in Int /\ Apart(x, i, y)
    BY <1>3, <1>4 DEF Apart
  <2>4. Apart(m, k, n)
    BY Zenon, <1>3, <2>1, <2>2, <2>3, InBetween
  <2> QED
    BY <2>4 DEF Apart
<1>8. k \in m + 1 .. n - 1
  BY <1>3, <1>7
<1>9. g[k][1].kind = kind
  BY <1>1, <1>2, <1>6
<1> QED
  BY <1>8, <1>9, TagOfHead DEF TagBetween

\* A narrative belongs to the entry before it.
LEMMA NarrativeInGroup ==
  ASSUME NEW S, NEW t, t \in Seq(S), NEW g, g \in Seq(Seq(S)), GroupIn(g, t),
         NEW line, line \in Range(ParseLinesFrom(g)), line.narrative # <<>>
  PROVE  /\ line.entry[1].id < line.narrative[1].id
         /\ ~ \E k \in Lines(t, "20") \cup Lines(t, "61") :
                line.entry[1].id < k /\ k < line.narrative[1].id
<1> DEFINE lines == ParseLinesFrom(g)
<1>1. PICK at : EntriesAt(at, lines, g, Len(g))
  BY EntriesOfGroup
<1>2. lines \in Seq(Entries(Seq(S)))
  BY EntriesOfGroup
<1>3. PICK i \in 1 .. Len(lines) : line = lines[i]
  <2>1. DOMAIN lines = 1 .. Len(lines)
    BY <1>2
  <2> QED
    BY <2>1 DEF Range
<1> HIDE DEF lines
<1>4. line.entry = g[at[i]] /\ at[i] \in 1 .. Len(g)
  BY <1>1, <1>3 DEF EntriesAt
<1>5. PICK n \in at[i] + 1 .. Len(g) :
        /\ line.narrative = g[n] /\ \A e \in at[i] + 1 .. n : TagOf(g[e]) # "61"
  BY <1>1, <1>3 DEF EntriesAt
<1> DEFINE m == at[i]
           l == Len(g)
<1>6. m \in 1 .. l /\ n \in m + 1 .. l /\ l \in Nat
  BY <1>4
<1> HIDE DEF m, l
<1>7. m < n /\ n \in 1 .. l /\ \A e \in m + 1 .. n - 1 : e \in m + 1 .. n /\ e \in 2 .. l
  BY <1>6
<1>8. g[m][1].id < g[n][1].id
  BY <1>6, <1>7 DEF GroupIn, FieldsIn, HeadsAscend, l
<1>9. ASSUME NEW kind, kind \in Starters, NEW k \in Lines(t, kind),
             g[m][1].id < k, k < g[n][1].id
      PROVE  FALSE
  <2>1. PICK e \in m + 1 .. n - 1 : TagOf(g[e]) = kind
    <3>1. Within(k, g[m], g[n]) /\ m \in 1 .. Len(g) /\ n \in 1 .. Len(g)
      BY <1>6, <1>7, <1>9 DEF Within, Apart, l
    <3>2. TagBetween(kind, g, m, n)
      BY Zenon, <1>9, <3>1, FieldBetween
    <3> QED
      BY <3>2 DEF TagBetween
  <2>2. TagOf(g[e]) # "20"
    BY <1>7 DEF GroupIn, l
  <2>3. TagOf(g[e]) # "61"
    BY <1>5, <1>7 DEF m
  <2> QED
    BY <1>9, <2>1, <2>2, <2>3 DEF Starters
<1>10. line.entry = g[m] /\ line.narrative = g[n]
  BY <1>4, <1>5 DEF m
<1>11. ASSUME NEW k \in Lines(t, "20") \cup Lines(t, "61"), g[m][1].id < k, k < g[n][1].id PROVE FALSE
  BY <1>9, <1>11 DEF Starters
<1> QED
  BY <1>8, <1>10, <1>11

\* A line is never given the narrative of another statement, nor one that
\* stands before it or after the next line.
THEOREM NarrativesAreOwn == Spec => []NarrativeOfItsLine
<1>1. TextOk => NarrativeOfItsLine
  <2> SUFFICES ASSUME TextOk, NEW st \in Range(Statements), NEW line \in Range(st.lines),
                      line.narrative # <<>>
               PROVE  /\ line.entry[1].id < line.narrative[1].id
                      /\ ~ \E k \in Lines(text, "20") \cup Lines(text, "61") :
                             line.entry[1].id < k /\ k < line.narrative[1].id
    BY DEF NarrativeOfItsLine
  <2>1. text \in Seq(TextLines) /\ Numbered(text) /\ st \in Range(ParseFile(text))
    BY DEF TextOk, Statements
  <2>2. PICK g \in Seq(Seq(TextLines)) : GroupIn(g, text) /\ st = StatementFromFields(g)
    BY <2>1, StatementOfGroup
  <2>3. line \in Range(ParseLinesFrom(g))
    BY <2>2, EntriesOfGroup
  <2> QED
    BY Zenon, <2>1, <2>2, <2>3, NarrativeInGroup
<1> QED
  BY <1>1, TextIsNumbered, PTL

\* The statement at a position, and its group.
LEMMA StatementAt ==
  ASSUME NEW S, NEW t, t \in Seq(S), Numbered(t), NEW s, s \in DOMAIN ParseFile(t)
  PROVE  /\ s \in 1 .. Len(Groups(t)) /\ ParseFile(t)[s] = StatementFromFields(Groups(t)[s])
         /\ Groups(t)[s] \in Seq(Seq(S)) /\ GroupIn(Groups(t)[s], t)
<1> DEFINE gs == Groups(t)
           X == Seq(Seq(S))
<1>1. gs \in Seq(X) /\ \A j \in 1 .. Len(gs) : GroupIn(gs[j], t)
  BY GroupsShape
<1>2. ParseFile(t) = [j \in DOMAIN gs |-> StatementFromFields(gs[j])]
  BY DEF ParseFile
<1> HIDE DEF gs, X
<1>3. DOMAIN gs = 1 .. Len(gs)
  BY <1>1
<1>4. s \in 1 .. Len(gs) /\ ParseFile(t)[s] = StatementFromFields(gs[s])
  BY <1>2, <1>3
<1>5. gs[s] \in X
  BY <1>1, <1>4
<1> QED
  BY <1>1, <1>4, <1>5 DEF gs, X

\* An entry is a field of the group.
LEMMA EntryIsField ==
  ASSUME NEW S, NEW g, g \in Seq(Seq(S)), NEW l, l \in DOMAIN ParseLinesFrom(g)
  PROVE  \E m \in 1 .. Len(g) : ParseLinesFrom(g)[l].entry = g[m] /\ TagOf(g[m]) = "61"
<1> DEFINE lines == ParseLinesFrom(g)
<1>1. lines \in Seq(Entries(Seq(S))) /\ \E at : EntriesAt(at, lines, g, Len(g))
  BY EntriesOfGroup
<1> HIDE DEF lines
<1>2. PICK at : EntriesAt(at, lines, g, Len(g))
  BY <1>1
<1>3. l \in 1 .. Len(lines)
  BY <1>1 DEF lines
<1>4. at[l] \in 1 .. Len(g) /\ lines[l].entry = g[at[l]] /\ TagOf(g[at[l]]) = "61"
  BY <1>2, <1>3 DEF EntriesAt
<1> QED
  BY <1>4 DEF lines

\* The entries of a group are in its order.
LEMMA EntriesAscend ==
  ASSUME NEW S, NEW g, g \in Seq(Seq(S)), HeadsAscend(g),
         NEW k, k \in DOMAIN ParseLinesFrom(g), NEW l, l \in DOMAIN ParseLinesFrom(g), k < l
  PROVE  ParseLinesFrom(g)[k].entry[1].id < ParseLinesFrom(g)[l].entry[1].id
<1> DEFINE lines == ParseLinesFrom(g)
<1>1. lines \in Seq(Entries(Seq(S))) /\ \E at : EntriesAt(at, lines, g, Len(g))
  BY EntriesOfGroup
<1> HIDE DEF lines
<1>2. PICK at : EntriesAt(at, lines, g, Len(g))
  BY <1>1
<1>3. k \in 1 .. Len(lines) /\ l \in 1 .. Len(lines)
  BY <1>1 DEF lines
<1>4. /\ at[l] \in 1 .. Len(g) /\ lines[l].entry = g[at[l]]
      /\ at[k] \in 1 .. Len(g) /\ lines[k].entry = g[at[k]] /\ at[k] < at[l]
  BY <1>2, <1>3 DEF EntriesAt
<1>5. g[at[k]][1].id < g[at[l]][1].id
  BY <1>4 DEF HeadsAscend
<1> QED
  BY <1>4, <1>5 DEF lines

\* The reference of a group is its first field, with no other :20: before an entry.
LEMMA EntryBehindReference ==
  ASSUME NEW S, NEW t, t \in Seq(S), NEW g, g \in Seq(Seq(S)), GroupIn(g, t),
         First(g, "20") # <<>>, NEW n, n \in 1 .. Len(g), TagOf(g[n]) = "61"
  PROVE  /\ First(g, "20")[1].id < g[n][1].id
         /\ ~ \E k \in Lines(t, "20") : First(g, "20")[1].id < k /\ k < g[n][1].id
<1>1. PICK m \in 1 .. Len(g) : First(g, "20") = g[m] /\ TagOf(g[m]) = "20"
  BY FirstField
<1>2. /\ \A p \in 2 .. Len(g) : TagOf(g[p]) # "20"
      /\ \A p, k \in 1 .. Len(g) : p < k => g[p][1].id < g[k][1].id
  BY DEF GroupIn, FieldsIn, HeadsAscend
<1>3. m = 1
  BY <1>1, <1>2
<1>4. "20" # "61" /\ "20" \in Starters
  BY DEF Starters
<1>5. 1 < n
  BY <1>1, <1>3, <1>4
<1>6. g[m][1].id < g[n][1].id
  BY <1>2, <1>3, <1>5
<1>7. ASSUME NEW k \in Lines(t, "20"), g[m][1].id < k, k < g[n][1].id PROVE FALSE
  <2>1. Within(k, g[m], g[n])
    BY <1>7 DEF Within, Apart
  <2>2. TagBetween("20", g, m, n)
    BY Zenon, <1>4, <1>7, <2>1, FieldBetween
  <2>3. PICK e \in m + 1 .. n - 1 : TagOf(g[e]) = "20"
    BY <2>2 DEF TagBetween
  <2>4. e \in 2 .. Len(g)
    BY <1>3
  <2> QED
    BY <1>2, <2>3, <2>4
<1> QED
  BY <1>1, <1>6, <1>7

\* No entry of a statement is returned twice, or under another statement: the
\* :61: lines of a file whose blocks do not nest appear at most once in the
\* statements, in the file's order, each after its statement's own :20: and
\* before the next one.
THEOREM EntriesStayInPlace == Spec => []EntriesInPlace
<1>1. TextOk => EntriesInPlace
  <2> DEFINE sts == ParseFile(text)
             gs == Groups(text)
             id(s, l) == sts[s].lines[l].entry[1].id
             ref(s) == sts[s].ref
  <2> SUFFICES ASSUME TextOk, Flat(text), NEW s \in DOMAIN sts, NEW l \in DOMAIN sts[s].lines
               PROVE  /\ \A s2 \in DOMAIN sts : \A l2 \in DOMAIN sts[s2].lines :
                           s < s2 \/ (s = s2 /\ l < l2) => id(s, l) < id(s2, l2)
                      /\ ref(s) # <<>> =>
                           /\ ref(s)[1].id < id(s, l)
                           /\ ~ \E k \in Lines(text, "20") : ref(s)[1].id < k /\ k < id(s, l)
    BY Zenon DEF EntriesInPlace, Statements
  <2>1. text \in Seq(TextLines) /\ Numbered(text)
    BY DEF TextOk
  <2>2. ASSUME NEW i \in DOMAIN sts
        PROVE  /\ i \in 1 .. Len(gs) /\ gs[i] \in Seq(Seq(TextLines)) /\ GroupIn(gs[i], text)
               /\ sts[i].lines = ParseLinesFrom(gs[i]) /\ sts[i].ref = First(gs[i], "20")
    <3>1. /\ i \in 1 .. Len(gs) /\ gs[i] \in Seq(Seq(TextLines)) /\ GroupIn(gs[i], text)
          /\ sts[i] = StatementFromFields(gs[i])
      BY <2>1, StatementAt
    <3> HIDE DEF sts, gs
    <3> QED
      BY <3>1 DEF StatementFromFields
  <2>3. GroupsInOrder(gs)
    BY <2>1, GroupsShape
  <2> HIDE DEF sts, gs
  <2>4. PICK m \in 1 .. Len(gs[s]) : sts[s].lines[l].entry = gs[s][m] /\ TagOf(gs[s][m]) = "61"
    BY <2>2, EntryIsField
  <2>5. ASSUME NEW s2 \in DOMAIN sts, NEW l2 \in DOMAIN sts[s2].lines, s < s2
        PROVE  id(s, l) < id(s2, l2)
    <3>1. /\ l2 \in DOMAIN ParseLinesFrom(gs[s2]) /\ sts[s2].lines = ParseLinesFrom(gs[s2])
          /\ gs[s2] \in Seq(Seq(TextLines))
      BY <2>2
    <3>2. PICK n \in 1 .. Len(gs[s2]) : sts[s2].lines[l2].entry = gs[s2][n]
      <4> DEFINE g == gs[s2]
      <4>1. l2 \in DOMAIN ParseLinesFrom(g) /\ sts[s2].lines = ParseLinesFrom(g) /\ g \in Seq(Seq(TextLines))
        BY <3>1
      <4> HIDE DEF g
      <4>2. \E n \in 1 .. Len(g) : ParseLinesFrom(g)[l2].entry = g[n] /\ TagOf(g[n]) = "61"
        BY ONLY <4>1, EntryIsField
      <4> QED
        BY <4>1, <4>2 DEF g
    <3>3. GroupBefore(gs[s], gs[s2])
      BY <2>2, <2>3, <2>5 DEF GroupsInOrder
    <3>4. gs[s][m][1].id < gs[s2][n][1].id
      BY <3>3 DEF GroupBefore
    <3> QED
      BY <2>4, <3>2, <3>4
  <2>6. ASSUME NEW l2 \in DOMAIN sts[s].lines, l < l2 PROVE id(s, l) < id(s, l2)
    <3>1. HeadsAscend(gs[s])
      BY <2>2 DEF GroupIn, FieldsIn
    <3> QED
      BY <2>2, <2>6, <3>1, EntriesAscend
  <2>7. ASSUME ref(s) # <<>>
        PROVE  /\ ref(s)[1].id < id(s, l)
               /\ ~ \E k \in Lines(text, "20") : ref(s)[1].id < k /\ k < id(s, l)
    <3>1. ref(s) = First(gs[s], "20") /\ id(s, l) = gs[s][m][1].id
      BY <2>2, <2>4
    <3>2. /\ First(gs[s], "20")[1].id < gs[s][m][1].id
          /\ ~ \E k \in Lines(text, "20") : First(gs[s], "20")[1].id < k /\ k < gs[s][m][1].id
      <4>1. First(gs[s], "20") # <<>>
        BY Zenon, <2>7, <3>1
      <4> QED
        BY Zenon, <2>1, <2>2, <2>4, <4>1, EntryBehindReference
    <3> QED
      BY <3>1, <3>2
  <2> QED
    BY <2>5, <2>6, <2>7
<1> QED
  BY <1>1, TextIsNumbered, PTL

\* The lines of a text are numbered from one.
LEMMA TextDomain ==
  ASSUME NEW S, NEW t, t \in Seq(S)
  PROVE  DOMAIN t = 1 .. Len(t) /\ Len(t) \in Nat
OBVIOUS

\* The groups of a text without blocks are those of its fields.
LEMMA GroupsOfBareText ==
  ASSUME NEW S, NEW t, t \in Seq(S), Numbered(t), Bare(t)
  PROVE  GroupsOf(Groups(t), t, t) /\ Groups(t) \in Seq(Seq(Seq(S)))
<1>1. SubSeq(t, 1, Len(t)) = t /\ 1 \in 1 .. Len(t) + 1 /\ Len(t) \in 1 - 1 .. Len(t)
  OBVIOUS
<1>2. IsPart(t, t)
  BY Zenon, <1>1 DEF IsPart
<1>3. Groups(t) = SplitStatements(ParseBody(t))
  BY BareGroups
<1> QED
  BY <1>2, <1>3, GroupsOfBody

\* A :61: that begins a field of a group is an entry of a statement.
LEMMA EntryOfLine ==
  ASSUME NEW S, NEW t, t \in Seq(S), Numbered(t),
         GroupsOf(Groups(t), t, t), Groups(t) \in Seq(Seq(Seq(S))),
         NEW i, i \in 1 .. Len(t), t[i].kind = "61", IsTag(t[i]), "61" \in Starters
  PROVE  \E st \in Range(ParseFile(t)) : \E line \in Range(st.lines) : line.entry[1].id = i
<1> DEFINE gs == Groups(t)
           X == Seq(Seq(S))
           F == Seq(S)
<1>1. PICK j \in 1 .. Len(gs) : \E m \in 1 .. Len(gs[j]) : gs[j][m][1] = t[i]
  BY DEF GroupsOf, HeadsIn
<1>2. PICK m \in 1 .. Len(gs[j]) : gs[j][m][1] = t[i]
  BY <1>1
<1> DEFINE g == gs[j]
           lines == ParseLinesFrom(g)
<1>3. ParseFile(t) = [k \in DOMAIN gs |-> StatementFromFields(gs[k])]
  BY DEF ParseFile
<1>4. gs \in Seq(X)
  OBVIOUS
<1> HIDE DEF gs, X
<1>5. j \in DOMAIN gs /\ g \in X
  BY <1>4
<1>6. StatementFromFields(g) \in Range(ParseFile(t)) /\ StatementFromFields(g).lines = lines
  <2>1. StatementFromFields(g).lines = lines
    BY DEF StatementFromFields
  <2>2. j \in DOMAIN ParseFile(t) /\ ParseFile(t)[j] = StatementFromFields(g)
    BY <1>3, <1>5
  <2> QED
    BY <2>1, <2>2 DEF Range
<1>7. lines \in Seq(Entries(F)) /\ \E at : EntriesAt(at, lines, g, Len(g))
  BY <1>5, EntriesOfGroup DEF X
<1> HIDE DEF F
<1>8. PICK at : EntriesAt(at, lines, g, Len(g))
  BY <1>7
<1>9. TagOf(g[m]) = "61"
  BY <1>2, TagOfHead
<1> HIDE DEF lines, g
<1>10. PICK l \in 1 .. Len(lines) : at[l] = m
  BY <1>2, <1>8, <1>9 DEF EntriesAt, g
<1>11. lines[l].entry = g[m]
  BY <1>8, <1>10 DEF EntriesAt
<1>12. lines[l] \in Range(lines)
  BY <1>7 DEF Range
<1>13. lines[l].entry[1].id = i
  BY <1>2, <1>11 DEF Numbered, g
<1> QED
  BY <1>6, <1>12, <1>13 DEF g

\* In a bare tag stream nothing is lost: every :61: is in some statement.
THEOREM BareStreamsAreComplete == Spec => []BareStreamComplete
<1>1. TextOk => BareStreamComplete
  <2> DEFINE sts == ParseFile(text)
             gs == Groups(text)
             ids(st) == {line.entry[1].id : line \in Range(st.lines)}
  <2> SUFFICES ASSUME TextOk, Lines(text, "{4:") = {}, NEW i \in Lines(text, "61")
               PROVE  i \in UNION {ids(st) : st \in Range(sts)}
    <3>1. BareStreamComplete <=> (Lines(text, "{4:") = {} =>
            \A i \in Lines(text, "61") : i \in UNION {ids(st) : st \in Range(sts)})
      BY Zenon DEF BareStreamComplete, Statements
    <3> QED
      BY Zenon, <3>1
  <2> DEFINE None0 == Lines(text, "{4:") = {}
  <2>1. text \in Seq(TextLines) /\ Numbered(text) /\ None0
    BY Zenon DEF TextOk
  <2>2. DOMAIN text = 1 .. Len(text) /\ Len(text) \in Nat
    BY Zenon, <2>1, TextDomain
  <2>3. Bare(text)
    BY Zenon, <2>1, <2>2 DEF Bare, Lines
  <2>4. GroupsOf(gs, text, text) /\ gs \in Seq(Seq(Seq(TextLines)))
    BY Zenon, <2>1, <2>3, GroupsOfBareText
  <2>5. i \in 1 .. Len(text) /\ text[i].kind = "61" /\ IsTag(text[i]) /\ "61" \in Starters
    <3>1. "61" \in Starters
      BY Zenon DEF Starters
    <3> QED
      BY Zenon, <2>2, <3>1, LineOfKind
  <2>6. \E st \in Range(sts) : \E line \in Range(st.lines) : line.entry[1].id = i
    BY Zenon, <2>1, <2>4, <2>5, EntryOfLine
  <2>7. PICK st \in Range(sts) : \E line \in Range(st.lines) : line.entry[1].id = i
    BY Zenon, <2>6
  <2>8. i \in ids(st)
    BY Zenon, <2>7
  <2> HIDE DEF ids
  <2> QED
    BY Zenon, <2>8
<1> QED
  BY <1>1, TextIsNumbered, PTL

\* After the first k fields of g, w is written: line j of field m is line o[m - 1] + j of w.
WrittenUpTo(o, w, g, k) ==
  /\ Len(w) = o[k]
  /\ \A m \in 1 .. k : \A j \in 1 .. Len(g[m]) :
       o[m - 1] + j \in 1 .. o[k] /\ w[o[m - 1] + j] = g[m][j]
  /\ \A i \in 1 .. o[k] : \E m \in 1 .. k : \E j \in 1 .. Len(g[m]) : i = o[m - 1] + j

\* Where the fields of g stand in what is written of them.
Offsets(o, g) ==
  /\ o \in [0 .. Len(g) -> Nat] /\ o[0] = 0
  /\ \A m \in 1 .. Len(g) : o[m] = o[m - 1] + Len(g[m])

\* One more field, f, is written.
LEMMA FieldWritten ==
  ASSUME NEW S, NEW w, w \in Seq(S), NEW f, f \in Seq(S), NEW g, NEW k, k \in Nat \ {0}, g[k] = f,
         NEW o, WrittenUpTo(o, w, g, k - 1), o[k] = o[k - 1] + Len(f), o[k - 1] \in Nat
  PROVE  WrittenUpTo(o, w \o f, g, k)
<1> DEFINE v == w \o f
           a == o[k - 1]
           b == o[k]
           l == Len(f)
<1>1. /\ Len(w) = a
      /\ \A m \in 1 .. k - 1 : \A j \in 1 .. Len(g[m]) :
           o[m - 1] + j \in 1 .. a /\ w[o[m - 1] + j] = g[m][j]
      /\ \A i \in 1 .. a : \E m \in 1 .. k - 1 : \E j \in 1 .. Len(g[m]) : i = o[m - 1] + j
  BY DEF WrittenUpTo
<1>2. /\ Len(v) = Len(w) + l /\ l \in Nat
      /\ \A i \in 1 .. Len(w) : v[i] = w[i]
      /\ \A i \in Len(w) + 1 .. Len(w) + l : v[i] = f[i - Len(w)]
  BY Concat
<1>3. a \in Nat /\ b = a + l /\ Len(w) = a
  BY <1>1
<1> HIDE DEF v, a, b, l
<1>4. \A m \in 1 .. k : m \in 1 .. k - 1 \/ m = k
  OBVIOUS
<1>5. ASSUME NEW m \in 1 .. k, NEW j \in 1 .. Len(g[m])
      PROVE  o[m - 1] + j \in 1 .. b /\ v[o[m - 1] + j] = g[m][j]
  <2>1. CASE m \in 1 .. k - 1
    <3>1. o[m - 1] + j \in 1 .. a /\ w[o[m - 1] + j] = g[m][j]
      BY <1>1, <2>1
    <3> DEFINE p == o[m - 1] + j
    <3>2. p \in 1 .. a /\ w[p] = g[m][j]
      BY <3>1
    <3> HIDE DEF p
    <3>3. p \in 1 .. b /\ v[p] = w[p]
      BY <1>2, <1>3, <3>2
    <3> QED
      BY <3>2, <3>3 DEF p
  <2>2. CASE m = k
    <3>1. j \in 1 .. l
      BY <2>2 DEF l
    <3>2. a + j \in 1 .. b /\ a + j \in a + 1 .. a + l /\ (a + j) - a = j
      BY <1>2, <1>3, <3>1
    <3>3. v[a + j] = f[j]
      BY <1>2, <1>3, <3>2
    <3> QED
      BY <2>2, <3>2, <3>3 DEF a
  <2> QED
    BY <1>4, <2>1, <2>2
<1>6. ASSUME NEW i \in 1 .. b PROVE \E m \in 1 .. k : \E j \in 1 .. Len(g[m]) : i = o[m - 1] + j
  <2>1. CASE i \in 1 .. a
    <3>1. PICK m \in 1 .. k - 1 : \E j \in 1 .. Len(g[m]) : i = o[m - 1] + j
      BY <1>1, <2>1
    <3>2. m \in 1 .. k
      OBVIOUS
    <3> QED
      BY <3>1, <3>2
  <2>2. CASE i \notin 1 .. a
    <3>1. i - a \in 1 .. l /\ i = a + (i - a) /\ k \in 1 .. k
      BY <1>2, <1>3, <2>2
    <3> QED
      BY <3>1 DEF a, l
  <2> QED
    BY <2>1, <2>2
<1>7. Len(v) = b
  BY <1>2, <1>3
<1> QED
  BY <1>5, <1>6, <1>7 DEF WrittenUpTo, v, b

\* What serialize_fields writes.
LEMMA WriteShape ==
  ASSUME NEW S, NEW g, g \in Seq(Seq(S))
  PROVE  /\ SerializeFields(g) \in Seq(S)
         /\ \E o : Offsets(o, g) /\ WrittenUpTo(o, SerializeFields(g), g, Len(g))
<1> DEFINE n == Len(g)
<1>1. PICK p : WriteRuns(p, S, g) /\ SerializeFields(g) = p[n]
  BY WriteRecursion
<1>2. /\ p \in [0 .. n -> Seq(S)] /\ p[0] = <<>> /\ n \in Nat
      /\ \A k \in 1 .. n : p[k] = p[k - 1] \o g[k]
  <2>1. n \in Nat
    OBVIOUS
  <2> QED
    BY ONLY Zenon, <1>1, <2>1 DEF WriteRuns, n
<1>3. \A k \in 1 .. n : g[k] \in Seq(S)
  OBVIOUS
<1> DEFINE o == [k \in 0 .. n |-> Len(p[k])]
<1> HIDE DEF n
<1>4. \A k \in 1 .. n : k \in 0 .. n /\ k - 1 \in 0 .. n /\ k \in Nat \ {0}
  BY <1>2
<1>5. o \in [0 .. n -> Nat] /\ \A k \in 0 .. n : o[k] = Len(p[k])
  BY <1>2
<1>6. o[0] = 0
  BY <1>2, <1>5
<1> HIDE DEF o
<1>7. ASSUME NEW k \in 1 .. n PROVE o[k] = o[k - 1] + Len(g[k])
  <2>1. p[k] = p[k - 1] \o g[k] /\ p[k - 1] \in Seq(S) /\ g[k] \in Seq(S)
    BY <1>2, <1>3, <1>4
  <2>2. Len(p[k]) = Len(p[k - 1]) + Len(g[k])
    BY <2>1, Concat
  <2> QED
    BY <1>4, <1>5, <2>2
<1> DEFINE T == {k \in 0 .. n : WrittenUpTo(o, p[k], g, k)}
<1>8. 0 \in T
  <2>1. 0 \in 0 .. n /\ Len(p[0]) = 0 /\ (1 .. 0) = {}
    BY <1>2
  <2>2. WrittenUpTo(o, p[0], g, 0)
    BY <1>6, <2>1 DEF WrittenUpTo
  <2> QED
    BY <2>1, <2>2
<1>9. ASSUME NEW k \in 1 .. n, k - 1 \in T PROVE k \in T
  <2> DEFINE w == p[k - 1]
             f == g[k]
  <2>1. w \in Seq(S) /\ f \in Seq(S) /\ p[k] = w \o f /\ o[k - 1] \in Nat
    BY <1>2, <1>3, <1>4, <1>5
  <2>2. WrittenUpTo(o, w, g, k - 1) /\ o[k] = o[k - 1] + Len(f) /\ k \in Nat \ {0}
    BY <1>4, <1>7, <1>9
  <2> HIDE DEF w
  <2>3. WrittenUpTo(o, w \o f, g, k)
    BY <2>1, <2>2, FieldWritten
  <2> QED
    BY <1>4, <2>1, <2>3
<1> HIDE DEF T
<1>10. n \in T
  <2>1. 0 .. n \subseteq T
    BY <1>2, <1>8, <1>9, PrefixInduction
  <2> QED
    BY <1>2, <2>1
<1>11. SerializeFields(g) \in Seq(S) /\ WrittenUpTo(o, SerializeFields(g), g, n)
  BY <1>1, <1>2, <1>10 DEF T
<1>12. Offsets(o, g)
  BY <1>5, <1>6, <1>7 DEF Offsets, n
<1> QED
  BY <1>11, <1>12 DEF n

\* r with l at the end of its last element is s.
IsFolded(r, l, s) == r # <<>> /\ [r EXCEPT ![Len(r)] = Append(@, l)] = s

\* A line folded into the last of several fields.
LEMMA FoldedLast ==
  ASSUME NEW S, NEW q, q \in Seq(Seq(S)), NEW x, x \in Seq(S), NEW l, l \in S
  PROVE  IsFolded(Append(q, x), l, Append(q, Append(x, l)))
<1> DEFINE X == Seq(S)
           y == Append(x, l)
           r == Append(q, x)
           u == [r EXCEPT ![Len(r)] = y]
           v == Append(q, y)
<1>1. q \in Seq(X) /\ x \in X /\ y \in X
  OBVIOUS
<1> HIDE DEF X, y
<1>2. /\ r \in Seq(X) /\ Len(r) = Len(q) + 1 /\ r[Len(q) + 1] = x /\ Len(q) \in Nat /\ r # <<>>
      /\ \A i \in 1 .. Len(q) : r[i] = q[i]
  BY ONLY <1>1, Longer
<1>3. /\ v \in Seq(X) /\ Len(v) = Len(q) + 1 /\ v[Len(q) + 1] = y
      /\ \A i \in 1 .. Len(q) : v[i] = q[i]
  BY ONLY <1>1, Longer
<1>4. \A i \in 1 .. Len(q) : r[i] = q[i] /\ v[i] = q[i]
  BY <1>2, <1>3
<1> HIDE DEF v, r
<1>5. LastChanged(u, r, X, y)
  BY ONLY Zenon, <1>1, <1>2, ChangedLast
<1>6. /\ u \in Seq(X) /\ Len(u) = Len(r) /\ u[Len(r)] = y
      /\ \A i \in 1 .. Len(r) - 1 : u[i] = r[i]
  BY ONLY Zenon, <1>5 DEF LastChanged
<1> HIDE DEF u
<1>7. u = v
  <2>1. Len(u) = Len(v)
    BY <1>2, <1>3, <1>6
  <2>2. ASSUME NEW i \in 1 .. Len(v) PROVE u[i] = v[i]
    <3>1. i \in 1 .. Len(q) \/ i = Len(q) + 1
      BY <1>2, <1>3
    <3>2. CASE i \in 1 .. Len(q)
      BY <1>2, <1>4, <1>6, <3>2
    <3>3. CASE i = Len(q) + 1
      BY <1>2, <1>3, <1>6, <3>3
    <3> QED
      BY <3>1, <3>2, <3>3
  <2> QED
    BY <1>3, <1>6, <2>1, <2>2
<1>8. [r EXCEPT ![Len(r)] = Append(@, l)] = u
  BY <1>2 DEF u, y
<1> QED
  BY <1>2, <1>7, <1>8 DEF r, v, y, IsFolded

\* A statement's fields are split into one statement.
LEMMA SplitBack ==
  ASSUME NEW F, NEW g, g \in Seq(F), g # <<>>, \A m \in 2 .. Len(g) : TagOf(g[m]) # "20"
  PROVE  SplitStatements(g) = <<g>>
<1> DEFINE n == Len(g)
<1>1. PICK p : SplitRuns(p, F, g) /\ SplitStatements(g) = p[n]
  BY SplitRecursion
<1>2. /\ p[0] = <<>> /\ n \in Nat \ {0}
      /\ \A k \in 1 .. n : p[k] = TakeField(p[k - 1], g[k])
  BY <1>1 DEF SplitRuns
<1> DEFINE T == {k \in 0 .. n : k # 0 => p[k] = Append(<<>>, SubSeq(g, 1, k))}
<1>3. 0 \in T
  BY <1>2
<1>4. ASSUME NEW k \in 1 .. n, k - 1 \in T PROVE k \in T
  <2> DEFINE x == SubSeq(g, 1, k - 1)
             y == SubSeq(g, 1, k)
             f == g[k]
  <2>1. f \in F /\ p[k] = TakeField(p[k - 1], f)
    BY <1>2
  <2>2. y = Append(x, f) /\ x \in Seq(F)
    <3>1. 1 \in 1 .. k /\ 1 \in 1 .. n + 1 /\ k - 1 \in 1 - 1 .. n
      BY <1>2
    <3>2. y = Append(x, f)
      BY <3>1, PartLonger
    <3>3. x \in Seq(F)
      BY <3>1, PartShape
    <3> QED
      BY <3>2, <3>3
  <2>3. k = 1 => x = <<>>
    OBVIOUS
  <2> HIDE DEF x, y, f
  <2>4. CASE k = 1
    <3>1. p[k] = TakeField(<<>>, f)
      BY <1>2, <2>1, <2>4
    <3>2. TakeField(<<>>, f) = Append(<<>>, <<f>>)
      BY DEF TakeField
    <3>3. y = <<f>>
      BY <2>2, <2>3, <2>4
    <3>4. p[k] = Append(<<>>, y)
      BY <3>1, <3>2, <3>3
    <3> QED
      BY <3>4 DEF y
  <2>5. CASE k # 1
    <3>1. TagOf(f) # "20"
      <4>1. k \in 2 .. n
        BY <2>5
      <4> QED
        BY <4>1 DEF f
    <3>2. p[k - 1] = Append(<<>>, x)
      BY <1>4, <2>5 DEF x
    <3> DEFINE q == Append(<<>>, x)
    <3>3. [q EXCEPT ![Len(q)] = Append(@, f)] = Append(<<>>, Append(x, f)) /\ q # <<>>
      <4>1. <<>> \in Seq(Seq(F))
        OBVIOUS
      <4> QED
        BY <2>1, <2>2, <4>1, FoldedLast DEF IsFolded
    <3> HIDE DEF q
    <3>4. TakeField(q, f) = [q EXCEPT ![Len(q)] = Append(@, f)]
      BY <3>1, <3>3 DEF TakeField
    <3>5. p[k] = Append(<<>>, y)
      BY <2>1, <2>2, <3>2, <3>3, <3>4 DEF q
    <3> QED
      BY <3>5 DEF y
  <2> QED
    BY <2>4, <2>5
<1>5. n \in T
  <2> HIDE DEF n, T
  <2>1. 0 .. n \subseteq T
    BY <1>2, <1>3, <1>4, PrefixInduction
  <2> QED
    BY <1>2, <2>1
<1>6. p[n] = Append(<<>>, SubSeq(g, 1, n))
  BY <1>2, <1>5
<1>7. SubSeq(g, 1, n) = g
  OBVIOUS
<1>8. Append(<<>>, g) = <<g>>
  OBVIOUS
<1> QED
  BY <1>1, <1>6, <1>7, <1>8

\* What parse_body has after line k of what was written of g: the fields before
\* the one that the line belongs to, and the lines of that one as far as it.
ReadUpTo(q, o, g, k) ==
  \A m \in 1 .. Len(g) : \A j \in 1 .. Len(g[m]) :
    k = o[m - 1] + j => q = Append(SubSeq(g, 1, m - 1), SubSeq(g[m], 1, j))

\* The first line of a field.
LEMMA HeadRead ==
  ASSUME NEW S, NEW g, g \in Seq(Seq(S)), AreFields(g), NEW m, m \in 1 .. Len(g),
         NEW q, q = SubSeq(g, 1, m - 1)
  PROVE  TakeLine(q, g[m][1]) = Append(SubSeq(g, 1, m - 1), SubSeq(g[m], 1, 1))
<1>1. g[m] \in Seq(S) /\ g[m] # <<>> /\ IsTag(g[m][1])
  BY DEF AreFields, IsField
<1>2. SubSeq(g[m], 1, 1) = <<g[m][1]>>
  <2> DEFINE f == g[m]
  <2>1. f \in Seq(S) /\ f # <<>>
    BY <1>1
  <2> HIDE DEF f
  <2>2. SubSeq(f, 1, 1) = <<f[1]>>
    <3>1. 1 \in 1 .. Len(f) /\ 1 \in 1 .. 1
      BY <2>1
    <3>2. SubSeq(f, 1, 1) = Append(SubSeq(f, 1, 1 - 1), f[1])
      BY <2>1, <3>1, PartLonger
    <3>3. SubSeq(f, 1, 1 - 1) = <<>>
      BY <2>1
    <3> DEFINE e == f[1]
    <3> HIDE DEF e
    <3>4. Append(<<>>, e) = <<e>>
      OBVIOUS
    <3> QED
      BY ONLY <3>2, <3>3, <3>4 DEF e
  <2> QED
    BY <2>2 DEF f
<1>3. TakeLine(q, g[m][1]) = Append(q, <<g[m][1]>>)
  BY <1>1 DEF TakeLine
<1> QED
  BY <1>2, <1>3

\* A further line of a field.
LEMMA FoldRead ==
  ASSUME NEW S, NEW g, g \in Seq(Seq(S)), AreFields(g), NEW m, m \in 1 .. Len(g),
         NEW j, j \in 2 .. Len(g[m]),
         NEW q, q = Append(SubSeq(g, 1, m - 1), SubSeq(g[m], 1, j - 1))
  PROVE  TakeLine(q, g[m][j]) = Append(SubSeq(g, 1, m - 1), SubSeq(g[m], 1, j))
<1> DEFINE f == g[m]
           l == g[m][j]
           a == SubSeq(g, 1, m - 1)
           x == SubSeq(f, 1, j - 1)
           X == Seq(S)
<1>1. f \in Seq(S) /\ ~IsTag(l) /\ l.kind # "-"
  <2>1. IsField(g[m]) /\ g[m] \in Seq(S)
    BY DEF AreFields
  <2> QED
    BY <2>1 DEF IsField
<1>2. a \in Seq(Seq(S))
  <2>1. g \in Seq(X) /\ 1 \in 1 .. Len(g) + 1 /\ m - 1 \in 1 - 1 .. Len(g)
    OBVIOUS
  <2> HIDE DEF X
  <2>2. a \in Seq(X)
    BY <2>1, PartShape
  <2> QED
    BY <2>2 DEF X
<1>3. j \in 1 .. Len(f) /\ 1 \in 1 .. j /\ 1 \in 1 .. Len(f) + 1 /\ j - 1 \in 1 - 1 .. Len(f) /\ l \in S
  BY <1>1
<1>4. SubSeq(f, 1, j) = Append(x, l)
  <2> HIDE DEF f
  <2>1. SubSeq(f, 1, j) = Append(SubSeq(f, 1, j - 1), f[j])
    BY <1>1, <1>3, PartLonger
  <2> QED
    BY <2>1 DEF f
<1>5. x \in Seq(S)
  <2> HIDE DEF f
  <2> QED
    BY <1>1, <1>3, PartShape
<1> HIDE DEF a, x, l, f
<1>6. IsFolded(Append(a, x), l, Append(a, Append(x, l)))
  BY Zenon, <1>2, <1>3, <1>5, FoldedLast
<1>7. q = Append(a, x)
  BY DEF a, x, f
<1>8. TakeLine(q, l) = [q EXCEPT ![Len(q)] = Append(@, l)]
  <2>1. q # <<>>
    BY <1>6, <1>7 DEF IsFolded
  <2> QED
    BY <1>1, <2>1 DEF TakeLine
<1>9. TakeLine(q, l) = Append(a, Append(x, l))
  BY <1>6, <1>7, <1>8 DEF IsFolded
<1> QED
  BY <1>4, <1>9 DEF a, l, f

\* r holds the fields of g as far as line j of field m.
HoldsUpTo(r, g, m, j) == r = Append(SubSeq(g, 1, m - 1), SubSeq(g[m], 1, j))

\* Line k of what is written, once the lines before it are read.
NextLine(q, l, o, g, k, m, j) ==
  /\ k \in Nat \ {0} /\ (k = 1 => q = <<>>) /\ ReadUpTo(q, o, g, k - 1)
  /\ m \in 1 .. Len(g) /\ j \in 1 .. Len(g[m]) /\ k = o[m - 1] + j /\ l = g[m][j]

\* The next line.
LEMMA LineRead ==
  ASSUME NEW S, NEW g, g \in Seq(Seq(S)), AreFields(g), NEW o, Offsets(o, g),
         NEW q, NEW line, NEW k, NEW m, NEW j, NextLine(q, line, o, g, k, m, j)
  PROVE  HoldsUpTo(TakeLine(q, line), g, m, j)
<1>1. /\ k \in Nat \ {0} /\ (k = 1 => q = <<>>) /\ ReadUpTo(q, o, g, k - 1)
      /\ m \in 1 .. Len(g) /\ j \in 1 .. Len(g[m]) /\ k = o[m - 1] + j /\ line = g[m][j]
  BY Zenon DEF NextLine
<1> USE <1>1
<1> SUFFICES TakeLine(q, g[m][j]) = Append(SubSeq(g, 1, m - 1), SubSeq(g[m], 1, j))
  BY <1>1 DEF HoldsUpTo
<1>2. /\ o[0] = 0 /\ \A p \in 1 .. Len(g) : o[p] = o[p - 1] + Len(g[p])
      /\ \A p \in 0 .. Len(g) : o[p] \in Nat
  BY DEF Offsets
<1>3. \A p \in 1 .. Len(g) : Len(g[p]) \in Nat \ {0}
  <2> TAKE p \in 1 .. Len(g)
  <2>1. g[p] \in Seq(S) /\ g[p] # <<>>
    BY DEF AreFields, IsField
  <2> QED
    BY <2>1
<1>4. m - 1 \in 0 .. Len(g) /\ o[m - 1] \in Nat /\ Len(g) \in Nat
  BY <1>2
<1>5. CASE j = 1
  <2>1. q = SubSeq(g, 1, m - 1)
    <3>1. CASE m = 1
      <4>1. k = 1
        BY <1>2, <1>5, <3>1
      <4>2. SubSeq(g, 1, m - 1) = <<>>
        BY <3>1
      <4> QED
        BY <4>1, <4>2
    <3>2. CASE m # 1
      <4> DEFINE p == m - 1
                 i == Len(g[p])
      <4>1. p \in 1 .. Len(g) /\ p - 1 \in 0 .. Len(g)
        BY <3>2
      <4>2. i \in Nat \ {0} /\ o[p] = o[p - 1] + i /\ o[p - 1] \in Nat
        BY <1>2, <1>3, <4>1
      <4>3. i \in 1 .. i /\ k - 1 = o[p - 1] + i
        <5> DEFINE a == o[p - 1]
        <5>1. k = o[p] + 1
          BY <1>5
        <5>2. i \in Nat \ {0} /\ k = (a + i) + 1 /\ a \in Nat
          BY <4>2, <5>1
        <5> HIDE DEF p, i, a
        <5>3. i \in 1 .. i /\ k - 1 = a + i
          BY ONLY <5>2
        <5> QED
          BY <5>3 DEF a
      <4> HIDE DEF p
      <4>4. q = Append(SubSeq(g, 1, p - 1), SubSeq(g[p], 1, i))
        BY <4>1, <4>3 DEF ReadUpTo
      <4>5. g[p] \in Seq(S) /\ SubSeq(g[p], 1, i) = g[p]
        <5> DEFINE f == g[p]
        <5>1. f \in Seq(S)
          BY <4>1
        <5> HIDE DEF f
        <5>2. SubSeq(f, 1, Len(f)) = f
          BY <5>1
        <5> QED
          BY <5>1, <5>2 DEF f
      <4>6. SubSeq(g, 1, p) = Append(SubSeq(g, 1, p - 1), g[p])
        <5> DEFINE X == Seq(S)
        <5>1. g \in Seq(X) /\ 1 \in 1 .. p
          BY <4>1
        <5> HIDE DEF X
        <5> QED
          BY <4>1, <5>1, PartLonger
      <4>7. q = SubSeq(g, 1, p)
        BY <4>4, <4>5, <4>6
      <4> QED
        BY <4>7 DEF p
    <3> QED
      BY <3>1, <3>2
  <2> QED
    BY <1>5, <2>1, HeadRead
<1>6. CASE j # 1
  <2>1. j \in 2 .. Len(g[m]) /\ j - 1 \in 1 .. Len(g[m]) /\ k - 1 = o[m - 1] + (j - 1)
    <3> DEFINE a == o[m - 1]
               l == Len(g[m])
    <3>1. a \in Nat /\ l \in Nat \ {0} /\ j \in 1 .. l /\ k = a + j
      BY <1>3, <1>4
    <3> HIDE DEF a, l
    <3>2. j \in 2 .. l /\ j - 1 \in 1 .. l /\ k - 1 = a + (j - 1)
      BY <1>6, <3>1
    <3> QED
      BY <3>2 DEF a, l
  <2>2. q = Append(SubSeq(g, 1, m - 1), SubSeq(g[m], 1, j - 1))
    BY <2>1 DEF ReadUpTo
  <2> QED
    BY <2>1, <2>2, FoldRead, ZenonT(60)
<1> QED
  BY <1>5, <1>6

\* The fields of a statement survive being written and read again.
LEMMA ParseBack ==
  ASSUME NEW S, NEW g, g \in Seq(Seq(S)), g # <<>>, AreFields(g)
  PROVE  SerializeFields(g) \in Seq(S) /\ ParseBody(SerializeFields(g)) = g
<1> DEFINE n == Len(g)
           w == SerializeFields(g)
           l == Len(w)
<1>1. w \in Seq(S) /\ \E o : Offsets(o, g) /\ WrittenUpTo(o, w, g, n)
  BY WriteShape
<1> HIDE DEF w
<1>2. PICK o : Offsets(o, g) /\ WrittenUpTo(o, w, g, n)
  BY <1>1
<1>3. PICK p : ParseRuns(p, S, w) /\ ParseBody(w) = p[l]
  BY <1>1, ParseRecursion
<1>4. /\ p[0] = <<>> /\ l \in Nat /\ n \in Nat \ {0}
      /\ \A k \in 1 .. l : p[k] = TakeLine(p[k - 1], w[k])
  BY <1>1, <1>3 DEF ParseRuns
<1>5. /\ o \in [0 .. n -> Nat] /\ \A m \in 1 .. n : o[m] = o[m - 1] + Len(g[m])
  BY <1>2 DEF Offsets
<1>6. /\ l = o[n]
      /\ \A m \in 1 .. n : \A j \in 1 .. Len(g[m]) : w[o[m - 1] + j] = g[m][j]
  BY <1>2 DEF WrittenUpTo
<1> HIDE DEF n, l
<1> DEFINE T == {k \in 0 .. l : ReadUpTo(p[k], o, g, k)}
<1>7. 0 \in T
  <2>1. ASSUME NEW m \in 1 .. n, NEW j \in 1 .. Len(g[m]), 0 = o[m - 1] + j PROVE FALSE
    <3> DEFINE a == o[m - 1]
    <3>1. m - 1 \in 0 .. n
      BY <1>4
    <3>2. a \in Nat /\ 0 = a + j /\ j \in 1 .. Len(g[m])
      BY <1>5, <2>1, <3>1
    <3> HIDE DEF a
    <3> QED
      BY <3>2
  <2>2. ReadUpTo(p[0], o, g, 0)
    BY <2>1 DEF ReadUpTo, n
  <2> QED
    BY <1>4, <2>2
<1>8. ASSUME NEW k \in 1 .. l, k - 1 \in T PROVE k \in T
  <2> DEFINE q == p[k - 1]
  <2>1. k \in Nat \ {0} /\ (k = 1 => q = <<>>) /\ ReadUpTo(q, o, g, k - 1) /\ k \in 0 .. l
    BY <1>4, <1>8
  <2>2. p[k] = TakeLine(q, w[k])
    BY <1>4
  <2> HIDE DEF q
  <2>3. ASSUME NEW m \in 1 .. n, NEW j \in 1 .. Len(g[m]), k = o[m - 1] + j
        PROVE  p[k] = Append(SubSeq(g, 1, m - 1), SubSeq(g[m], 1, j))
    <3>1. w[k] = g[m][j]
      BY <1>6, <2>3
    <3>2. NextLine(q, w[k], o, g, k, m, j)
      BY <2>1, <2>3, <3>1 DEF NextLine, n
    <3>3. HoldsUpTo(TakeLine(q, w[k]), g, m, j)
      BY Zenon, <1>2, <3>2, LineRead
    <3> QED
      BY <2>2, <3>3 DEF HoldsUpTo
  <2>4. ReadUpTo(p[k], o, g, k)
    BY <2>3 DEF ReadUpTo, n
  <2> QED
    BY <2>1, <2>4
<1> HIDE DEF T
<1>9. l \in T
  <2>1. 0 .. l \subseteq T
    BY <1>4, <1>7, <1>8, PrefixInduction
  <2> QED
    BY <1>4, <2>1
<1>10. ReadUpTo(p[l], o, g, l)
  BY <1>9 DEF T
<1> DEFINE f == g[n]
           a == SubSeq(g, 1, n - 1)
<1>11. f \in Seq(S) /\ f # <<>> /\ n \in 1 .. n
  <2>1. n \in 1 .. n
    BY <1>4
  <2>2. f \in Seq(S) /\ IsField(f)
    BY <2>1 DEF AreFields, n
  <2> QED
    BY <2>1, <2>2 DEF IsField
<1>12. Len(f) \in 1 .. Len(f) /\ l = o[n - 1] + Len(f)
  <2>1. Len(f) \in 1 .. Len(f)
    <3> HIDE DEF f
    <3> QED BY <1>11
  <2> QED
    BY <1>5, <1>6, <1>11, <2>1
<1>13. p[l] = Append(a, SubSeq(f, 1, Len(f)))
  BY <1>10, <1>11, <1>12 DEF ReadUpTo, n
<1>14. SubSeq(f, 1, Len(f)) = f
  <2> HIDE DEF f
  <2> QED BY <1>11
<1>15. SubSeq(g, 1, n) = Append(a, f)
  <2> DEFINE X == Seq(S)
  <2>1. g \in Seq(X) /\ n \in 1 .. Len(g) /\ 1 \in 1 .. n
    BY <1>4, <1>11 DEF n
  <2> HIDE DEF X
  <2> QED
    BY <2>1, PartLonger
<1>16. SubSeq(g, 1, n) = g
  BY DEF n
<1>17. ParseBody(w) = g
  BY <1>3, <1>13, <1>14, <1>15, <1>16
<1> QED
  BY <1>1, <1>17 DEF w

\* A statement's text without a block opening in it is one statement: the same.
LEMMA ReadBack ==
  ASSUME NEW S, NEW t, NEW g, g \in Seq(Seq(S)), GroupIn(g, t), Bare(SerializeFields(g))
  PROVE  /\ ParseLines(SerializeFields(g)) = ParseLinesFrom(g)
         /\ Groups(SerializeFields(g)) = <<g>>
<1> DEFINE w == SerializeFields(g)
<1>1. g # <<>> /\ AreFields(g) /\ \A m \in 2 .. Len(g) : TagOf(g[m]) # "20"
  BY DEF GroupIn, FieldsIn
<1>2. w \in Seq(S) /\ ParseBody(w) = g /\ Bare(w)
  BY <1>1, ParseBack
<1> HIDE DEF w
<1>3. Block(w) = <<>> /\ Groups(w) = SplitStatements(ParseBody(w))
  BY <1>2, NoBlocks, BareGroups
<1>4. SplitStatements(g) = <<g>>
  <2> DEFINE F == Seq(S)
  <2>1. g \in Seq(F)
    OBVIOUS
  <2> HIDE DEF F
  <2> QED
    BY <1>1, <2>1, SplitBack
<1> QED
  BY <1>2, <1>3, <1>4 DEF ParseLines, w

\* Bare, as the properties say it.
LEMMA BareText ==
  ASSUME NEW w, DOMAIN w = 1 .. Len(w), ~(\E i \in DOMAIN w : w[i].kind = "{4:")
  PROVE  Bare(w)
BY Zenon DEF Bare

\* st is what its own text is read as.
StatementAgain(st) ==
  /\ ParseLines(st.raw) = st.lines
  /\ Len(ParseLines(st.raw)) = st.count
  /\ ParseFile(st.raw) = <<st>>

\* The text of the statement of a group is read as that statement.
LEMMA StatementReadAgain ==
  ASSUME NEW S, NEW t, NEW g, g \in Seq(Seq(S)), GroupIn(g, t),
         NEW st, st = StatementFromFields(g), Bare(st.raw)
  PROVE  StatementAgain(st)
<1>1. /\ st.raw = SerializeFields(g) /\ st.lines = ParseLinesFrom(g)
      /\ st.count = Len(ParseLinesFrom(g))
  BY DEF StatementFromFields
<1>2. ParseLines(st.raw) = st.lines /\ Groups(st.raw) = <<g>>
  BY <1>1, ReadBack
<1>3. ParseFile(st.raw) = <<st>>
  <2> DEFINE gs == <<g>>
  <2>1. DOMAIN gs = {1} /\ gs[1] = g
    OBVIOUS
  <2>2. ParseFile(st.raw) = [j \in DOMAIN gs |-> StatementFromFields(gs[j])]
    BY <1>2 DEF ParseFile
  <2> HIDE DEF gs
  <2>3. ParseFile(st.raw) = [j \in {1} |-> st]
    BY <2>1, <2>2
  <2>4. <<st>> = [j \in {1} |-> st]
    OBVIOUS
  <2> QED
    BY <2>3, <2>4
<1> QED
  BY <1>1, <1>2, <1>3 DEF StatementAgain

\* A block opens in w.
OpensBlock(w) == \E i \in DOMAIN w : w[i].kind = "{4:"

\* Every statement of the text is read again, if no block opens in it.
LEMMA StatementOfText ==
  ASSUME TextOk, NEW st, st \in Range(ParseFile(text))
  PROVE  OpensBlock(st.raw) \/ StatementAgain(st)
<1>1. text \in Seq(TextLines) /\ Numbered(text)
  BY DEF TextOk
<1>2. PICK g \in Seq(Seq(TextLines)) : GroupIn(g, text) /\ st = StatementFromFields(g)
  BY <1>1, StatementOfGroup
<1>3. st.raw = SerializeFields(g)
  BY <1>2 DEF StatementFromFields
<1>4. st.raw \in Seq(TextLines)
  BY <1>3, WriteShape
<1>5. ~OpensBlock(st.raw) => Bare(st.raw)
  BY Zenon, <1>4, TextDomain, BareText DEF OpensBlock
<1>6. Bare(st.raw) => StatementAgain(st)
  BY <1>2, StatementReadAgain
<1> QED
  BY Zenon, <1>5, <1>6

\* What mt940_read returns as a statement's own text is read again as the same
\* statement, with the lines that were counted and the narratives they had.
THEOREM StatementsRoundTrip == Spec => []RawRoundTrips
<1>1. TextOk => RawRoundTrips
  <2> SUFFICES ASSUME TextOk, NEW st \in Range(ParseFile(text)), ~OpensBlock(st.raw)
               PROVE  /\ ParseLines(st.raw) = st.lines
                      /\ Len(ParseLines(st.raw)) = st.count
                      /\ ParseFile(st.raw) = <<st>>
    BY Zenon DEF RawRoundTrips, Statements, OpensBlock
  <2>1. StatementAgain(st)
    BY Zenon, StatementOfText
  <2> QED
    BY Zenon, <2>1 DEF StatementAgain
<1> QED
  BY <1>1, TextIsNumbered, PTL

\* A report of a file is made of a group of its fields.
LEMMA ReportOfGroup ==
  ASSUME NEW S, NEW t, t \in Seq(S), Numbered(t), NEW r, r \in Range(ParseReports(t))
  PROVE  \E g \in Seq(Seq(S)) : GroupIn(g, t) /\ r = ReportFromFields(g)
<1> DEFINE gs == Groups(t)
           X == Seq(Seq(S))
<1>1. gs \in Seq(X) /\ \A j \in 1 .. Len(gs) : GroupIn(gs[j], t)
  BY GroupsShape
<1>2. ParseReports(t) = [j \in DOMAIN gs |-> ReportFromFields(gs[j])]
  BY DEF ParseReports
<1> HIDE DEF gs, X
<1>3. DOMAIN gs = 1 .. Len(gs)
  BY <1>1
<1>4. PICK j \in DOMAIN ParseReports(t) : r = ParseReports(t)[j]
  BY DEF Range
<1>5. j \in 1 .. Len(gs) /\ r = ReportFromFields(gs[j])
  BY <1>2, <1>3, <1>4
<1>6. gs[j] \in X
  BY <1>1, <1>5
<1> QED
  BY <1>1, <1>5, <1>6 DEF X

\* r is what its own text is read as.
ReportAgain(r) == ParseReports(r.raw) = <<r>> /\ ReportLines(r) = r.lines

\* The text of the report of a group is read as that report.
LEMMA ReportReadAgain ==
  ASSUME NEW S, NEW t, NEW g, g \in Seq(Seq(S)), GroupIn(g, t),
         NEW r, r = ReportFromFields(g), Bare(r.raw)
  PROVE  ReportAgain(r)
<1>1. r.raw = SerializeFields(g) /\ r.lines = ParseLinesFrom(g)
  BY DEF ReportFromFields
<1>2. ParseLines(r.raw) = r.lines /\ Groups(r.raw) = <<g>>
  BY <1>1, ReadBack
<1>3. ParseReports(r.raw) = <<r>>
  <2> DEFINE gs == <<g>>
  <2>1. DOMAIN gs = {1} /\ gs[1] = g
    OBVIOUS
  <2>2. ParseReports(r.raw) = [j \in DOMAIN gs |-> ReportFromFields(gs[j])]
    BY <1>2 DEF ParseReports
  <2> HIDE DEF gs
  <2>3. ParseReports(r.raw) = [j \in {1} |-> r]
    BY <2>1, <2>2
  <2>4. <<r>> = [j \in {1} |-> r]
    OBVIOUS
  <2> QED
    BY <2>3, <2>4
<1> QED
  BY <1>2, <1>3 DEF ReportAgain, ReportLines

\* Every report of the text is read again, if no block opens in it.
LEMMA ReportOfText ==
  ASSUME TextOk, NEW r, r \in Range(ParseReports(text))
  PROVE  OpensBlock(r.raw) \/ ReportAgain(r)
<1>1. text \in Seq(TextLines) /\ Numbered(text)
  BY DEF TextOk
<1>2. PICK g \in Seq(Seq(TextLines)) : GroupIn(g, text) /\ r = ReportFromFields(g)
  BY <1>1, ReportOfGroup
<1>3. r.raw = SerializeFields(g)
  BY <1>2 DEF ReportFromFields
<1>4. r.raw \in Seq(TextLines)
  BY <1>3, WriteShape
<1>5. ~OpensBlock(r.raw) => Bare(r.raw)
  BY Zenon, <1>4, TextDomain, BareText DEF OpensBlock
<1>6. Bare(r.raw) => ReportAgain(r)
  BY <1>2, ReportReadAgain
<1> QED
  BY Zenon, <1>5, <1>6

\* What mt942_read returns as a report's own text is read again as the same
\* report, with its limits, currency, summaries and lines.
THEOREM ReportsAreReadAgain == Spec => []ReportsRoundTrip
<1>1. TextOk => ReportsRoundTrip
  <2> SUFFICES ASSUME TextOk, NEW r \in Range(ParseReports(text)), ~OpensBlock(r.raw)
               PROVE  ParseReports(r.raw) = <<r>> /\ ReportLines(r) = r.lines
    BY Zenon DEF ReportsRoundTrip, Reports, OpensBlock
  <2>1. ReportAgain(r)
    BY Zenon, ReportOfText
  <2> QED
    BY Zenon, <2>1 DEF ReportAgain
<1> QED
  BY <1>1, TextIsNumbered, PTL

\* The limits of a report when the amounts of F occur.
LimitsOver(F) == [Sides -> F \cup {<<>>}]

\* What a turn of floor_limits makes is limits again.
LEMMA LimitsSet ==
  ASSUME NEW F, NEW q \in LimitsOver(F), NEW f \in F
  PROVE  SetLimits(q, f) \in LimitsOver(F)
<1>1. Amount(f) \in F \cup {<<>>}
  BY DEF Amount
<1> QED
  BY <1>1 DEF SetLimits, LimitsOver

\* g is what floor_limits has after each field.
LimitRuns(g, F, fields) ==
  /\ g \in [0 .. Len(fields) -> LimitsOver(F)] /\ g[0] = [side \in Sides |-> <<>>]
  /\ \A k \in 1 .. Len(fields) : g[k] = SetLimits(g[k - 1], fields[k])

\* FloorLimits passes through it.
LEMMA LimitRecursion ==
  ASSUME NEW F, NEW fields \in Seq(F)
  PROVE  \E g : LimitRuns(g, F, fields) /\ FloorLimits(fields) = g[Len(fields)]
<1> DEFINE n == Len(fields)
           T == LimitsOver(F)
           b == [side \in Sides |-> <<>>]
           step(k, q) == SetLimits(q, fields[k])
           st == [k \in 1 .. n |-> [q \in T |-> step(k, q)]]
           Up(f) == f = [k \in 0 .. n |-> IF k = 0 THEN b ELSE step(k, f[k - 1])]
           h == CHOOSE f : Up(f)
<1>1. n \in Nat /\ b \in T /\ \A k \in 1 .. n : \A q \in T : step(k, q) \in T
  <2>1. n \in Nat /\ b \in T
    BY DEF LimitsOver
  <2>2. ASSUME NEW k \in 1 .. n, NEW q \in T PROVE step(k, q) \in T
    <3>1. fields[k] \in F
      OBVIOUS
    <3> QED
      BY <3>1, LimitsSet
  <2> QED
    BY <2>1, <2>2
<1>2. FloorLimits(fields) = h[n]
  BY DEF FloorLimits
<1> HIDE DEF n, T, step, b
<1>3. st \in [1 .. n -> [T -> T]] /\ \A k \in 1 .. n : \A q \in T : st[k][q] = step(k, q)
  BY <1>1
<1> HIDE DEF st
<1>4. PICK g : Runs(g, n, T, b, st)
  BY <1>1, <1>3, Recursion
<1>5. g \in [0 .. n -> T] /\ \A k \in 0 .. n : g[k] = IF k = 0 THEN b ELSE step(k, g[k - 1])
  BY <1>1, <1>3, <1>4 DEF Runs
<1>6. Up(g)
  BY <1>5
<1>7. Up(h)
  BY <1>6
<1> HIDE DEF h
<1>8. \A k \in 0 .. n : h[k] = IF k = 0 THEN b ELSE step(k, h[k - 1])
  BY <1>7
<1>9. h[0] = b /\ \A k \in 1 .. n : h[k] = step(k, h[k - 1])
  <2>1. 0 \in 0 .. n /\ \A k \in 1 .. n : k \in 0 .. n /\ k # 0
    BY <1>1
  <2> QED
    BY <1>8, <2>1
<1>10. h \in [0 .. n -> T]
  <2> DEFINE A == {k \in 0 .. n : h[k] \in T}
  <2>1. 0 \in A /\ \A k \in 1 .. n : k - 1 \in A => k \in A
    BY <1>1, <1>9
  <2> HIDE DEF A
  <2>2. 0 .. n \subseteq A
    BY <1>1, <2>1, PrefixInduction
  <2> QED
    BY <1>7, <2>2 DEF A
<1> QED
  BY <1>2, <1>9, <1>10 DEF n, T, step, b, LimitRuns

\* Field f is a limit for the side.
IsLimit(f, side) == side \in LimitedBy(Head(f).kind)

\* What is set for a side after the first k fields is the amount of one of them
\* that is a limit for it, or nothing when none is.
LimitUpTo(limit, g, side, k) ==
  \/ limit = <<>> /\ \A m \in 1 .. k : ~IsLimit(g[m], side)
  \/ \E m \in 1 .. k : IsLimit(g[m], side) /\ limit = Amount(g[m])

\* What the loop over the limits sets for a side.
LEMMA LimitShape ==
  ASSUME NEW F, NEW g \in Seq(F), NEW side \in Sides
  PROVE  LimitUpTo(FloorLimits(g)[side], g, side, Len(g))
<1> DEFINE n == Len(g)
<1>1. PICK p : LimitRuns(p, F, g) /\ FloorLimits(g) = p[n]
  BY LimitRecursion
<1>2. /\ n \in Nat /\ p[0] = [s \in Sides |-> <<>>]
      /\ \A k \in 1 .. n : p[k] = SetLimits(p[k - 1], g[k])
  BY <1>1 DEF LimitRuns
<1> HIDE DEF n
<1> DEFINE T == {k \in 0 .. n : LimitUpTo(p[k][side], g, side, k)}
<1>3. 0 \in T
  <2>1. 0 \in 0 .. n /\ p[0][side] = <<>> /\ (1 .. 0) = {}
    BY <1>2
  <2>2. LimitUpTo(p[0][side], g, side, 0)
    BY <2>1 DEF LimitUpTo
  <2> QED
    BY <2>1, <2>2
<1>4. ASSUME NEW k \in 1 .. n, k - 1 \in T PROVE k \in T
  <2>1. k \in Nat \ {0} /\ k \in 0 .. n /\ LimitUpTo(p[k - 1][side], g, side, k - 1)
    BY <1>2, <1>4
  <2> DEFINE a == p[k - 1][side]
  <2>2. p[k][side] = IF IsLimit(g[k], side) THEN Amount(g[k]) ELSE a
    <3> DEFINE b == p[k - 1]
               f == g[k]
    <3>1. p[k] = SetLimits(b, f)
      BY Zenon, <1>2
    <3> HIDE DEF b, f
    <3>2. SetLimits(b, f)[side] = IF IsLimit(f, side) THEN Amount(f) ELSE b[side]
      BY DEF SetLimits, IsLimit
    <3> QED
      BY <3>1, <3>2 DEF b, f
  <2>3. \A m \in 1 .. k : m \in 1 .. k - 1 \/ m = k
    BY <2>1
  <2>4. \A m \in 1 .. k - 1 : m \in 1 .. k
    BY <2>1
  <2> HIDE DEF a
  <2>5. LimitUpTo(a, g, side, k - 1)
    BY <2>1 DEF a
  <2>6. k \in 1 .. k
    BY <2>1
  <2>7. CASE IsLimit(g[k], side)
    BY <2>2, <2>6, <2>7 DEF LimitUpTo
  <2>8. CASE ~IsLimit(g[k], side)
    BY <2>2, <2>3, <2>4, <2>5, <2>8 DEF LimitUpTo
  <2>9. LimitUpTo(p[k][side], g, side, k)
    BY <2>7, <2>8
  <2> QED
    BY <2>1, <2>9
<1> HIDE DEF T
<1>5. n \in T
  <2>1. 0 .. n \subseteq T
    BY <1>2, <1>3, <1>4, PrefixInduction
  <2> QED
    BY <1>2, <2>1
<1> QED
  BY <1>1, <1>5 DEF T, n

\* A limit's line has a tag.
LEMMA LimitLine ==
  ASSUME NEW l, NEW side, side \in LimitedBy(l.kind)
  PROVE  IsTag(l)
<1>1. l.kind \in FloorLimitKinds
  BY DEF LimitedBy, FloorLimitKinds
<1> QED
  BY Zenon, <1>1 DEF FloorLimitKinds, IsTag, NotTags, Openers

\* The amount a that line i of w gives: the line, or nothing if one is folded into it.
GivesAmount(w, i, a) ==
  (a # <<>> \/ i = Len(w) \/ IsTag(w[i + 1])) => a = <<w[i]>>

\* Where a field that is a limit begins in the text written of its report, and
\* that its amount is that line, or nothing.
LEMMA LimitWritten ==
  ASSUME NEW S, NEW g, g \in Seq(Seq(S)), AreFields(g), NEW w, w \in Seq(S),
         NEW o, Offsets(o, g), WrittenUpTo(o, w, g, Len(g)),
         NEW side, NEW m \in 1 .. Len(g), IsLimit(g[m], side)
  PROVE  \E i \in 1 .. Len(w) : side \in LimitedBy(w[i].kind) /\ GivesAmount(w, i, Amount(g[m]))
<1> DEFINE n == Len(g)
           f == g[m]
           l == Len(f)
           a == o[m - 1]
           i == a + 1
<1>1. f \in Seq(S) /\ f # <<>> /\ \A j \in 2 .. l : ~IsTag(f[j])
  BY DEF AreFields, IsField
<1>2. l \in Nat \ {0} /\ f[1] = Head(f) /\ (l = 1 => f = <<f[1]>>)
  <2> HIDE DEF f
  <2> QED
    BY <1>1
<1>3. a \in Nat /\ n \in Nat
  <2>1. m - 1 \in 0 .. Len(g) /\ n \in Nat
    OBVIOUS
  <2> QED
    BY <2>1 DEF Offsets
<1>4. \A j \in 1 .. l : a + j \in 1 .. Len(w) /\ w[a + j] = f[j]
  BY DEF WrittenUpTo
<1>5. IsLimit(f, side) /\ Amount(f) = IF l = 1 THEN f ELSE <<>>
  BY DEF Amount
<1> HIDE DEF f, l, a
<1>6. i \in 1 .. Len(w) /\ w[i] = f[1]
  <2>1. 1 \in 1 .. l
    BY <1>2
  <2> QED
    BY <1>4, <2>1
<1>7. side \in LimitedBy(w[i].kind)
  BY <1>2, <1>5, <1>6 DEF IsLimit
<1>8. Amount(f) # <<>> => Amount(f) = <<w[i]>>
  BY <1>2, <1>5, <1>6
<1>9. ASSUME i = Len(w) \/ IsTag(w[i + 1]) PROVE Amount(f) = <<w[i]>>
  <2>1. ASSUME l # 1 PROVE FALSE
    <3>1. 2 \in 1 .. l /\ 2 \in 2 .. l
      BY <1>2, <2>1
    <3>2. a + 2 \in 1 .. Len(w) /\ w[a + 2] = f[2] /\ ~IsTag(f[2])
      BY <1>1, <1>4, <3>1
    <3>3. i + 1 = a + 2 /\ i # Len(w)
      BY <1>3, <3>2
    <3> QED
      BY <1>9, <3>2, <3>3
  <2> QED
    BY <1>2, <1>5, <1>6, <2>1
<1> QED
  BY <1>6, <1>7, <1>8, <1>9 DEF f, GivesAmount

\* Every limit in the written text is the line of a field that is one.
LEMMA LimitIsHead ==
  ASSUME NEW S, NEW g, g \in Seq(Seq(S)), AreFields(g), NEW w, w \in Seq(S),
         NEW o, Offsets(o, g), WrittenUpTo(o, w, g, Len(g)),
         NEW side, NEW i \in 1 .. Len(w), side \in LimitedBy(w[i].kind)
  PROVE  \E m \in 1 .. Len(g) : IsLimit(g[m], side)
<1>1. PICK m \in 1 .. Len(g) : \E j \in 1 .. Len(g[m]) : i = o[m - 1] + j
  BY DEF WrittenUpTo
<1>2. PICK j \in 1 .. Len(g[m]) : i = o[m - 1] + j
  BY <1>1
<1>3. w[i] = g[m][j]
  BY <1>2 DEF WrittenUpTo
<1>4. IsTag(g[m][j])
  BY <1>3, LimitLine
<1>5. g[m] \in Seq(S) /\ \A k \in 2 .. Len(g[m]) : ~IsTag(g[m][k])
  BY DEF AreFields, IsField
<1> DEFINE f == g[m]
<1> HIDE DEF f
<1>6. j = 1 /\ f \in Seq(S) /\ j \in 1 .. Len(f) /\ w[i] = f[j]
  BY <1>2, <1>3, <1>4, <1>5 DEF f
<1>7. Head(f) = w[i]
  BY <1>6
<1> QED
  BY <1>7 DEF f, IsLimit

\* The limit of a side is the only line of its report that gives one.
LimitIsOwn(limit, w, side) ==
  LET given == {i \in DOMAIN w : side \in LimitedBy(w[i].kind)}
  IN /\ limit # <<>> => \E i \in given : limit = <<w[i]>>
     /\ \A i \in given : given = {i} /\ (i = Len(w) \/ IsTag(w[i + 1])) => limit = <<w[i]>>

\* The limits of the report of a group are in the text of that report.
LEMMA LimitOfReport ==
  ASSUME NEW S, NEW t, NEW g, g \in Seq(Seq(S)), GroupIn(g, t), NEW side \in Sides,
         NEW r, r = ReportFromFields(g)
  PROVE  LimitIsOwn(r.limits[side], r.raw, side)
<1> DEFINE w == r.raw
           limit == r.limits[side]
<1>1. w = SerializeFields(g) /\ r.limits = FloorLimits(g)
  BY DEF ReportFromFields
<1>2. AreFields(g)
  BY DEF GroupIn, FieldsIn
<1>3. w \in Seq(S) /\ \E o : Offsets(o, g) /\ WrittenUpTo(o, w, g, Len(g))
  BY <1>1, WriteShape
<1>4. LimitUpTo(limit, g, side, Len(g))
  <2> DEFINE F == Seq(S)
  <2>1. g \in Seq(F)
    OBVIOUS
  <2> HIDE DEF F
  <2> QED
    BY <1>1, <2>1, LimitShape
<1> HIDE DEF w, limit
<1>5. PICK o : Offsets(o, g) /\ WrittenUpTo(o, w, g, Len(g))
  BY <1>3
<1> DEFINE given == {i \in DOMAIN w : side \in LimitedBy(w[i].kind)}
<1>6. DOMAIN w = 1 .. Len(w)
  BY <1>3
<1>7. ASSUME NEW m \in 1 .. Len(g), IsLimit(g[m], side)
      PROVE  \E i \in given : GivesAmount(w, i, Amount(g[m]))
  BY <1>2, <1>3, <1>5, <1>6, <1>7, LimitWritten
<1>8. ASSUME NEW i \in given PROVE \E m \in 1 .. Len(g) : IsLimit(g[m], side)
  BY <1>2, <1>3, <1>5, <1>6, <1>8, LimitIsHead
<1> HIDE DEF given
<1>9. limit # <<>> => \E i \in given : limit = <<w[i]>>
  <2>1. CASE \E m \in 1 .. Len(g) : IsLimit(g[m], side) /\ limit = Amount(g[m])
    BY <1>7, <2>1 DEF GivesAmount
  <2> QED
    BY <1>4, <2>1 DEF LimitUpTo
<1>10. ASSUME NEW i \in given, given = {i}, i = Len(w) \/ IsTag(w[i + 1])
       PROVE  limit = <<w[i]>>
  <2>1. PICK m \in 1 .. Len(g) : IsLimit(g[m], side) /\ limit = Amount(g[m])
    BY <1>4, <1>8 DEF LimitUpTo
  <2>2. PICK k \in given : GivesAmount(w, k, Amount(g[m]))
    BY <1>7, <2>1
  <2>3. k = i
    BY <1>10
  <2> QED
    BY <1>10, <2>1, <2>2, <2>3 DEF GivesAmount
<1> QED
  BY <1>9, <1>10 DEF LimitIsOwn, given, w, limit

\* A floor limit of a report is one that its own text gives for that side, and
\* one given once, with nothing folded into it, is returned.
THEOREM LimitsAreOwn == Spec => []LimitsOfItsReport
<1>1. TextOk => LimitsOfItsReport
  <2> SUFFICES ASSUME TextOk, NEW r \in Range(ParseReports(text)), NEW side \in Sides
               PROVE  LimitIsOwn(r.limits[side], r.raw, side)
    BY Zenon DEF LimitsOfItsReport, Reports, LimitIsOwn
  <2>1. text \in Seq(TextLines) /\ Numbered(text)
    BY DEF TextOk
  <2>2. PICK g \in Seq(Seq(TextLines)) : GroupIn(g, text) /\ r = ReportFromFields(g)
    BY <2>1, ReportOfGroup
  <2> QED
    BY <2>2, LimitOfReport
<1> QED
  BY <1>1, TextIsNumbered, PTL
=============================================================================
