---------------------------- MODULE XmlDomProofs ----------------------------
(***************************************************************************)
(* The tree that dom::parse returns is that of the first element closed at *)
(* the top, for documents of any length and depth.  While its loop runs,   *)
(* the stack holds what the elements open now have gathered, and the run   *)
(* the character data after the last markup (StateOf); both are read off   *)
(* the events, and so stay what they are when an event more is read        *)
(* (the lemmas Same...).                                                   *)
(***************************************************************************)
EXTENDS XmlDom, SequenceLemmas

\* What the reader can deliver, and documents in which no more is closed than
\* is open.
Event ==
  [kind : {"End", "Entity", "UnknownEntity", "Other"}]
    \cup [kind : {"Start", "Empty"}, name : Names]
    \cup [kind : {"Text", "CData"}, text : Seq(Chars)]

Nested(d) == \A p \in 1 .. Len(d) + 1 : Level(d, p) \in Nat

\* c is the document d with one event more.
OneMore(c, d) ==
  /\ d \in Seq(Event) /\ c \in Seq(Event)
  /\ Len(c) = Len(d) + 1 /\ \A i \in 1 .. Len(d) : c[i] = d[i]

\* The events of a kind before event p, and how many more there are before the next.
Earlier(d, kind, p) == {k \in 1 .. p - 1 : d[k].kind = kind}

LEMMA CountStep ==
  ASSUME NEW d, NEW kind, NEW p \in Nat \ {0}
  PROVE  /\ Cardinality(Earlier(d, kind, p)) \in Nat
         /\ Cardinality(Earlier(d, kind, p + 1))
              = Cardinality(Earlier(d, kind, p)) + (IF d[p].kind = kind THEN 1 ELSE 0)
<1> DEFINE B == Earlier(d, kind, p)
<1>1. IsFiniteSet(B)
  <2>1. IsFiniteSet(1 .. p - 1) /\ B \subseteq 1 .. p - 1
    BY FS_Interval DEF Earlier
  <2> QED
    BY <2>1, FS_Subset
<1>2. Cardinality(B) \in Nat
  BY <1>1, FS_CardinalityType
<1>3. CASE d[p].kind = kind
  <2>1. Earlier(d, kind, p + 1) = B \cup {p} /\ p \notin B
    BY <1>3 DEF Earlier
  <2> HIDE DEF B
  <2>2. Cardinality(B \cup {p}) = Cardinality(B) + 1
    BY <1>1, <2>1, FS_AddElement
  <2> QED
    BY <1>2, <1>3, <2>1, <2>2 DEF B
<1>4. CASE d[p].kind # kind
  <2>1. Earlier(d, kind, p + 1) = B
    BY <1>4 DEF Earlier
  <2> QED
    BY <1>2, <1>4, <2>1
<1> QED
  BY <1>3, <1>4

\* The level changes by what the event is.
LEMMA LevelStep ==
  ASSUME NEW d, NEW p \in Nat \ {0}
  PROVE  /\ Level(d, p) \in Int
         /\ Level(d, p + 1) = Level(d, p) + (IF d[p].kind = "Start" THEN 1
                                             ELSE IF d[p].kind = "End" THEN -1 ELSE 0)
<1>1. /\ Level(d, p) = Cardinality(Earlier(d, "Start", p)) - Cardinality(Earlier(d, "End", p))
      /\ Level(d, p + 1) = Cardinality(Earlier(d, "Start", p + 1))
                           - Cardinality(Earlier(d, "End", p + 1))
  BY DEF Level, Earlier
<1> QED
  BY <1>1, CountStep

LEMMA FirstLevel == ASSUME NEW d PROVE Level(d, 1) = 0
<1>1. \A kind : {k \in 1 .. 1 - 1 : d[k].kind = kind} = {}
  OBVIOUS
<1>2. Cardinality({}) = 0
  BY FS_EmptySet
<1> QED
  BY <1>1, <1>2 DEF Level

\* One event more leaves what is read off the events before it.
LEMMA SameLevel ==
  ASSUME NEW c, NEW d, OneMore(c, d), NEW p \in 1 .. Len(d) + 1
  PROVE  Level(c, p) = Level(d, p)
<1>1. \A k \in 1 .. p - 1 : c[k] = d[k]
  BY DEF OneMore
<1>2. \A kind : {k \in 1 .. p - 1 : c[k].kind = kind} = {k \in 1 .. p - 1 : d[k].kind = kind}
  BY <1>1
<1> QED
  BY <1>2 DEF Level

LEMMA SameRun ==
  ASSUME NEW c, NEW d, OneMore(c, d), NEW p \in 1 .. Len(d) + 1
  PROVE  /\ Run(c, p) = Run(d, p) /\ RunText(c, p) = RunText(d, p)
         /\ (\E n \in Run(c, p) : c[n].kind = "UnknownEntity")
              <=> (\E n \in Run(d, p) : d[n].kind = "UnknownEntity")
<1>1. \A k \in 1 .. p - 1 : c[k] = d[k]
  BY DEF OneMore
<1>2. \A k \in 1 .. p - 1 : IsData(c, k) <=> IsData(d, k)
  BY <1>1 DEF IsData
<1>3. Run(c, p) = Run(d, p)
  <2>1. ASSUME NEW n \in 1 .. p - 1
        PROVE  (\A m \in n .. p - 1 : IsData(c, m)) <=> (\A m \in n .. p - 1 : IsData(d, m))
    BY <1>2
  <2> QED
    BY <2>1 DEF Run
<1>4. \A k \in 1 .. p - 1 : Characters(c, k) = Characters(d, k)
  BY <1>1 DEF Characters
<1>5. [n \in 1 .. p - 1 |-> IF n \in Run(c, p) THEN Characters(c, n) ELSE <<>>]
      = [n \in 1 .. p - 1 |-> IF n \in Run(d, p) THEN Characters(d, n) ELSE <<>>]
  BY <1>3, <1>4
<1>6. RunText(c, p) = RunText(d, p)
  BY <1>5, Zenon DEF RunText
<1>7. Run(d, p) \subseteq 1 .. p - 1
  BY DEF Run
<1> QED
  BY <1>1, <1>3, <1>6, <1>7

LEMMA SameTextAt ==
  ASSUME NEW c, NEW d, OneMore(c, d), NEW p \in 1 .. Len(d)
  PROVE  TextAt(c, p) = TextAt(d, p)
<1>1. p \in 1 .. Len(d) + 1 /\ c[p] = d[p]
  BY DEF OneMore
<1>2. /\ RunText(c, p) = RunText(d, p)
      /\ (\E n \in Run(c, p) : c[n].kind = "UnknownEntity")
              <=> (\E n \in Run(d, p) : d[n].kind = "UnknownEntity")
  BY <1>1, SameRun
<1>3. IsData(c, p) <=> IsData(d, p)
  BY <1>1 DEF IsData
<1> HIDE DEF IsData
<1> QED
  BY <1>1, <1>2, <1>3, Zenon DEF TextAt

LEMMA SameOpen ==
  ASSUME NEW c, NEW d, OneMore(c, d), NEW p \in 1 .. Len(d) + 1, NEW k
  PROVE  OpenAt(c, p, k) = OpenAt(d, p, k)
<1>1. \A b \in 1 .. p - 1 : b \in 1 .. Len(d) + 1 /\ c[b] = d[b]
  BY DEF OneMore
<1>2. \A b \in 1 .. p - 1 : Level(c, b) = Level(d, b)
  BY <1>1, SameLevel
<1>3. {b \in 1 .. p - 1 : c[b].kind = "Start" /\ Level(c, b) = k - 1}
      = {b \in 1 .. p - 1 : d[b].kind = "Start" /\ Level(d, b) = k - 1}
  BY <1>1, <1>2
<1> QED
  BY <1>3, Zenon DEF OpenAt

LEMMA SameBegin ==
  ASSUME NEW c, NEW d, OneMore(c, d), NEW e \in 1 .. Len(d)
  PROVE  BeginOf(c, e) = BeginOf(d, e)
<1>1. e \in 1 .. Len(d) + 1 /\ c[e] = d[e]
  BY DEF OneMore
<1> QED
  BY <1>1, SameOpen, SameLevel DEF BeginOf

LEMMA GreatestIs ==
  ASSUME NEW S \in SUBSET Int, NEW m \in S, \A y \in S : m >= y
  PROVE  Max(S) = m
<1>1. Max(S) \in S /\ \A y \in S : Max(S) >= y
  BY Zenon DEF Max
<1>2. Max(S) >= m /\ m >= Max(S) /\ Max(S) \in Int /\ m \in Int
  BY <1>1
<1> QED
  BY <1>2

LEMMA LeastIs ==
  ASSUME NEW S \in SUBSET Int, NEW m \in S, \A y \in S : m <= y
  PROVE  Min(S) = m
<1>1. Min(S) \in S /\ \A y \in S : Min(S) <= y
  BY Zenon DEF Min
<1>2. Min(S) <= m /\ m <= Min(S) /\ Min(S) \in Int /\ m \in Int
  BY <1>1
<1> QED
  BY <1>2

\* The k-th open element begins where it is said to, and has been open since.
IsOpen(d, p, k, b) ==
  /\ b \in 1 .. p - 1 /\ d[b].kind = "Start" /\ Level(d, b) = k - 1
  /\ \A q \in b + 1 .. p : Level(d, q) >= k

LEMMA OpenExists ==
  ASSUME NEW d, NEW p \in Nat \ {0}, NEW k \in Nat \ {0}, k <= Level(d, p)
  PROVE  \E b : IsOpen(d, p, k, b)
<1> DEFINE A == {n \in 0 .. p - 1 : k <= Level(d, n + 1) => \E b : IsOpen(d, n + 1, k, b)}
<1>1. 0 \in A
  BY FirstLevel
<1>2. ASSUME NEW n \in 1 .. p - 1, n - 1 \in A PROVE n \in A
  <2> SUFFICES ASSUME k <= Level(d, n + 1) PROVE \E b : IsOpen(d, n + 1, k, b)
    OBVIOUS
  <2>1. /\ n \in Nat \ {0} /\ (n - 1) + 1 = n /\ Level(d, n) \in Int
        /\ Level(d, n + 1) \in Int
        /\ Level(d, n + 1) = Level(d, n) + (IF d[n].kind = "Start" THEN 1
                                            ELSE IF d[n].kind = "End" THEN -1 ELSE 0)
    BY LevelStep
  <2>2. CASE k <= Level(d, n)
    <3>1. PICK b : IsOpen(d, n, k, b)
      BY <1>2, <2>1, <2>2
    <3>2. \A q \in b + 1 .. n + 1 : q \in b + 1 .. n \/ q = n + 1
      BY <3>1, <2>1 DEF IsOpen
    <3>3. b \in 1 .. (n + 1) - 1
      BY <3>1, <2>1 DEF IsOpen
    <3> QED
      BY <3>1, <3>2, <3>3 DEF IsOpen
  <2>3. CASE ~(k <= Level(d, n))
    <3>1. d[n].kind = "Start" /\ Level(d, n) = k - 1
      BY <2>1, <2>3
    <3>2. n \in 1 .. (n + 1) - 1 /\ \A q \in n + 1 .. n + 1 : q = n + 1
      BY <2>1
    <3> QED
      BY <2>1, <3>1, <3>2 DEF IsOpen
  <2> QED
    BY <2>2, <2>3
<1> HIDE DEF A
<1>3. p - 1 \in A
  <2>1. 0 .. p - 1 \subseteq A
    BY <1>1, <1>2, PrefixInduction
  <2> QED
    BY <2>1
<1>4. (p - 1) + 1 = p
  OBVIOUS
<1> QED
  BY <1>3, <1>4 DEF A

LEMMA OpenFound ==
  ASSUME NEW d, NEW p \in Nat \ {0}, NEW k \in Nat \ {0}, NEW b, IsOpen(d, p, k, b)
  PROVE  OpenAt(d, p, k) = b
<1> DEFINE S == {x \in 1 .. p - 1 : d[x].kind = "Start" /\ Level(d, x) = k - 1}
<1>1. S \in SUBSET Int /\ b \in S
  BY DEF IsOpen
<1>2. \A y \in S : b >= y
  <2> SUFFICES ASSUME NEW y \in S, y > b PROVE FALSE
    BY <1>1
  <2>1. y \in b + 1 .. p /\ Level(d, y) = k - 1
    BY <1>1
  <2> QED
    BY <2>1 DEF IsOpen
<1> HIDE DEF S
<1>3. Max(S) = b
  BY <1>1, <1>2, GreatestIs
<1> QED
  BY <1>3 DEF OpenAt, S

LEMMA OpenIsOpen ==
  ASSUME NEW d, NEW p \in Nat \ {0}, NEW k \in Nat \ {0}, k <= Level(d, p)
  PROVE  IsOpen(d, p, k, OpenAt(d, p, k))
BY OpenExists, OpenFound

\* What closes an element closes one that has begun.
LEMMA BeginBefore ==
  ASSUME NEW d \in Seq(Event), Nested(d), NEW e \in 1 .. Len(d), Closes(d, e)
  PROVE  /\ BeginOf(d, e) \in 1 .. e
         /\ d[e].kind = "End" => IsOpen(d, e, Level(d, e), BeginOf(d, e)) /\ Level(d, e) \in Nat \ {0}
         /\ d[e].kind = "Empty" => BeginOf(d, e) = e
<1>1. e \in Nat \ {0} /\ e \in 1 .. Len(d) + 1 /\ e + 1 \in 1 .. Len(d) + 1
  OBVIOUS
<1>2. CASE d[e].kind = "Empty"
  BY <1>1, <1>2 DEF BeginOf
<1>3. CASE d[e].kind = "End"
  <2>1. Level(d, e) \in Nat /\ Level(d, e + 1) \in Nat /\ Level(d, e + 1) = Level(d, e) - 1
    BY <1>1, <1>3, LevelStep DEF Nested
  <2>2. Level(d, e) \in Nat \ {0} /\ Level(d, e) <= Level(d, e)
    BY <2>1
  <2>3. IsOpen(d, e, Level(d, e), OpenAt(d, e, Level(d, e)))
    BY <1>1, <2>2, OpenIsOpen
  <2>4. OpenAt(d, e, Level(d, e)) \in 1 .. e
    BY <1>1, <2>3 DEF IsOpen
  <2> QED
    BY <1>3, <2>2, <2>3, <2>4 DEF BeginOf
<1> QED
  BY <1>2, <1>3 DEF Closes

\* Texts are made of characters.
LEMMA TrimShape ==
  ASSUME NEW S, NEW t \in Seq(S)
  PROVE  Trim(t) \in Seq(S)
<1> DEFINE solid == {i \in DOMAIN t : ~Blank(t[i])}
<1>1. CASE solid = {}
  BY <1>1 DEF Trim
<1>2. CASE solid # {}
  <2>1. Len(t) \in Nat /\ solid \in SUBSET (0 .. Len(t)) /\ solid \subseteq 1 .. Len(t)
    OBVIOUS
  <2>2. Min(solid) \in 1 .. Len(t) /\ Max(solid) \in 1 .. Len(t)
    <3> HIDE DEF solid
    <3> QED
      BY <1>2, <2>1, LeastOf, GreatestOf
  <2>3. Trim(t) = SubSeq(t, Min(solid), Max(solid))
    BY <1>2, Zenon DEF Trim
  <2> HIDE DEF solid
  <2> QED
    BY <2>2, <2>3
<1> QED
  BY <1>1, <1>2

LEMMA RunTextShape ==
  ASSUME NEW d \in Seq(Event), NEW p \in 1 .. Len(d) + 1
  PROVE  /\ RunText(d, p) \in Seq(Chars)
         /\ \A n \in 1 .. Len(d) : IsData(d, n) => Characters(d, n) \in Seq(Chars)
<1>1. "x" \in Chars
  BY Zenon DEF Chars
<1>2. ASSUME NEW n \in 1 .. Len(d), IsData(d, n) PROVE Characters(d, n) \in Seq(Chars)
  <2>1. d[n] \in Event
    OBVIOUS
  <2> HIDE DEF Chars
  <2>2. CASE d[n].kind = "Text"
    <3>1. d[n].text \in Seq(Chars)
      BY <2>1, <2>2 DEF Event
    <3> QED
      BY <2>2, <3>1 DEF Characters
  <2>3. CASE d[n].kind # "Text"
    <3>1. <<"x">> \in Seq(Chars)
      BY <1>1
    <3> QED
      BY <2>3, <3>1 DEF Characters
  <2> QED
    BY <2>2, <2>3
<1> DEFINE f == [n \in 1 .. p - 1 |-> IF n \in Run(d, p) THEN Characters(d, n) ELSE <<>>]
<1>3. \A n \in 1 .. p - 1 : f[n] \in Seq(Chars)
  <2> SUFFICES ASSUME NEW n \in 1 .. p - 1 PROVE f[n] \in Seq(Chars)
    OBVIOUS
  <2>1. n \in 1 .. Len(d) /\ (n \in Run(d, p) => IsData(d, n))
    BY DEF Run
  <2>2. <<>> \in Seq(Chars)
    OBVIOUS
  <2> QED
    BY <1>2, <2>1, <2>2
<1>4. RunText(d, p) = Joined(f, p - 1)
  <2>1. f = [n \in 1 .. p - 1 |-> f[n]]
    OBVIOUS
  <2> QED
    BY <2>1, Zenon DEF RunText, Joined
<1> HIDE DEF f
<1>5. Joined(f, p - 1) \in Seq(Chars)
  BY <1>3, JoinedShape
<1> QED
  BY <1>2, <1>4, <1>5

LEMMA TextAtShape ==
  ASSUME NEW d \in Seq(Event), NEW p \in 1 .. Len(d)
  PROVE  TextAt(d, p) \in Seq(Chars)
<1>1. Trim(RunText(d, p)) \in Seq(Chars)
  BY RunTextShape, TrimShape
<1>2. d[p].kind = "CData" => Trim(d[p].text) \in Seq(Chars)
  <2> SUFFICES ASSUME d[p].kind = "CData" PROVE d[p].text \in Seq(Chars)
    BY TrimShape
  <2>1. d[p] \in Event
    OBVIOUS
  <2> QED
    BY <2>1 DEF Event
<1>3. <<>> \in Seq(Chars) /\ \A s, t \in Seq(Chars) : s \o t \in Seq(Chars)
  OBVIOUS
<1> DEFINE s == IF \E n \in Run(d, p) : d[n].kind = "UnknownEntity" THEN <<>> ELSE Trim(RunText(d, p))
           t == IF d[p].kind = "CData" THEN Trim(d[p].text) ELSE <<>>
<1>4. s \in Seq(Chars) /\ t \in Seq(Chars)
  BY <1>1, <1>2, <1>3
<1>5. TextAt(d, p) = IF IsData(d, p) THEN <<>> ELSE s \o t
  BY Zenon DEF TextAt
<1> HIDE DEF s, t
<1> QED
  BY <1>3, <1>4, <1>5

\* What event p adds to the text and to the children of the element that begins at b.
TextPart(d, b, p) == IF b < p /\ Level(d, p) = Level(d, b) + 1 THEN TextAt(d, p) ELSE <<>>

ChildPart(d, trees, b, p) ==
  IF b < p /\ Closes(d, p) /\ Level(d, p + 1) = Level(d, b) + 1 THEN <<trees[p]>> ELSE <<>>

LEMMA InsideParts ==
  ASSUME NEW d, NEW trees, NEW b, NEW e \in Nat
  PROVE  /\ TextInside(d, b, e) = FlattenSeq([p \in 1 .. e |-> TextPart(d, b, p)])
         /\ ChildrenInside(d, trees, b, e) = FlattenSeq([p \in 1 .. e |-> ChildPart(d, trees, b, p)])
BY Zenon DEF TextInside, ChildrenInside, TextPart, ChildPart

LEMMA SameTexts ==
  ASSUME NEW c, NEW d, OneMore(c, d), NEW b \in 1 .. Len(d), NEW e \in 0 .. Len(d)
  PROVE  TextInside(c, b, e) = TextInside(d, b, e)
<1>1. Level(c, b) = Level(d, b)
  BY SameLevel DEF OneMore
<1>2. ASSUME NEW p \in 1 .. e PROVE TextPart(c, b, p) = TextPart(d, b, p)
  <2>1. p \in 1 .. Len(d) /\ p \in 1 .. Len(d) + 1
    BY DEF OneMore
  <2>2. Level(c, p) = Level(d, p) /\ TextAt(c, p) = TextAt(d, p)
    BY <2>1, SameLevel, SameTextAt
  <2> QED
    BY <1>1, <2>2 DEF TextPart
<1>3. [p \in 1 .. e |-> TextPart(c, b, p)] = [p \in 1 .. e |-> TextPart(d, b, p)]
  BY <1>2
<1> QED
  BY <1>3, Zenon DEF TextInside, TextPart

LEMMA SameChildren ==
  ASSUME NEW c, NEW d, OneMore(c, d), NEW b \in 1 .. Len(d), NEW e \in 0 .. Len(d),
         NEW t, NEW u, \A p \in 1 .. e : Closes(d, p) => t[p] = u[p]
  PROVE  ChildrenInside(c, t, b, e) = ChildrenInside(d, u, b, e)
<1>1. Level(c, b) = Level(d, b)
  BY SameLevel DEF OneMore
<1>2. ASSUME NEW p \in 1 .. e PROVE ChildPart(c, t, b, p) = ChildPart(d, u, b, p)
  <2>1. p \in 1 .. Len(d) /\ p + 1 \in 1 .. Len(d) + 1 /\ c[p] = d[p]
    BY DEF OneMore
  <2>2. Level(c, p + 1) = Level(d, p + 1) /\ (Closes(c, p) <=> Closes(d, p))
    BY <2>1, SameLevel DEF Closes
  <2>3. Closes(d, p) => t[p] = u[p]
    OBVIOUS
  <2> QED
    BY <1>1, <2>2, <2>3 DEF ChildPart
<1>3. [p \in 1 .. e |-> ChildPart(c, t, b, p)] = [p \in 1 .. e |-> ChildPart(d, u, b, p)]
  BY <1>2
<1> QED
  BY <1>3, Zenon DEF ChildrenInside, ChildPart

\* An element's tree is made of those closed before it.
LEMMA EarlierTrees ==
  ASSUME NEW d, NEW e \in Nat \ {0}, NEW t, NEW u, \A p \in 1 .. e - 1 : t[p] = u[p]
  PROVE  TreeOf(d, t, e) = TreeOf(d, u, e)
<1> DEFINE b == BeginOf(d, e)
<1>1. \A p \in 1 .. e - 1 : ChildPart(d, t, b, p) = ChildPart(d, u, b, p)
  BY DEF ChildPart
<1> HIDE DEF b
<1>2. [p \in 1 .. e - 1 |-> ChildPart(d, t, b, p)] = [p \in 1 .. e - 1 |-> ChildPart(d, u, b, p)]
  BY <1>1
<1>3. ChildrenInside(d, t, b, e - 1) = ChildrenInside(d, u, b, e - 1)
  BY <1>2, Zenon DEF ChildrenInside, ChildPart
<1> QED
  BY <1>3, Zenon DEF TreeOf, b

\* So there are such trees.
LEMMA TreesFound ==
  ASSUME NEW d \in Seq(Event)
  PROVE  \A e \in 1 .. Len(d) : Trees(d)[e] = TreeOf(d, Trees(d), e)
<1> DEFINE n == Len(d)
           Up(t, m) == \A e \in 1 .. m : t[e] = TreeOf(d, t, e)
           A == {m \in 0 .. n : \E t : Up(t, m)}
<1>1. 0 \in A
  OBVIOUS
<1>2. ASSUME NEW m \in 1 .. n, m - 1 \in A PROVE m \in A
  <2>1. PICK t : Up(t, m - 1)
    BY <1>2
  <2> DEFINE x == TreeOf(d, t, m)
             u == [e \in 1 .. m |-> IF e = m THEN x ELSE t[e]]
  <2>2. u[m] = x /\ \A e \in 1 .. m - 1 : u[e] = t[e]
    <3> HIDE DEF x
    <3> QED OBVIOUS
  <2> HIDE DEF u
  <2>3. ASSUME NEW e \in 1 .. m PROVE u[e] = TreeOf(d, u, e)
    <3>1. e \in Nat \ {0} /\ \A p \in 1 .. e - 1 : u[p] = t[p]
      BY <2>2
    <3>2. TreeOf(d, u, e) = TreeOf(d, t, e)
      BY <3>1, EarlierTrees
    <3>3. CASE e = m
      BY <2>2, <3>2, <3>3
    <3>4. CASE e # m
      <4>1. e \in 1 .. m - 1
        BY <3>4
      <4> QED
        BY <2>1, <2>2, <3>2, <4>1
    <3> QED
      BY <3>3, <3>4
  <2>4. m \in 0 .. n
    OBVIOUS
  <2> QED
    BY <2>3, <2>4
<1> HIDE DEF A
<1>3. n \in Nat
  OBVIOUS
<1>4. 0 .. n \subseteq A
  BY <1>1, <1>2, <1>3, PrefixInduction
<1>5. PICK t : Up(t, n)
  BY <1>3, <1>4 DEF A
<1> DEFINE Is(f) == f = [e \in DOMAIN d |-> TreeOf(d, f, e)]
           u == [e \in DOMAIN d |-> t[e]]
<1>6. DOMAIN d = 1 .. n
  OBVIOUS
<1>7. ASSUME NEW e \in DOMAIN d PROVE u[e] = TreeOf(d, u, e)
  <2>1. e \in Nat \ {0} /\ e \in 1 .. n /\ \A p \in 1 .. e - 1 : p \in DOMAIN d
    BY <1>6
  <2>2. \A p \in 1 .. e - 1 : u[p] = t[p]
    BY <2>1
  <2> HIDE DEF u
  <2>3. TreeOf(d, u, e) = TreeOf(d, t, e)
    BY <2>1, <2>2, EarlierTrees
  <2>4. u[e] = t[e]
    BY DEF u
  <2> QED
    BY <1>5, <2>1, <2>3, <2>4
<1>8. u = [e \in DOMAIN d |-> u[e]]
  OBVIOUS
<1> HIDE DEF u
<1>9. u = [e \in DOMAIN d |-> TreeOf(d, u, e)]
  BY <1>7, <1>8, Zenon
<1>10. Trees(d) = CHOOSE f : Is(f)
  BY Zenon DEF Trees
<1>11. Is(Trees(d))
  BY <1>9, <1>10, Zenon
<1>12. \A e \in DOMAIN d : Trees(d)[e] = TreeOf(d, Trees(d), e)
  <2> DEFINE f == Trees(d)
  <2>1. f = [e \in DOMAIN d |-> TreeOf(d, f, e)]
    BY <1>11
  <2> HIDE DEF f
  <2>2. \A e \in DOMAIN d : f[e] = TreeOf(d, f, e)
    BY <2>1, Zenon
  <2> QED
    BY <2>2 DEF f
<1> QED
  BY <1>6, <1>12

\* One event more leaves the trees of the elements closed before it.
LEMMA SameTrees ==
  ASSUME NEW c, NEW d, OneMore(c, d), Nested(d)
  PROVE  \A e \in 1 .. Len(d) : Closes(d, e) => Trees(c)[e] = Trees(d)[e]
<1> DEFINE n == Len(d)
           Same(e) == Closes(d, e) => Trees(c)[e] = Trees(d)[e]
           A == {m \in 0 .. n : \A e \in 1 .. m : Same(e)}
<1>0. d \in Seq(Event) /\ c \in Seq(Event) /\ n \in Nat /\ Len(c) = n + 1
  BY DEF OneMore
<1>1. 0 \in A
  BY <1>0
<1>2. ASSUME NEW m \in 1 .. n, m - 1 \in A PROVE m \in A
  <2>1. \A e \in 1 .. m - 1 : Closes(d, e) => Trees(c)[e] = Trees(d)[e]
    BY <1>2
  <2>2. ASSUME Closes(d, m) PROVE Trees(c)[m] = Trees(d)[m]
    <3> DEFINE b == BeginOf(d, m)
    <3>1. b \in 1 .. m /\ m \in 1 .. Len(d)
      BY <1>0, <2>2, BeginBefore
    <3>2. BeginOf(c, m) = b
      BY <3>1, SameBegin
    <3> HIDE DEF b
    <3>3. b \in 1 .. Len(d) /\ m \in 0 .. Len(d) /\ m - 1 \in 0 .. Len(d)
      BY <1>0, <3>1
    <3>4. TextInside(c, b, m) = TextInside(d, b, m)
      BY <3>3, SameTexts
    <3>5. ChildrenInside(c, Trees(c), b, m - 1) = ChildrenInside(d, Trees(d), b, m - 1)
      <4> DEFINE t == Trees(c)
                 u == Trees(d)
                 e == m - 1
      <4>1. \A p \in 1 .. e : Closes(d, p) => t[p] = u[p]
        BY <2>1
      <4>2. e \in 0 .. Len(d)
        BY <3>3
      <4> HIDE DEF t, u, e
      <4>3. ChildrenInside(c, t, b, e) = ChildrenInside(d, u, b, e)
        BY <3>3, <4>1, <4>2, SameChildren
      <4> QED
        BY <4>3 DEF t, u, e
    <3>6. c[b] = d[b]
      BY <3>3 DEF OneMore
    <3>7. TreeOf(c, Trees(c), m) = TreeOf(d, Trees(d), m)
      BY <3>2, <3>4, <3>5, <3>6, Zenon DEF TreeOf, b
    <3>8. m \in 1 .. Len(c)
      BY <1>0
    <3> QED
      BY <1>0, <3>1, <3>7, <3>8, TreesFound
  <2>3. \A e \in 1 .. m : e \in 1 .. m - 1 \/ e = m
    OBVIOUS
  <2>4. m \in 0 .. n
    OBVIOUS
  <2> QED
    BY <2>1, <2>2, <2>3, <2>4
<1> HIDE DEF A
<1>3. 0 .. n \subseteq A
  BY <1>0, <1>1, <1>2, PrefixInduction
<1>4. n \in A
  BY <1>0, <1>3
<1> QED
  BY <1>4 DEF A

\* The text and the children, one event more of the document taken in.
LEMMA TextMore ==
  ASSUME NEW d \in Seq(Event), NEW b \in 1 .. Len(d), NEW e \in 1 .. Len(d)
  PROVE  /\ TextInside(d, b, e - 1) \in Seq(Chars)
         /\ TextInside(d, b, e) = TextInside(d, b, e - 1) \o TextPart(d, b, e)
<1> DEFINE f == [p \in 1 .. e |-> TextPart(d, b, p)]
<1>1. \A p \in 1 .. e : f[p] \in Seq(Chars)
  <2> SUFFICES ASSUME NEW p \in 1 .. e PROVE TextPart(d, b, p) \in Seq(Chars)
    OBVIOUS
  <2>1. TextAt(d, p) \in Seq(Chars) /\ <<>> \in Seq(Chars)
    BY TextAtShape
  <2> QED
    BY <2>1 DEF TextPart
<1>2. e \in Nat \ {0} /\ e - 1 \in Nat /\ \A p \in 1 .. e - 1 : f[p] \in Seq(Chars)
  BY <1>1
<1>3. TextInside(d, b, e) = Joined(f, e) /\ TextInside(d, b, e - 1) = Joined(f, e - 1)
  <2>1. [p \in 1 .. e |-> f[p]] = [p \in 1 .. e |-> TextPart(d, b, p)]
    OBVIOUS
  <2>2. [p \in 1 .. e - 1 |-> f[p]] = [p \in 1 .. e - 1 |-> TextPart(d, b, p)]
    OBVIOUS
  <2> HIDE DEF f
  <2> QED
    BY <2>1, <2>2, Zenon DEF Joined, TextInside, TextPart
<1>4. f[e] = TextPart(d, b, e)
  OBVIOUS
<1> HIDE DEF f
<1> QED
  BY <1>1, <1>2, <1>3, <1>4, JoinedMore, JoinedShape

LEMMA ChildrenMore ==
  ASSUME NEW d, NEW trees, NEW b \in Nat, NEW e \in Nat \ {0}, NEW S,
         \A p \in 1 .. e : trees[p] \in S
  PROVE  /\ ChildrenInside(d, trees, b, e - 1) \in Seq(S)
         /\ ChildrenInside(d, trees, b, e)
              = ChildrenInside(d, trees, b, e - 1) \o ChildPart(d, trees, b, e)
<1> DEFINE f == [p \in 1 .. e |-> ChildPart(d, trees, b, p)]
<1>1. \A p \in 1 .. e : f[p] \in Seq(S)
  <2> SUFFICES ASSUME NEW p \in 1 .. e PROVE ChildPart(d, trees, b, p) \in Seq(S)
    OBVIOUS
  <2>1. trees[p] \in S
    OBVIOUS
  <2>2. <<trees[p]>> \in Seq(S) /\ <<>> \in Seq(S)
    BY <2>1
  <2> QED
    BY <2>2 DEF ChildPart
<1>2. e - 1 \in Nat /\ \A p \in 1 .. e - 1 : f[p] \in Seq(S)
  BY <1>1
<1>3. ChildrenInside(d, trees, b, e) = Joined(f, e) /\ ChildrenInside(d, trees, b, e - 1) = Joined(f, e - 1)
  <2>1. [p \in 1 .. e |-> f[p]] = [p \in 1 .. e |-> ChildPart(d, trees, b, p)]
    OBVIOUS
  <2>2. [p \in 1 .. e - 1 |-> f[p]] = [p \in 1 .. e - 1 |-> ChildPart(d, trees, b, p)]
    OBVIOUS
  <2> HIDE DEF f
  <2> QED
    BY <2>1, <2>2, Zenon DEF Joined, ChildrenInside, ChildPart
<1>4. f[e] = ChildPart(d, trees, b, e)
  OBVIOUS
<1> HIDE DEF f
<1> QED
  BY <1>1, <1>2, <1>3, <1>4, JoinedMore, JoinedShape

\* Nothing is inside an element before it begins.
LEMMA NothingInside ==
  ASSUME NEW d, NEW trees, NEW b \in Nat \ {0}, NEW e \in Nat, e <= b
  PROVE  TextInside(d, b, e) = <<>> /\ ChildrenInside(d, trees, b, e) = <<>>
<1> DEFINE f == [p \in 1 .. e |-> <<>>]
<1>1. /\ [p \in 1 .. e |-> TextPart(d, b, p)] = f
      /\ [p \in 1 .. e |-> ChildPart(d, trees, b, p)] = f
  <2>1. \A p \in 1 .. e : TextPart(d, b, p) = <<>> /\ ChildPart(d, trees, b, p) = <<>>
    BY DEF TextPart, ChildPart
  <2> QED
    BY <2>1
<1>2. f = [p \in 1 .. e |-> f[p]] /\ \A p \in 1 .. e : f[p] = <<>>
  OBVIOUS
<1> HIDE DEF f
<1>3. Joined(f, e) = <<>>
  BY <1>2, JoinedEmpty
<1> QED
  BY <1>1, <1>2, <1>3, InsideParts DEF Joined

(***************************************************************************)
(* What the parser has when it has read d: the elements that are open, as  *)
(* far as they have been read, the pending run, and the root.              *)
(***************************************************************************)
Here(d) == Level(d, Len(d) + 1)

Partial(d, b) ==
  [name     |-> d[b].name,
   text     |-> TextInside(d, b, Len(d)),
   children |-> ChildrenInside(d, Trees(d), b, Len(d)),
   at       |-> b]

OpenElements(d) == [k \in 1 .. Here(d) |-> Partial(d, OpenAt(d, Len(d) + 1, k))]

IsDropped(d) == \E n \in Run(d, Len(d) + 1) : d[n].kind = "UnknownEntity"
PendingRun(d) == IF IsDropped(d) THEN <<>> ELSE <<RunText(d, Len(d) + 1)>>

FirstTree(d) == IF Closed(d) = {} THEN <<>> ELSE <<Trees(d)[Min(Closed(d))]>>

\* The level after one event more.
LEMMA HereStep ==
  ASSUME NEW c, NEW d, OneMore(c, d), Nested(d)
  PROVE  /\ Here(d) \in Nat /\ Here(c) \in Int
         /\ Level(c, Len(d) + 1) = Here(d) /\ Level(c, Len(d) + 2) = Here(c)
         /\ Here(c) = Here(d) + (IF c[Len(d) + 1].kind = "Start" THEN 1
                                 ELSE IF c[Len(d) + 1].kind = "End" THEN -1 ELSE 0)
<1> DEFINE n == Len(d)
<1>1. n \in Nat /\ n + 1 \in 1 .. n + 1 /\ Len(c) = n + 1 /\ (n + 1) + 1 = n + 2
  BY DEF OneMore
<1>2. Level(c, n + 1) = Here(d) /\ Here(d) \in Nat
  BY <1>1, SameLevel DEF Here, Nested
<1>3. Here(c) = Level(c, (n + 1) + 1) /\ n + 1 \in Nat \ {0} /\ n + 2 \in Nat \ {0}
  BY <1>1 DEF Here
<1>4. Level(c, n + 2) \in Int
  BY <1>3, LevelStep
<1> QED
  BY <1>1, <1>2, <1>3, <1>4, LevelStep

LEMMA StaysNested ==
  ASSUME NEW c, NEW d, OneMore(c, d), Nested(d), Here(c) >= 0
  PROVE  Nested(c)
<1>1. Len(d) \in Nat /\ Len(c) = Len(d) + 1
  BY DEF OneMore
<1>2. ASSUME NEW p \in 1 .. Len(d) + 2 PROVE Level(c, p) \in Nat
  <2>1. CASE p = Len(d) + 2
    BY <2>1, HereStep
  <2>2. CASE p # Len(d) + 2
    <3>1. p \in 1 .. Len(d) + 1
      BY <1>1, <2>2
    <3> QED
      BY <3>1, SameLevel DEF Nested
  <2> QED
    BY <2>1, <2>2
<1>3. Len(c) + 1 = Len(d) + 2
  BY <1>1
<1> QED
  BY <1>2, <1>3 DEF Nested

\* An element that stays open begins where it began.
LEMMA StaysOpen ==
  ASSUME NEW c, NEW d, OneMore(c, d), Nested(d), NEW k \in 1 .. Here(d), k <= Here(c)
  PROVE  /\ OpenAt(c, Len(c) + 1, k) = OpenAt(d, Len(d) + 1, k)
         /\ OpenAt(d, Len(d) + 1, k) \in 1 .. Len(d)
         /\ Level(c, OpenAt(d, Len(d) + 1, k)) = k - 1
<1> DEFINE n == Len(d)
           b == OpenAt(d, n + 1, k)
<1>1. n \in Nat /\ Len(c) = n + 1 /\ n + 1 \in Nat \ {0} /\ k \in Nat \ {0}
  BY HereStep DEF OneMore
<1>2. k <= Level(d, n + 1)
  BY HereStep DEF Here
<1>3. IsOpen(d, n + 1, k, b)
  BY <1>1, <1>2, OpenIsOpen
<1> HIDE DEF b
<1>4. b \in 1 .. n /\ b \in 1 .. n + 1 /\ d[b].kind = "Start" /\ Level(d, b) = k - 1
  BY <1>1, <1>3 DEF IsOpen
<1>5. c[b].kind = "Start" /\ Level(c, b) = k - 1
  BY <1>4, SameLevel DEF OneMore
<1>6. ASSUME NEW q \in b + 1 .. n + 2 PROVE Level(c, q) >= k
  <2>1. CASE q = n + 2
    BY <2>1, HereStep
  <2>2. CASE q # n + 2
    <3>1. q \in b + 1 .. n + 1 /\ q \in 1 .. n + 1
      BY <1>1, <1>4, <2>2
    <3> QED
      BY <1>3, <3>1, SameLevel DEF IsOpen
  <2> QED
    BY <2>1, <2>2
<1>7. IsOpen(c, n + 2, k, b)
  <2>1. b \in 1 .. (n + 2) - 1
    BY <1>1, <1>4
  <2> QED
    BY <1>5, <1>6, <2>1 DEF IsOpen
<1>8. n + 2 \in Nat \ {0} /\ Len(c) + 1 = n + 2
  BY <1>1
<1>9. OpenAt(c, n + 2, k) = b
  BY <1>1, <1>7, <1>8, OpenFound
<1> QED
  BY <1>4, <1>5, <1>8, <1>9 DEF b

\* What one event more does to an open element.
LEMMA PartialStep ==
  ASSUME NEW c, NEW d, OneMore(c, d), Nested(d), NEW b \in 1 .. Len(d)
  PROVE  LET e == Len(d) + 1
             S == {Trees(c)[p] : p \in 1 .. e}
         IN /\ Partial(d, b).text \in Seq(Chars) /\ Partial(d, b).children \in Seq(S)
            /\ Trees(c)[e] \in S
            /\ Partial(c, b) =
                 [name     |-> Partial(d, b).name,
                  text     |-> Partial(d, b).text \o TextPart(c, b, e),
                  children |-> Partial(d, b).children \o ChildPart(c, Trees(c), b, e),
                  at       |-> b]
<1> DEFINE n == Len(d)
           e == n + 1
           t == Trees(c)
           S == {t[p] : p \in 1 .. e}
<1>1. /\ n \in Nat /\ Len(c) = e /\ e \in 1 .. Len(c) /\ e \in Nat \ {0} /\ e - 1 = n
      /\ c \in Seq(Event) /\ b \in 1 .. Len(c) /\ b \in Nat /\ c[b] = d[b] /\ n \in 0 .. Len(d)
      /\ e \in Nat /\ e <= e
  BY DEF OneMore
<1>2. t[e] \in S
  BY <1>1
<1>3. TextInside(c, b, e - 1) \in Seq(Chars) /\ TextInside(c, b, e) = TextInside(c, b, e - 1) \o TextPart(c, b, e)
  BY <1>1, TextMore
<1>4. TextInside(c, b, n) = TextInside(d, b, n)
  BY <1>1, SameTexts
<1>5. /\ ChildrenInside(c, t, b, e - 1) \in Seq(S)
      /\ ChildrenInside(c, t, b, e) = ChildrenInside(c, t, b, e - 1) \o ChildPart(c, t, b, e)
  <2>1. \A p \in 1 .. e : t[p] \in S
    OBVIOUS
  <2> HIDE DEF t, e, S
  <2> QED
    BY <1>1, <2>1, ChildrenMore
<1>6. ChildrenInside(c, t, b, n) = ChildrenInside(d, Trees(d), b, n)
  <2> DEFINE u == Trees(d)
  <2>1. \A p \in 1 .. n : Closes(d, p) => t[p] = u[p]
    BY SameTrees
  <2> HIDE DEF t, u
  <2>2. ChildrenInside(c, t, b, n) = ChildrenInside(d, u, b, n)
    BY <1>1, <2>1, SameChildren
  <2> QED
    BY <2>2 DEF u
<1>7. /\ Partial(d, b).name = d[b].name /\ Partial(d, b).text = TextInside(d, b, n)
      /\ Partial(d, b).children = ChildrenInside(d, Trees(d), b, n)
  BY DEF Partial
<1>8. Partial(c, b) = [name |-> c[b].name, text |-> TextInside(c, b, e),
                       children |-> ChildrenInside(c, t, b, e), at |-> b]
  BY <1>1, Zenon DEF Partial
<1> HIDE DEF t, S
<1> QED
  BY <1>1, <1>2, <1>3, <1>4, <1>5, <1>6, <1>7, <1>8 DEF t, S

\* What one event more does to the open elements.
Grown(c, d, k, r) ==
  LET e == Len(d) + 1
  IN [name     |-> r.name,
      text     |-> IF k = Here(d) THEN r.text \o TextAt(c, e) ELSE r.text,
      children |-> IF Closes(c, e) /\ k = Here(c) THEN Append(r.children, Trees(c)[e]) ELSE r.children,
      at       |-> r.at]

LEMMA OpensStep ==
  ASSUME NEW c, NEW d, OneMore(c, d), Nested(d), NEW k \in 1 .. Here(d), k <= Here(c), NEW r,
         r = OpenElements(d)[k]
  PROVE  /\ r = Partial(d, r.at) /\ r.text \in Seq(Chars)
         /\ OpenElements(c)[k] = Grown(c, d, k, r)
<1> DEFINE n == Len(d)
           e == n + 1
           b == OpenAt(d, n + 1, k)
           tree == Trees(c)[e]
           S == {Trees(c)[p] : p \in 1 .. e}
<1>1. b \in 1 .. n /\ OpenAt(c, Len(c) + 1, k) = b /\ Level(c, b) = k - 1
  BY StaysOpen
<1>2. n \in Nat /\ b < e /\ Here(d) \in Nat /\ Here(c) \in Int /\ k \in Nat \ {0}
  BY <1>1, HereStep DEF OneMore
<1>3. r = Partial(d, b) /\ r.at = b
  BY DEF OpenElements, Partial
<1>4. OpenElements(c)[k] = Partial(c, b)
  <2>1. k \in 1 .. Here(c)
    BY <1>2
  <2> QED
    BY <1>1, <2>1 DEF OpenElements
<1>5. /\ r.text \in Seq(Chars) /\ r.children \in Seq(S) /\ tree \in S
      /\ Partial(c, b) = [name |-> r.name, text |-> r.text \o TextPart(c, b, e),
                          children |-> r.children \o ChildPart(c, Trees(c), b, e), at |-> b]
  <2>1. b \in 1 .. Len(d)
    BY <1>1
  <2> HIDE DEF b, S, tree
  <2>2. /\ Partial(d, b).text \in Seq(Chars) /\ Partial(d, b).children \in Seq(S) /\ tree \in S
        /\ Partial(c, b) = [name     |-> Partial(d, b).name,
                            text     |-> Partial(d, b).text \o TextPart(c, b, e),
                            children |-> Partial(d, b).children \o ChildPart(c, Trees(c), b, e),
                            at       |-> b]
    BY <2>1, PartialStep, Zenon DEF S, tree
  <2> QED
    BY <1>3, <2>2
<1>6. TextPart(c, b, e) = IF k = Here(d) THEN TextAt(c, e) ELSE <<>>
  <2>1. Level(c, e) = Here(d)
    BY HereStep
  <2> QED
    BY <1>1, <1>2, <2>1 DEF TextPart
<1>7. ChildPart(c, Trees(c), b, e) = IF Closes(c, e) /\ k = Here(c) THEN <<tree>> ELSE <<>>
  <2>1. Level(c, e + 1) = Here(c)
    <3>1. e + 1 = n + 2
      BY <1>2
    <3> QED
      BY <3>1, HereStep
  <2> QED
    BY <1>1, <1>2, <2>1 DEF ChildPart
<1> HIDE DEF tree, S, b, e
<1>8. r.text \o <<>> = r.text /\ r.children \o <<>> = r.children /\ r.children \o <<tree>> = Append(r.children, tree)
  BY <1>5
<1>9. r.text \o TextPart(c, b, e) = IF k = Here(d) THEN r.text \o TextAt(c, e) ELSE r.text
  BY <1>6, <1>8
<1>10. r.children \o ChildPart(c, Trees(c), b, e)
       = IF Closes(c, e) /\ k = Here(c) THEN Append(r.children, tree) ELSE r.children
  BY <1>7, <1>8
<1> QED
  BY <1>3, <1>4, <1>5, <1>9, <1>10 DEF Grown, tree, e

\* What the open elements are when the pending run has been flushed to the last.
RunAt(d) == IF IsDropped(d) THEN <<>> ELSE Trim(RunText(d, Len(d) + 1))

Flushed(d) ==
  [k \in 1 .. Here(d) |->
    LET r == OpenElements(d)[k]
    IN [name |-> r.name, text |-> IF k = Here(d) THEN r.text \o RunAt(d) ELSE r.text,
        children |-> r.children, at |-> r.at]]

\* A function on 1 .. n is a sequence of length n.
LEMMA ASequence ==
  ASSUME NEW n \in Nat, NEW f, f = [k \in 1 .. n |-> f[k]], NEW S, \A k \in 1 .. n : f[k] \in S
  PROVE  f \in Seq(S) /\ Len(f) = n /\ (f = <<>> <=> n = 0)
OBVIOUS

LEMMA LengthOf ==
  \A n \in Nat : \A f : f = [k \in 1 .. n |-> f[k]] => Len(f) = n /\ (f = <<>> <=> n = 0)
OBVIOUS

LEMMA FlushedShape ==
  ASSUME NEW d \in Seq(Event), Nested(d)
  PROVE  /\ Here(d) \in Nat
         /\ OpenElements(d) = [k \in 1 .. Here(d) |-> OpenElements(d)[k]]
         /\ Flushed(d) = [k \in 1 .. Here(d) |-> Flushed(d)[k]]
<1>1. Len(d) + 1 \in 1 .. Len(d) + 1
  OBVIOUS
<1> QED
  BY <1>1 DEF Here, Nested, OpenElements, Flushed

\* flush_text, in a state that is what d makes it.
LEMMA FlushIs ==
  ASSUME doc \in Seq(Event), Nested(doc), stack = OpenElements(doc), run = PendingRun(doc)
  PROVE  FlushText(stack) = Flushed(doc)
<1> DEFINE n == Here(doc)
           S == {stack[k] : k \in 1 .. n}
<1>1. n \in Nat /\ stack = [k \in 1 .. n |-> stack[k]]
  BY FlushedShape
<1>2. stack \in Seq(S) /\ Len(stack) = n /\ (stack = <<>> <=> n = 0)
  <2>1. \A k \in 1 .. n : stack[k] \in S
    OBVIOUS
  <2> HIDE DEF n, S
  <2> QED
    BY <1>1, <2>1, ASequence
<1>3. /\ DOMAIN stack = 1 .. n
      /\ \A k \in 1 .. n : stack[k] = [name |-> stack[k].name, text |-> stack[k].text,
                                      children |-> stack[k].children, at |-> stack[k].at]
  BY DEF OpenElements, Partial
<1>4. \A k \in 1 .. n : stack[k].text \in Seq(Chars)
  <2> SUFFICES ASSUME NEW k \in 1 .. n PROVE stack[k].text \in Seq(Chars)
    OBVIOUS
  <2> DEFINE b == OpenAt(doc, Len(doc) + 1, k)
  <2>1. b \in 1 .. Len(doc)
    <3>1. Len(doc) + 1 \in Nat \ {0} /\ k \in Nat \ {0} /\ k <= Level(doc, Len(doc) + 1)
      BY <1>1 DEF Here
    <3>2. IsOpen(doc, Len(doc) + 1, k, b)
      BY <3>1, OpenIsOpen
    <3> QED
      BY <3>2 DEF IsOpen
  <2>2. stack[k].text = TextInside(doc, b, Len(doc))
    BY DEF OpenElements, Partial
  <2> HIDE DEF b
  <2>3. Len(doc) \in 1 .. Len(doc)
    BY <2>1
  <2>4. TextInside(doc, b, Len(doc) - 1) \in Seq(Chars) /\ TextAt(doc, Len(doc)) \in Seq(Chars)
        /\ TextInside(doc, b, Len(doc)) = TextInside(doc, b, Len(doc) - 1) \o TextPart(doc, b, Len(doc))
    BY <2>1, <2>3, TextMore, TextAtShape
  <2>5. TextPart(doc, b, Len(doc)) \in Seq(Chars)
    BY <2>4 DEF TextPart
  <2> QED
    BY <2>2, <2>4, <2>5
<1>5. run = <<>> <=> IsDropped(doc)
  BY DEF PendingRun
<1>6. ~IsDropped(doc) => Head(run) = RunText(doc, Len(doc) + 1)
  BY DEF PendingRun
<1> DEFINE t == RunAt(doc)
<1>7. (run = <<>> => t = <<>>) /\ (run # <<>> => t = Trim(Head(run)))
  BY <1>5, <1>6 DEF RunAt
<1> HIDE DEF t
<1>8. \A k \in 1 .. n : Flushed(doc)[k]
          = [name |-> stack[k].name, text |-> IF k = n THEN stack[k].text \o t ELSE stack[k].text,
             children |-> stack[k].children, at |-> stack[k].at]
  BY DEF Flushed, t
<1>9. Flushed(doc) = [k \in 1 .. n |-> Flushed(doc)[k]]
  BY FlushedShape
<1>10. CASE stack = <<>>
  <2>1. FlushText(stack) = stack
    BY <1>10 DEF FlushText
  <2>2. \A k \in 1 .. n : stack[k] = Flushed(doc)[k]
    BY <1>1, <1>2, <1>10
  <2> QED
    BY <1>1, <1>9, <2>1, <2>2
<1>11. CASE stack # <<>> /\ run = <<>>
  <2>1. FlushText(stack) = stack
    BY <1>11 DEF FlushText
  <2>2. \A k \in 1 .. n : stack[k] = Flushed(doc)[k]
    <3> SUFFICES ASSUME NEW k \in 1 .. n PROVE stack[k] = Flushed(doc)[k]
      OBVIOUS
    <3>1. stack[k].text \o t = stack[k].text
      BY <1>4, <1>7, <1>11
    <3> QED
      BY <1>3, <1>8, <3>1
  <2> QED
    BY <1>1, <1>9, <2>1, <2>2
<1>12. CASE stack # <<>> /\ run # <<>>
  <2> DEFINE f == FlushText(stack)
  <2>1. f = [stack EXCEPT ![n].text = @ \o t]
    BY <1>2, <1>7, <1>12 DEF FlushText
  <2>2. n \in 1 .. n
    BY <1>1, <1>2, <1>12
  <2>3. f = [k \in 1 .. n |-> f[k]]
    BY <1>3, <2>1
  <2>4. \A k \in 1 .. n : f[k] = Flushed(doc)[k]
    <3> SUFFICES ASSUME NEW k \in 1 .. n PROVE f[k] = Flushed(doc)[k]
      OBVIOUS
    <3>1. CASE k # n
      <4>1. f[k] = stack[k]
        BY <1>3, <2>1, <3>1
      <4> QED
        BY <1>3, <1>8, <3>1, <4>1
    <3>2. CASE k = n
      <4>1. f[k] = [stack[k] EXCEPT !.text = @ \o t]
        BY <1>3, <2>1, <2>2, <3>2
      <4> QED
        BY <1>3, <1>8, <3>2, <4>1
    <3> QED
      BY <3>1, <3>2
  <2> HIDE DEF f
  <2>5. f = Flushed(doc)
    BY <1>9, <2>3, <2>4
  <2> QED
    BY <2>5 DEF f
<1> QED
  BY <1>10, <1>11, <1>12

\* Character data adds to the pending run.
LEMMA DataRun ==
  ASSUME NEW c, NEW d, OneMore(c, d), IsData(c, Len(d) + 1)
  PROVE  LET e == Len(d) + 1
         IN PendingRun(c) = IF IsDropped(d) \/ c[e].kind = "UnknownEntity" THEN <<>>
                            ELSE <<RunText(d, e) \o Characters(c, e)>>
<1> DEFINE n == Len(d)
           e == n + 1
<1>1. /\ d \in Seq(Event) /\ c \in Seq(Event) /\ n \in Nat /\ Len(c) = e /\ e \in 1 .. n + 1
      /\ e + 1 \in 1 .. Len(c) + 1 /\ (e + 1) - 1 = e /\ e \in 1 .. Len(c) /\ e - 1 = n
      /\ e \in 1 .. Len(c) + 1
  BY DEF OneMore
<1>2. Run(c, e + 1) = Run(c, e) \cup {e}
  <2>1. ASSUME NEW k \in 1 .. e
        PROVE  (\A m \in k .. e : IsData(c, m)) <=> k = e \/ (\A m \in k .. e - 1 : IsData(c, m))
    <3>1. \A m \in k .. e : m \in k .. e - 1 \/ m = e
      BY <1>1
    <3>2. \A m \in k .. e - 1 : m \in k .. e
      BY <1>1
    <3>3. k = e => \A m \in k .. e : m = e
      BY <1>1
    <3> QED
      BY <3>1, <3>2, <3>3
  <2>2. ASSUME NEW k PROVE k \in 1 .. e <=> k = e \/ k \in 1 .. e - 1
    BY <1>1
  <2> QED
    BY <1>1, <2>1, <2>2 DEF Run
<1>3. /\ Run(c, e) = Run(d, e) /\ RunText(c, e) = RunText(d, e)
      /\ (\E k \in Run(c, e) : c[k].kind = "UnknownEntity")
              <=> (\E k \in Run(d, e) : d[k].kind = "UnknownEntity")
  BY <1>1, SameRun
<1>4. IsDropped(c) <=> IsDropped(d) \/ c[e].kind = "UnknownEntity"
  BY <1>1, <1>2, <1>3 DEF IsDropped
<1> DEFINE f == [k \in 1 .. e |-> IF k \in Run(c, e + 1) THEN Characters(c, k) ELSE <<>>]
<1>5. \A k \in 1 .. e : f[k] \in Seq(Chars)
  <2> SUFFICES ASSUME NEW k \in 1 .. e PROVE f[k] \in Seq(Chars)
    OBVIOUS
  <2>1. k \in 1 .. Len(c) /\ <<>> \in Seq(Chars)
    BY <1>1
  <2>2. k \in Run(c, e + 1) => IsData(c, k)
    BY <1>1 DEF Run
  <2>3. IsData(c, k) => Characters(c, k) \in Seq(Chars)
    BY <1>1, <2>1, RunTextShape
  <2> QED
    BY <2>1, <2>2, <2>3
<1>6. RunText(c, e + 1) = Joined(f, e) /\ RunText(c, e) = Joined(f, e - 1) /\ f[e] = Characters(c, e)
  <2>1. f = [k \in 1 .. e |-> f[k]] /\ f = [k \in 1 .. (e + 1) - 1 |-> IF k \in Run(c, e + 1) THEN Characters(c, k) ELSE <<>>]
    BY <1>1
  <2>2. [k \in 1 .. e - 1 |-> f[k]] = [k \in 1 .. e - 1 |-> IF k \in Run(c, e) THEN Characters(c, k) ELSE <<>>]
    <3>1. \A k \in 1 .. e - 1 : k \in 1 .. e /\ (k \in Run(c, e) <=> k \in Run(c, e + 1))
      BY <1>1, <1>2
    <3> QED
      BY <3>1
  <2>3. f[e] = Characters(c, e)
    BY <1>1, <1>2
  <2> HIDE DEF f
  <2>4. RunText(c, e + 1) = Joined(f, e)
    BY <2>1, Zenon DEF RunText, Joined
  <2>5. RunText(c, e) = Joined(f, e - 1)
    BY <2>2, Zenon DEF RunText, Joined
  <2> QED
    BY <2>3, <2>4, <2>5
<1> HIDE DEF f
<1>7. Joined(f, e) = Joined(f, e - 1) \o f[e]
  <2>1. e \in Nat \ {0}
    BY <1>1
  <2> HIDE DEF e
  <2> QED
    BY <1>5, <2>1, JoinedMore
<1>8. RunText(c, e + 1) = RunText(d, e) \o Characters(c, e)
  BY <1>3, <1>6, <1>7
<1> QED
  BY <1>1, <1>4, <1>8 DEF PendingRun

\* Anything else ends it.
LEMMA OtherRun ==
  ASSUME NEW c, NEW d, OneMore(c, d), ~IsData(c, Len(d) + 1)
  PROVE  /\ PendingRun(c) = << <<>> >>
         /\ TextAt(c, Len(d) + 1)
              = RunAt(d) \o (IF c[Len(d) + 1].kind = "CData" THEN Trim(c[Len(d) + 1].text) ELSE <<>>)
         /\ RunAt(d) \in Seq(Chars)
<1> DEFINE n == Len(d)
           e == n + 1
<1>1. /\ d \in Seq(Event) /\ c \in Seq(Event) /\ n \in Nat /\ Len(c) = e /\ e \in 1 .. n + 1
      /\ (e + 1) - 1 = e /\ e \in 1 .. Len(c)
  BY DEF OneMore
<1>2. Run(c, e + 1) = {}
  <2> SUFFICES ASSUME NEW k \in Run(c, e + 1) PROVE FALSE
    OBVIOUS
  <2>1. e \in k .. (e + 1) - 1
    BY <1>1 DEF Run
  <2> QED
    BY <2>1 DEF Run
<1>3. ~IsDropped(c)
  BY <1>1, <1>2 DEF IsDropped
<1>4. RunText(c, e + 1) = <<>>
  <2> DEFINE f == [k \in 1 .. e |-> <<>>]
  <2>1. f = [k \in 1 .. (e + 1) - 1 |-> IF k \in Run(c, e + 1) THEN Characters(c, k) ELSE <<>>]
    BY <1>1, <1>2
  <2>2. f = [k \in 1 .. e |-> f[k]] /\ \A k \in 1 .. e : f[k] = <<>>
    OBVIOUS
  <2> HIDE DEF f
  <2>3. Joined(f, e) = <<>>
    BY <1>1, <2>2, JoinedEmpty
  <2> QED
    BY <2>1, <2>2, <2>3, Zenon DEF RunText, Joined
<1>5. PendingRun(c) = << <<>> >>
  BY <1>1, <1>3, <1>4 DEF PendingRun
<1>6. /\ RunText(c, e) = RunText(d, e)
      /\ (\E k \in Run(c, e) : c[k].kind = "UnknownEntity")
              <=> (\E k \in Run(d, e) : d[k].kind = "UnknownEntity")
  BY <1>1, SameRun
<1>7. RunAt(d) = IF \E k \in Run(c, e) : c[k].kind = "UnknownEntity" THEN <<>> ELSE Trim(RunText(c, e))
  BY <1>6 DEF RunAt, IsDropped
<1>8. TextAt(c, e) = RunAt(d) \o (IF c[e].kind = "CData" THEN Trim(c[e].text) ELSE <<>>)
  BY <1>7, Zenon DEF TextAt
<1>9. RunAt(d) \in Seq(Chars)
  <2>1. Trim(RunText(d, e)) \in Seq(Chars) /\ <<>> \in Seq(Chars)
    BY <1>1, RunTextShape, TrimShape
  <2> QED
    BY <2>1 DEF RunAt
<1> QED
  BY <1>5, <1>8, <1>9

\* Character data leaves the open elements; anything else flushes the run first.
LEMMA DataOpens ==
  ASSUME NEW c, NEW d, OneMore(c, d), Nested(d), IsData(c, Len(d) + 1)
  PROVE  OpenElements(c) = OpenElements(d) /\ Here(c) = Here(d)
<1> DEFINE e == Len(d) + 1
<1>1. Here(c) = Here(d) /\ Here(d) \in Nat
  BY HereStep DEF IsData
<1>2. TextAt(c, e) = <<>> /\ ~Closes(c, e)
  BY DEF TextAt, IsData, Closes
<1>3. ASSUME NEW k \in 1 .. Here(d) PROVE OpenElements(c)[k] = OpenElements(d)[k]
  <2> DEFINE r == OpenElements(d)[k]
  <2>1. r = [name |-> r.name, text |-> r.text, children |-> r.children, at |-> r.at]
    BY DEF OpenElements, Partial
  <2>2. k <= Here(c)
    BY <1>1
  <2> HIDE DEF r
  <2>3. /\ r.text \in Seq(Chars)
        /\ OpenElements(c)[k] = Grown(c, d, k, r)
    <3>1. r = OpenElements(d)[k]
      BY DEF r
    <3> QED
      BY <2>2, <3>1, OpensStep
  <2>4. r.text \o <<>> = r.text
    BY <2>3
  <2> QED
    BY <1>2, <2>1, <2>3, <2>4 DEF r, Grown
<1>4. /\ OpenElements(d) = [k \in 1 .. Here(d) |-> OpenElements(d)[k]]
      /\ OpenElements(c) = [k \in 1 .. Here(c) |-> OpenElements(c)[k]]
  BY DEF OpenElements
<1> QED
  BY <1>1, <1>3, <1>4

\* What markup does to the open elements once the run was flushed.
GrownFlushed(c, d, k, s) ==
  LET e == Len(d) + 1
  IN [name     |-> s.name,
      text     |-> IF k = Here(d) /\ c[e].kind = "CData" THEN s.text \o Trim(c[e].text) ELSE s.text,
      children |-> IF Closes(c, e) /\ k = Here(c) THEN Append(s.children, Trees(c)[e]) ELSE s.children,
      at       |-> s.at]

LEMMA TextsAssociate == \A u, v, w \in Seq(Chars) : (u \o v) \o w = u \o (v \o w)
BY ConcatAssociates

LEMMA FlushedStep ==
  ASSUME NEW c, NEW d, OneMore(c, d), Nested(d), ~IsData(c, Len(d) + 1),
         NEW k \in 1 .. Here(d), k <= Here(c), NEW s, s = Flushed(d)[k]
  PROVE  OpenElements(c)[k] = GrownFlushed(c, d, k, s)
<1> DEFINE e == Len(d) + 1
           r == OpenElements(d)[k]
           x == IF c[e].kind = "CData" THEN Trim(c[e].text) ELSE <<>>
<1>1. s = [name |-> r.name, text |-> IF k = Here(d) THEN r.text \o RunAt(d) ELSE r.text,
           children |-> r.children, at |-> r.at]
  BY DEF Flushed
<1> HIDE DEF r
<1>2. /\ r.text \in Seq(Chars)
      /\ OpenElements(c)[k] = Grown(c, d, k, r)
  <2>1. r = OpenElements(d)[k]
    BY DEF r
  <2> QED
    BY <2>1, OpensStep
<1>3. RunAt(d) \in Seq(Chars) /\ TextAt(c, e) = RunAt(d) \o x
  BY OtherRun
<1>4. x \in Seq(Chars) /\ (c[e].kind = "CData" => x = Trim(c[e].text))
  <2>1. c \in Seq(Event) /\ e \in 1 .. Len(c)
    BY DEF OneMore
  <2>2. c[e] \in Event
    BY <2>1
  <2>3. c[e].kind = "CData" => c[e].text \in Seq(Chars)
    BY <2>2 DEF Event
  <2>4. <<>> \in Seq(Chars)
    OBVIOUS
  <2> QED
    BY <2>3, <2>4, TrimShape
<1>5. c[e].kind # "CData" => x = <<>>
  OBVIOUS
<1> HIDE DEF x, e
<1>6. r.text \o TextAt(c, e) = (r.text \o RunAt(d)) \o x
  <2>1. (r.text \o RunAt(d)) \o x = r.text \o (RunAt(d) \o x)
    <3>1. r.text \in Seq(Chars) /\ RunAt(d) \in Seq(Chars) /\ x \in Seq(Chars)
      BY <1>2, <1>3, <1>4
    <3> QED
      BY <3>1, TextsAssociate, Zenon
  <2> QED
    BY <1>3, <2>1
<1>7. (r.text \o RunAt(d)) \o <<>> = r.text \o RunAt(d)
  BY <1>2, <1>3
<1>8. /\ s.name = r.name /\ s.children = r.children /\ s.at = r.at
      /\ s.text = IF k = Here(d) THEN r.text \o RunAt(d) ELSE r.text
  BY <1>1
<1>9. (IF k = Here(d) THEN r.text \o TextAt(c, e) ELSE r.text)
      = (IF k = Here(d) /\ c[e].kind = "CData" THEN s.text \o Trim(c[e].text) ELSE s.text)
  BY <1>4, <1>5, <1>6, <1>7, <1>8
<1> QED
  BY <1>2, <1>8, <1>9 DEF Grown, GrownFlushed, e

\* The root is the first element closed at the top.
LEMMA FirstTreeStep ==
  ASSUME NEW c, NEW d, OneMore(c, d), Nested(d)
  PROVE  LET e == Len(d) + 1
         IN FirstTree(c) = IF Closes(c, e) /\ Here(c) = 0 /\ FirstTree(d) = <<>>
                           THEN <<Trees(c)[e]>> ELSE FirstTree(d)
<1> DEFINE n == Len(d)
           e == n + 1
<1>1. /\ n \in Nat /\ d \in Seq(Event) /\ c \in Seq(Event)
      /\ DOMAIN d = 1 .. n /\ DOMAIN c = 1 .. n + 1 /\ e + 1 = n + 2
      /\ \A i \in 1 .. n : c[i] = d[i]
  BY DEF OneMore
<1>2. Level(c, e + 1) = Here(c) /\ e \notin Closed(d) /\ e \in DOMAIN c
  BY <1>1, HereStep DEF Closed
<1>3. ASSUME NEW i \in 1 .. n PROVE i \in Closed(c) <=> i \in Closed(d)
  <2>1. i + 1 \in 1 .. n + 1 /\ i \in DOMAIN c /\ i \in DOMAIN d /\ c[i] = d[i]
    BY <1>1
  <2>2. Level(c, i + 1) = Level(d, i + 1)
    BY <2>1, SameLevel
  <2> QED
    BY <2>1, <2>2 DEF Closed, Closes
<1>4. Closed(d) \subseteq 1 .. n /\ Closed(c) \subseteq 1 .. n + 1
  BY <1>1 DEF Closed
<1>5. e \in Closed(c) <=> Closes(c, e) /\ Here(c) = 0
  BY <1>1, <1>2 DEF Closed
<1>6. CASE Closed(d) # {}
  <2> DEFINE m == Min(Closed(d))
  <2>1. m \in Closed(d) /\ \A p \in Closed(d) : m <= p
    <3>1. Closed(d) \in SUBSET (0 .. n)
      BY <1>1, <1>4
    <3> QED
      BY <1>1, <1>6, <3>1, LeastOf
  <2> HIDE DEF m
  <2>2. m \in 1 .. n /\ m \in Closed(c)
    BY <1>3, <1>4, <2>1
  <2>3. \A p \in Closed(c) : m <= p
    <3> SUFFICES ASSUME NEW p \in Closed(c) PROVE m <= p
      OBVIOUS
    <3>1. CASE p = e
      BY <1>1, <2>2, <3>1
    <3>2. CASE p # e
      <4>1. p \in 1 .. n
        BY <1>1, <1>4, <3>2
      <4> QED
        BY <1>3, <2>1, <4>1
    <3> QED
      BY <3>1, <3>2
  <2>4. Closed(c) \in SUBSET Int
    BY <1>1, <1>4
  <2>5. Min(Closed(c)) = m
    BY <2>2, <2>3, <2>4, LeastIs
  <2>6. Closes(d, m)
    BY <2>1 DEF Closed
  <2>7. Trees(c)[m] = Trees(d)[m]
    BY <2>2, <2>6, SameTrees
  <2>8. FirstTree(d) = <<Trees(d)[m]>> /\ FirstTree(c) = <<Trees(c)[m]>>
    BY <1>6, <2>2, <2>5 DEF FirstTree, m
  <2>9. FirstTree(d) # <<>>
    BY <2>8
  <2> QED
    BY <2>7, <2>8, <2>9
<1>7. CASE Closed(d) = {} /\ e \in Closed(c)
  <2>1. Closed(c) = {e}
    <3>1. ASSUME NEW p \in Closed(c) PROVE p = e
      BY <1>1, <1>3, <1>4, <1>7
    <3> QED
      BY <1>7, <3>1
  <2>2. Min({e}) = e
    BY <1>1, LeastIs
  <2>3. FirstTree(d) = <<>> /\ FirstTree(c) = <<Trees(c)[e]>>
    BY <1>7, <2>1, <2>2 DEF FirstTree
  <2> QED
    BY <1>5, <1>7, <2>3
<1>8. CASE Closed(d) = {} /\ e \notin Closed(c)
  <2>1. Closed(c) = {}
    <3>1. ASSUME NEW p \in Closed(c) PROVE FALSE
      BY <1>1, <1>3, <1>4, <1>8
    <3> QED
      BY <3>1
  <2>2. FirstTree(d) = <<>> /\ FirstTree(c) = <<>>
    BY <1>8, <2>1 DEF FirstTree
  <2> QED
    BY <1>5, <1>8, <2>2
<1> QED
  BY <1>6, <1>7, <1>8

LEMMA FlushedKeeps ==
  ASSUME NEW c, NEW d, OneMore(c, d), Nested(d), ~IsData(c, Len(d) + 1),
         c[Len(d) + 1].kind # "CData", NEW k \in 1 .. Here(d), k <= Here(c)
  PROVE  OpenElements(c)[k]
           = IF Closes(c, Len(d) + 1) /\ k = Here(c)
             THEN [Flushed(d)[k] EXCEPT !.children = Append(@, Trees(c)[Len(d) + 1])]
             ELSE Flushed(d)[k]
<1> DEFINE e == Len(d) + 1
           s == Flushed(d)[k]
           tree == Trees(c)[e]
<1>1. s = [name |-> s.name, text |-> s.text, children |-> s.children, at |-> s.at]
  BY DEF Flushed
<1> HIDE DEF s
<1>2. OpenElements(c)[k] =
        [name     |-> s.name,
         text     |-> IF k = Here(d) /\ c[e].kind = "CData" THEN s.text \o Trim(c[e].text) ELSE s.text,
         children |-> IF Closes(c, e) /\ k = Here(c) THEN Append(s.children, tree) ELSE s.children,
         at       |-> s.at]
  <2>1. s = Flushed(d)[k]
    BY DEF s
  <2>2. OpenElements(c)[k] = GrownFlushed(c, d, k, s)
    BY <2>1, FlushedStep
  <2> QED
    BY <2>2, Zenon DEF GrownFlushed
<1> HIDE DEF tree
<1>3. CASE Closes(c, e) /\ k = Here(c)
  <2>1. OpenElements(c)[k] = [name |-> s.name, text |-> s.text, children |-> Append(s.children, tree),
                              at |-> s.at]
    BY <1>2, <1>3
  <2>2. [s EXCEPT !.children = Append(@, tree)]
          = [name |-> s.name, text |-> s.text, children |-> Append(s.children, tree), at |-> s.at]
    BY <1>1
  <2> QED
    BY <1>3, <2>1, <2>2 DEF s, tree
<1>4. CASE ~(Closes(c, e) /\ k = Here(c))
  <2>1. OpenElements(c)[k] = [name |-> s.name, text |-> s.text, children |-> s.children, at |-> s.at]
    BY <1>2, <1>4
  <2> QED
    BY <1>1, <1>4, <2>1 DEF s, tree
<1> QED
  BY <1>3, <1>4

\* An element just begun has nothing in it.
LEMMA JustBegun ==
  ASSUME NEW c, NEW d, OneMore(c, d)
  PROVE  LET e == Len(d) + 1
             node == [name |-> c[e].name, text |-> <<>>, children |-> <<>>, at |-> e]
         IN Partial(c, e) = node /\ (c[e].kind = "Empty" => Trees(c)[e] = node)
<1> DEFINE e == Len(d) + 1
           node == [name |-> c[e].name, text |-> <<>>, children |-> <<>>, at |-> e]
<1>1. /\ c \in Seq(Event) /\ Len(c) = e /\ e \in Nat \ {0} /\ e \in Nat /\ e - 1 \in Nat
      /\ e <= e /\ e - 1 <= e /\ e \in 1 .. Len(c)
  BY DEF OneMore
<1> HIDE DEF e
<1>2. /\ TextInside(c, e, e) = <<>> /\ ChildrenInside(c, Trees(c), e, e) = <<>>
      /\ ChildrenInside(c, Trees(c), e, e - 1) = <<>>
  BY <1>1, NothingInside
<1>3. Partial(c, e) = node
  BY <1>1, <1>2 DEF Partial
<1>4. ASSUME c[e].kind = "Empty" PROVE Trees(c)[e] = node
  <2>1. BeginOf(c, e) = e
    BY <1>4 DEF BeginOf
  <2>2. TreeOf(c, Trees(c), e) = node
    BY <1>2, <2>1 DEF TreeOf
  <2> QED
    BY <1>1, <2>2, TreesFound
<1> QED
  BY <1>3, <1>4 DEF e

\* What an End closes is the innermost open element, flushed.
LEMMA EndTree ==
  ASSUME NEW c, NEW d, OneMore(c, d), Nested(d), c[Len(d) + 1].kind = "End", Here(d) > 0
  PROVE  Trees(c)[Len(d) + 1] = Flushed(d)[Here(d)]
<1> DEFINE n == Len(d)
           e == n + 1
           l == Here(d)
           b == BeginOf(c, e)
           r == OpenElements(d)[l]
<1>1. /\ n \in Nat /\ e \in 1 .. Len(d) + 1 /\ e \in Nat \ {0} /\ l \in Nat \ {0} /\ l \in 1 .. l
      /\ e - 1 = n /\ e \in 1 .. Len(c) /\ c \in Seq(Event)
  BY HereStep DEF OneMore
<1>2. b = OpenAt(d, e, l)
  <2>1. Level(c, e) = l
    BY HereStep
  <2>2. BeginOf(c, e) = OpenAt(c, e, l)
    BY <2>1 DEF BeginOf
  <2> QED
    BY <1>1, <2>2, SameOpen
<1>3. IsOpen(d, e, l, OpenAt(d, e, l))
  <2>1. l <= Level(d, e)
    BY <1>1 DEF Here
  <2> QED
    BY <1>1, <2>1, OpenIsOpen
<1>4. b \in 1 .. n /\ Level(d, b) = l - 1 /\ b \in 1 .. n + 1
  BY <1>1, <1>2, <1>3 DEF IsOpen
<1>5. r = Partial(d, b)
  BY <1>1, <1>2 DEF OpenElements
<1> HIDE DEF b, r
<1>6. c[b] = d[b] /\ Level(c, b) = l - 1 /\ Level(c, e) = l /\ b < e
  BY <1>1, <1>4, SameLevel, HereStep DEF OneMore
<1>7. TextInside(c, b, e) = TextInside(d, b, n) \o TextPart(c, b, e) /\ TextInside(d, b, n) \in Seq(Chars)
  <2>1. TextInside(c, b, n) = TextInside(d, b, n)
    <3>1. n \in 0 .. Len(d)
      BY <1>1
    <3> QED
      BY <1>4, <3>1, SameTexts
  <2>2. b \in 1 .. Len(c)
    BY <1>4 DEF OneMore
  <2>3. TextInside(c, b, e - 1) \in Seq(Chars) /\ TextInside(c, b, e) = TextInside(c, b, e - 1) \o TextPart(c, b, e)
    <3> HIDE DEF e
    <3> QED
      BY <1>1, <2>2, TextMore
  <2> QED
    BY <1>1, <2>1, <2>3
<1>8. TextPart(c, b, e) = RunAt(d)
  <2>1. TextPart(c, b, e) = TextAt(c, e)
    BY <1>1, <1>6 DEF TextPart
  <2>2. ~IsData(c, e)
    BY DEF IsData
  <2>3. TextAt(c, e) = RunAt(d) \o <<>> /\ RunAt(d) \in Seq(Chars)
    BY <2>2, OtherRun
  <2> QED
    BY <2>1, <2>3
<1>9. ChildrenInside(c, Trees(c), b, n) = ChildrenInside(d, Trees(d), b, n)
  <2> DEFINE t == Trees(c)
             u == Trees(d)
  <2>1. (\A p \in 1 .. n : Closes(d, p) => t[p] = u[p]) /\ n \in 0 .. Len(d)
    BY <1>1, SameTrees
  <2> HIDE DEF t, u
  <2>2. ChildrenInside(c, t, b, n) = ChildrenInside(d, u, b, n)
    BY <1>4, <2>1, SameChildren
  <2> QED
    BY <2>2 DEF t, u
<1>10. Trees(c)[e] = TreeOf(c, Trees(c), e)
  BY <1>1, TreesFound
<1>11. TreeOf(c, Trees(c), e) = [name |-> d[b].name, text |-> TextInside(d, b, n) \o RunAt(d),
                                 children |-> ChildrenInside(d, Trees(d), b, n), at |-> b]
  <2>1. TreeOf(c, Trees(c), e) = [name |-> c[b].name, text |-> TextInside(c, b, e),
                                  children |-> ChildrenInside(c, Trees(c), b, e - 1), at |-> b]
    BY Zenon DEF TreeOf, b
  <2> QED
    BY <1>1, <1>6, <1>7, <1>8, <1>9, <2>1
<1>12. Flushed(d)[l] = [name |-> r.name, text |-> r.text \o RunAt(d), children |-> r.children, at |-> r.at]
  BY <1>1 DEF Flushed, r
<1>13. /\ r.name = d[b].name /\ r.text = TextInside(d, b, n)
       /\ r.children = ChildrenInside(d, Trees(d), b, n) /\ r.at = b
  BY <1>5 DEF Partial
<1> QED
  BY <1>10, <1>11, <1>12, <1>13

\* An element is closed: it goes to the one around it, or is the root.
LEMMA CloseStep ==
  ASSUME NEW c, NEW d, OneMore(c, d), Nested(d), Closes(c, Len(d) + 1), Here(c) >= 0,
         root = FirstTree(d), NEW s, s = [k \in 1 .. Here(c) |-> Flushed(d)[k]],
         Attach(s, Trees(c)[Len(d) + 1])
  PROVE  stack' = OpenElements(c) /\ root' = FirstTree(c)
<1> DEFINE e == Len(d) + 1
           m == Here(c)
           node == Trees(c)[e]
<1>1. m \in Nat /\ m <= Here(d) /\ Here(d) \in Nat /\ ~IsData(c, e) /\ c[e].kind # "CData"
  BY HereStep DEF Closes, IsData
<1>2. Len(s) = m /\ (s = <<>> <=> m = 0)
  <2>1. s = [k \in 1 .. m |-> s[k]]
    OBVIOUS
  <2> HIDE DEF m
  <2> QED
    BY <1>1, <2>1, LengthOf, Zenon
<1>3. \A k \in 1 .. m : OpenElements(c)[k]
        = IF k = m THEN [s[k] EXCEPT !.children = Append(@, node)] ELSE s[k]
  <2> SUFFICES ASSUME NEW k \in 1 .. m
               PROVE  OpenElements(c)[k]
                        = IF k = m THEN [s[k] EXCEPT !.children = Append(@, node)] ELSE s[k]
    OBVIOUS
  <2>1. k \in 1 .. Here(d) /\ k <= Here(c) /\ s[k] = Flushed(d)[k]
    BY <1>1
  <2>2. OpenElements(c)[k] = IF Closes(c, e) /\ k = m
                             THEN [Flushed(d)[k] EXCEPT !.children = Append(@, node)] ELSE Flushed(d)[k]
    BY <1>1, <2>1, FlushedKeeps
  <2> QED
    BY <2>1, <2>2
<1>4. OpenElements(c) = [k \in 1 .. m |-> OpenElements(c)[k]]
  BY DEF OpenElements
<1>5. FirstTree(c) = IF m = 0 /\ FirstTree(d) = <<>> THEN <<node>> ELSE FirstTree(d)
  BY FirstTreeStep
<1> HIDE DEF node, m, e
<1>6. CASE m = 0
  <2>1. s = <<>> /\ stack' = s /\ root' = IF root = <<>> THEN <<node>> ELSE root
    BY <1>2, <1>6 DEF Attach, node, e
  <2>2. OpenElements(c) = <<>>
    BY <1>4, <1>6
  <2> QED
    BY <1>5, <1>6, <2>1, <2>2
<1>7. CASE m # 0
  <2>1. s # <<>> /\ stack' = [s EXCEPT ![m].children = Append(@, node)] /\ root' = root
    BY <1>2, <1>7 DEF Attach, node, e
  <2> DEFINE f == [s EXCEPT ![m].children = Append(@, node)]
  <2>2. DOMAIN s = 1 .. m /\ m \in 1 .. m
    BY <1>1, <1>7 DEF m
  <2>3. \A k \in 1 .. m : f[k] = OpenElements(c)[k]
    <3> SUFFICES ASSUME NEW k \in 1 .. m PROVE f[k] = OpenElements(c)[k]
      OBVIOUS
    <3>1. CASE k = m
      <4>1. f[k] = [s[k] EXCEPT !.children = Append(@, node)]
        BY <2>2, <3>1
      <4> QED
        BY <1>3, <3>1, <4>1
    <3>2. CASE k # m
      BY <1>3, <2>2, <3>2
    <3> QED
      BY <3>1, <3>2
  <2>4. f = [k \in 1 .. m |-> f[k]]
    BY <2>2
  <2> HIDE DEF f
  <2>5. f = OpenElements(c)
    BY <1>4, <2>3, <2>4
  <2> QED
    BY <1>5, <1>7, <2>1, <2>5 DEF f
<1> QED
  BY <1>6, <1>7

(***************************************************************************)
(* The state is what the document read so far makes it.                    *)
(***************************************************************************)
StateOf(d) == stack = OpenElements(d) /\ run = PendingRun(d)

XmlInv ==
  /\ doc \in Seq(Event) /\ Nested(doc) /\ root = FirstTree(doc)
  /\ ~ended => StateOf(doc)

LEMMA XmlInvInit == Init => XmlInv
<1> SUFFICES ASSUME Init PROVE XmlInv
  OBVIOUS
<1>1. doc = <<>> /\ stack = <<>> /\ root = <<>> /\ run = << <<>> >>
  BY DEF Init
<1>2. doc \in Seq(Event) /\ Len(doc) = 0
  BY <1>1
<1>3. Level(doc, 1) = 0
  BY FirstLevel
<1>4. Nested(doc) /\ Here(doc) = 0
  BY <1>2, <1>3 DEF Nested, Here
<1>5. Closed(doc) = {}
  BY <1>1 DEF Closed
<1>6. OpenElements(doc) = <<>>
  BY <1>4 DEF OpenElements
<1>7. Run(doc, 1) = {}
  BY DEF Run
<1>8. RunText(doc, 1) = <<>>
  <2> DEFINE f == [n \in 1 .. 1 - 1 |-> IF n \in Run(doc, 1) THEN Characters(doc, n) ELSE <<>>]
  <2>1. f = <<>>
    OBVIOUS
  <2>2. RunText(doc, 1) = FlattenSeq(f)
    BY Zenon DEF RunText
  <2> HIDE DEF f
  <2>3. FlattenSeq(<<>>) = <<>>
    BY DEF FlattenSeq
  <2> QED
    BY <2>1, <2>2, <2>3
<1>9. PendingRun(doc) = << <<>> >>
  BY <1>2, <1>7, <1>8 DEF PendingRun, IsDropped
<1> QED
  BY <1>1, <1>2, <1>4, <1>5, <1>6, <1>9 DEF XmlInv, StateOf, FirstTree

\* An event is read.
LEMMA Reads ==
  ASSUME XmlInv, NEW e \in Event, ReadEvent(e)
  PROVE  /\ OneMore(doc', doc) /\ doc'[Len(doc) + 1] = e /\ Nested(doc) /\ doc' \in Seq(Event)
         /\ doc \in Seq(Event) /\ StateOf(doc) /\ root = FirstTree(doc)
<1>1. doc \in Seq(Event) /\ Nested(doc) /\ doc' = Append(doc, e) /\ ~ended
  BY DEF XmlInv, ReadEvent
<1>2. /\ doc' \in Seq(Event) /\ Len(doc') = Len(doc) + 1
      /\ \A i \in 1 .. Len(doc) : doc'[i] = doc[i]
      /\ doc'[Len(doc) + 1] = e
  BY <1>1, Longer
<1> QED
  BY <1>1, <1>2 DEF XmlInv, OneMore

LEMMA AfterRead ==
  ASSUME XmlInv, NEW e \in Event, ReadEvent(e), Here(doc') >= 0,
         root' = FirstTree(doc'), stack' = OpenElements(doc'), run' = PendingRun(doc')
  PROVE  XmlInv'
<1>1. OneMore(doc', doc) /\ Nested(doc) /\ doc' \in Seq(Event)
  BY Reads
<1>2. Nested(doc')
  BY <1>1, StaysNested
<1> QED
  BY <1>1, <1>2 DEF XmlInv, StateOf

\* Character data.
LEMMA DataStep ==
  ASSUME XmlInv, NEW e \in Event, ReadEvent(e), e.kind \in {"Text", "Entity", "UnknownEntity"},
         stack' = stack, root' = root,
         run' = IF run = <<>> \/ e.kind = "UnknownEntity" THEN <<>>
                ELSE <<Head(run) \o (IF e.kind = "Text" THEN e.text ELSE <<"x">>)>>
  PROVE  XmlInv'
<1> DEFINE c == doc'
           n == Len(doc)
<1>1. /\ OneMore(c, doc) /\ c[n + 1] = e /\ Nested(doc) /\ c \in Seq(Event)
      /\ doc \in Seq(Event) /\ StateOf(doc) /\ root = FirstTree(doc)
  BY Reads
<1> HIDE DEF c
<1>2. IsData(c, n + 1) /\ ~Closes(c, n + 1)
  BY <1>1 DEF IsData, Closes
<1>3. OpenElements(c) = OpenElements(doc) /\ Here(c) = Here(doc) /\ Here(doc) \in Nat
  BY <1>1, <1>2, DataOpens, HereStep
<1>4. FirstTree(c) = FirstTree(doc)
  BY <1>1, <1>2, FirstTreeStep
<1>5. PendingRun(c) = IF IsDropped(doc) \/ e.kind = "UnknownEntity" THEN <<>>
                      ELSE <<RunText(doc, n + 1) \o Characters(c, n + 1)>>
  BY <1>1, <1>2, DataRun
<1>6. /\ run = <<>> <=> IsDropped(doc)
      /\ ~IsDropped(doc) => Head(run) = RunText(doc, n + 1)
  BY <1>1 DEF StateOf, PendingRun
<1>7. Characters(c, n + 1) = IF e.kind = "Text" THEN e.text ELSE <<"x">>
  BY <1>1 DEF Characters
<1>8. run' = PendingRun(c)
  <2> DEFINE x == IF e.kind = "Text" THEN e.text ELSE <<"x">>
  <2>1. /\ run' = IF run = <<>> \/ e.kind = "UnknownEntity" THEN <<>> ELSE <<Head(run) \o x>>
        /\ Characters(c, n + 1) = x
    BY <1>7
  <2> HIDE DEF x
  <2> QED
    BY <1>5, <1>6, <2>1
<1>9. stack' = OpenElements(c) /\ root' = FirstTree(c)
  BY <1>1, <1>3, <1>4 DEF StateOf
<1> QED
  <2>1. Here(doc') >= 0
    BY <1>3 DEF c
  <2>2. root' = FirstTree(doc') /\ stack' = OpenElements(doc') /\ run' = PendingRun(doc')
    BY <1>8, <1>9 DEF c
  <2> QED
    BY <2>1, <2>2, AfterRead

\* What ends a run flushes it.
LEMMA MarkupStep ==
  ASSUME XmlInv, NEW e \in Event, ReadEvent(e), e.kind \notin {"Text", "Entity", "UnknownEntity"}
  PROVE  /\ PendingRun(doc') = << <<>> >> /\ FlushText(stack) = Flushed(doc)
         /\ OneMore(doc', doc) /\ doc'[Len(doc) + 1] = e /\ Nested(doc)
         /\ ~IsData(doc', Len(doc) + 1)
         /\ Flushed(doc) \in Seq({Flushed(doc)[k] : k \in 1 .. Here(doc)})
         /\ Len(Flushed(doc)) = Here(doc) /\ (Flushed(doc) = <<>> <=> Here(doc) = 0)
         /\ (stack = <<>> <=> Here(doc) = 0) /\ Here(doc) \in Nat /\ root = FirstTree(doc)
<1>1. /\ OneMore(doc', doc) /\ doc'[Len(doc) + 1] = e /\ Nested(doc) /\ doc' \in Seq(Event)
      /\ doc \in Seq(Event) /\ StateOf(doc) /\ root = FirstTree(doc)
  BY Reads
<1>2. ~IsData(doc', Len(doc) + 1)
  BY <1>1 DEF IsData
<1>3. FlushText(stack) = Flushed(doc)
  BY <1>1, FlushIs DEF StateOf
<1>4. PendingRun(doc') = << <<>> >>
  BY <1>1, <1>2, OtherRun
<1> DEFINE f == Flushed(doc)
           g == OpenElements(doc)
           m == Here(doc)
           S == {f[k] : k \in 1 .. m}
           T == {g[k] : k \in 1 .. m}
<1>5. m \in Nat /\ f = [k \in 1 .. m |-> f[k]] /\ g = [k \in 1 .. m |-> g[k]]
  BY <1>1, FlushedShape
<1>6. stack = g
  BY <1>1 DEF StateOf
<1>7. f \in Seq(S) /\ Len(f) = m /\ (f = <<>> <=> m = 0) /\ (g = <<>> <=> m = 0)
  <2>1. (\A k \in 1 .. m : f[k] \in S) /\ (\A k \in 1 .. m : g[k] \in T)
    OBVIOUS
  <2> HIDE DEF f, g, m, S, T
  <2> QED
    BY <1>5, <2>1, ASequence
<1> HIDE DEF f, g, m
<1> QED
  BY <1>1, <1>2, <1>3, <1>4, <1>5, <1>6, <1>7 DEF f, g, m

LEMMA XmlInvStart ==
  ASSUME XmlInv, NEW name \in Names, StartElement(name) PROVE XmlInv'
<1> DEFINE ev == [kind |-> "Start", name |-> name]
           c == doc'
           n == Len(doc)
           l == Here(doc)
           f == Flushed(doc)
<1>1. ev \in Event /\ ev.kind = "Start" /\ ev.name = name
  BY DEF Event
<1>2. ReadEvent(ev) /\ stack' = Append(FlushText(stack), Node(name)) /\ run' = << <<>> >> /\ root' = root
  BY DEF StartElement
<1>3. ev.kind \notin {"Text", "Entity", "UnknownEntity"}
  BY <1>1
<1> HIDE DEF ev
<1>4. /\ PendingRun(c) = << <<>> >> /\ FlushText(stack) = f
      /\ OneMore(c, doc) /\ c[n + 1] = ev /\ Nested(doc) /\ ~IsData(c, n + 1)
      /\ f \in Seq({f[k] : k \in 1 .. l}) /\ Len(f) = l /\ l \in Nat /\ root = FirstTree(doc)
  BY <1>1, <1>2, <1>3, MarkupStep
<1> HIDE DEF c, f
<1>5. Here(c) = l + 1 /\ ~Closes(c, n + 1) /\ c[n + 1].kind # "CData" /\ Len(c) = n + 1 /\ n \in Nat
  <2>1. Here(c) = l + 1
    BY <1>1, <1>4, HereStep
  <2>2. ~Closes(c, n + 1) /\ c[n + 1].kind # "CData"
    BY <1>1, <1>4 DEF Closes
  <2>3. Len(c) = n + 1 /\ n \in Nat
    BY <1>4 DEF OneMore
  <2> QED
    BY <2>1, <2>2, <2>3
<1>6. FirstTree(c) = root
  BY <1>4, <1>5, FirstTreeStep
<1>7. \A k \in 1 .. l : OpenElements(c)[k] = f[k]
  <2> SUFFICES ASSUME NEW k \in 1 .. l PROVE OpenElements(c)[k] = f[k]
    OBVIOUS
  <2>1. k \in 1 .. Here(doc) /\ k <= Here(c)
    BY <1>4, <1>5
  <2> QED
    BY <1>4, <1>5, <2>1, FlushedKeeps DEF f
<1>8. OpenElements(c)[l + 1] = Node(name)
  <2>1. IsOpen(c, n + 2, l + 1, n + 1)
    <3>1. Level(c, n + 1) = l /\ Level(c, n + 2) = l + 1
      BY <1>4, <1>5, HereStep
    <3>2. n + 1 \in 1 .. (n + 2) - 1 /\ \A q \in (n + 1) + 1 .. n + 2 : q = n + 2
      BY <1>5
    <3> QED
      BY <1>1, <1>4, <3>1, <3>2 DEF IsOpen
  <2>2. OpenAt(c, Len(c) + 1, l + 1) = n + 1
    <3>1. n + 2 \in Nat \ {0} /\ l + 1 \in Nat \ {0} /\ Len(c) + 1 = n + 2
      BY <1>4, <1>5
    <3> QED
      BY <2>1, <3>1, OpenFound
  <2>3. Partial(c, n + 1) = [name |-> ev.name, text |-> <<>>, children |-> <<>>, at |-> n + 1]
    BY <1>4, JustBegun
  <2>4. l + 1 \in 1 .. Here(c)
    BY <1>4, <1>5
  <2> QED
    BY <1>1, <2>2, <2>3, <2>4 DEF OpenElements, Node
<1>9. stack' = OpenElements(c)
  <2> DEFINE s == Append(f, Node(name))
             T == {f[k] : k \in 1 .. l} \cup {Node(name)}
  <2>1. f \in Seq(T) /\ Node(name) \in T
    <3>1. {f[k] : k \in 1 .. l} \subseteq T
      OBVIOUS
    <3> QED
      BY <1>4, <3>1, WiderSeq
  <2> HIDE DEF T
  <2>2. s \in Seq(T) /\ Len(s) = l + 1 /\ s[l + 1] = Node(name) /\ \A k \in 1 .. l : s[k] = f[k]
    BY <1>4, <2>1, Longer
  <2>3. s = [k \in 1 .. l + 1 |-> s[k]]
    <3> HIDE DEF s
    <3>1. DOMAIN s = 1 .. l + 1 /\ s = [k \in DOMAIN s |-> s[k]]
      BY <2>2
    <3> QED
      BY <3>1
  <2>4. stack' = s
    BY <1>2, <1>4
  <2> HIDE DEF s
  <2>5. OpenElements(c) = [k \in 1 .. l + 1 |-> OpenElements(c)[k]]
    BY <1>5 DEF OpenElements
  <2>6. \A k \in 1 .. l + 1 : k \in 1 .. l \/ k = l + 1
    BY <1>4
  <2>7. \A k \in 1 .. l + 1 : OpenElements(c)[k] = s[k]
    BY <1>7, <1>8, <2>2, <2>6
  <2> QED
    BY <2>3, <2>4, <2>5, <2>7
<1> QED
  <2>1. /\ Here(doc') >= 0 /\ root' = FirstTree(doc') /\ stack' = OpenElements(doc')
        /\ run' = PendingRun(doc')
    BY <1>2, <1>4, <1>5, <1>6, <1>9 DEF c
  <2> QED
    BY <1>1, <1>2, <2>1, AfterRead

LEMMA XmlInvEmpty ==
  ASSUME XmlInv, NEW name \in Names, EmptyElement(name) PROVE XmlInv'
<1> DEFINE ev == [kind |-> "Empty", name |-> name]
           c == doc'
           n == Len(doc)
           l == Here(doc)
           f == Flushed(doc)
<1>1. ev \in Event /\ ev.kind = "Empty" /\ ev.name = name
  BY DEF Event
<1>2. ReadEvent(ev) /\ Attach(FlushText(stack), Node(name)) /\ run' = << <<>> >>
  BY DEF EmptyElement
<1>3. ev.kind \notin {"Text", "Entity", "UnknownEntity"}
  BY <1>1
<1> HIDE DEF ev
<1>4. /\ PendingRun(c) = << <<>> >> /\ FlushText(stack) = f
      /\ OneMore(c, doc) /\ c[n + 1] = ev /\ Nested(doc) /\ l \in Nat /\ root = FirstTree(doc)
  BY <1>1, <1>2, <1>3, MarkupStep
<1> HIDE DEF c
<1>5. Here(c) = l /\ Closes(c, n + 1) /\ Here(c) >= 0
  BY <1>1, <1>4, HereStep DEF Closes
<1>6. Trees(c)[n + 1] = Node(name)
  BY <1>1, <1>4, JustBegun DEF Node
<1>7. f = [k \in 1 .. Here(c) |-> f[k]]
  BY <1>5 DEF Flushed
<1>8. Attach(f, Trees(c)[n + 1])
  BY <1>2, <1>4, <1>6
<1>9. stack' = OpenElements(c) /\ root' = FirstTree(c)
  BY <1>4, <1>5, <1>7, <1>8, CloseStep
<1> QED
  <2>1. /\ Here(doc') >= 0 /\ root' = FirstTree(doc') /\ stack' = OpenElements(doc')
        /\ run' = PendingRun(doc')
    BY <1>2, <1>4, <1>5, <1>9 DEF c
  <2> QED
    BY <1>1, <1>2, <2>1, AfterRead

LEMMA XmlInvEnd ==
  ASSUME XmlInv, EndElement PROVE XmlInv'
<1> DEFINE ev == [kind |-> "End"]
           c == doc'
           n == Len(doc)
           l == Here(doc)
           f == Flushed(doc)
<1>1. ev \in Event /\ ev.kind = "End"
  BY DEF Event
<1>2. /\ ReadEvent(ev) /\ stack # <<>> /\ run' = << <<>> >>
      /\ Attach(Front(FlushText(stack)), Last(FlushText(stack)))
  BY DEF EndElement
<1>3. ev.kind \notin {"Text", "Entity", "UnknownEntity"}
  BY <1>1
<1> HIDE DEF ev
<1>4. /\ PendingRun(c) = << <<>> >> /\ FlushText(stack) = f
      /\ OneMore(c, doc) /\ c[n + 1] = ev /\ Nested(doc) /\ l \in Nat /\ root = FirstTree(doc)
      /\ f \in Seq({f[k] : k \in 1 .. l}) /\ Len(f) = l /\ (stack = <<>> <=> l = 0)
  BY <1>1, <1>2, <1>3, MarkupStep
<1> HIDE DEF c
<1>5. l > 0 /\ Here(c) = l - 1 /\ Closes(c, n + 1) /\ Here(c) >= 0
  BY <1>1, <1>2, <1>4, HereStep DEF Closes
<1>6. Trees(c)[n + 1] = f[l]
  BY <1>1, <1>4, <1>5, EndTree
<1>7. Last(f) = f[l]
  BY <1>4 DEF Last
<1> DEFINE s == Front(f)
<1>8. s = [k \in 1 .. Here(c) |-> Flushed(doc)[k]]
  <2>1. s = SubSeq(f, 1, l - 1)
    BY <1>4 DEF Front
  <2> DEFINE T == {f[k] : k \in 1 .. l}
  <2>2. f \in Seq(T)
    BY <1>4
  <2> HIDE DEF T, f
  <2>3. SubSeq(f, 1, l - 1) = [k \in 1 .. l - 1 |-> f[k]]
    BY <1>4, <1>5, <2>2
  <2> QED
    BY <1>5, <2>1, <2>3 DEF f
<1>9. Attach(s, Trees(c)[n + 1])
  BY <1>2, <1>4, <1>6, <1>7
<1> HIDE DEF s
<1>10. stack' = OpenElements(c) /\ root' = FirstTree(c)
  BY <1>4, <1>5, <1>8, <1>9, CloseStep
<1> QED
  <2>1. /\ Here(doc') >= 0 /\ root' = FirstTree(doc') /\ stack' = OpenElements(doc')
        /\ run' = PendingRun(doc')
    BY <1>2, <1>4, <1>5, <1>10 DEF c
  <2> QED
    BY <1>1, <1>2, <2>1, AfterRead

LEMMA XmlInvText ==
  ASSUME XmlInv, NEW t \in Texts, CharacterData(t) PROVE XmlInv'
<1> DEFINE ev == [kind |-> "Text", text |-> t]
<1>1. t \in Seq(Chars)
  BY XmlDomAssumption
<1>2. ev \in Event /\ ev.kind = "Text" /\ ev.text = t
  BY <1>1 DEF Event
<1>3. /\ ReadEvent(ev) /\ stack' = stack /\ root' = root
      /\ run' = IF run = <<>> THEN run ELSE <<Head(run) \o t>>
  BY DEF CharacterData
<1> HIDE DEF ev
<1> QED
  BY <1>2, <1>3, DataStep

LEMMA XmlInvEntity ==
  ASSUME XmlInv, EntityReference PROVE XmlInv'
<1> DEFINE ev == [kind |-> "Entity"]
<1>1. ev \in Event /\ ev.kind = "Entity"
  BY DEF Event
<1>2. /\ ReadEvent(ev) /\ stack' = stack /\ root' = root
      /\ run' = IF run = <<>> THEN run ELSE <<Append(Head(run), "x")>>
  BY DEF EntityReference
<1> HIDE DEF ev
<1>3. run # <<>> => Append(Head(run), "x") = Head(run) \o <<"x">>
  <2> SUFFICES ASSUME run # <<>> PROVE Append(Head(run), "x") = Head(run) \o <<"x">>
    OBVIOUS
  <2>1. run = PendingRun(doc) /\ doc \in Seq(Event)
    BY <1>1, <1>2, Reads DEF StateOf
  <2>2. Head(run) = RunText(doc, Len(doc) + 1)
    BY <2>1 DEF PendingRun
  <2>3. Len(doc) + 1 \in 1 .. Len(doc) + 1
    BY <2>1
  <2>4. Head(run) \in Seq(Chars)
    BY <2>1, <2>2, <2>3, RunTextShape
  <2>5. "x" \in Chars
    BY Zenon DEF Chars
  <2> QED
    BY <2>4, <2>5
<1> QED
  BY <1>1, <1>2, <1>3, DataStep

LEMMA XmlInvUnknown ==
  ASSUME XmlInv, UnknownEntity PROVE XmlInv'
<1> DEFINE ev == [kind |-> "UnknownEntity"]
<1>1. ev \in Event /\ ev.kind = "UnknownEntity"
  BY DEF Event
<1>2. ReadEvent(ev) /\ stack' = stack /\ root' = root /\ run' = <<>>
  BY DEF UnknownEntity
<1> HIDE DEF ev
<1> QED
  BY <1>1, <1>2, DataStep

\* A CDATA section, a comment: no element is opened or closed.
LEMMA FlushOnly ==
  ASSUME XmlInv, NEW e \in Event, ReadEvent(e), e.kind \in {"CData", "Other"},
         root' = root, run' = << <<>> >>,
         stack' = LET s == FlushText(stack)
                  IN IF s = <<>> \/ e.kind = "Other" THEN s
                     ELSE [s EXCEPT ![Len(s)].text = @ \o Trim(e.text)]
  PROVE  XmlInv'
<1> DEFINE c == doc'
           n == Len(doc)
           l == Here(doc)
           f == Flushed(doc)
           g == OpenElements(c)
<1>1. e.kind \notin {"Text", "Entity", "UnknownEntity"}
  OBVIOUS
<1>2. /\ PendingRun(c) = << <<>> >> /\ FlushText(stack) = f
      /\ OneMore(c, doc) /\ c[n + 1] = e /\ Nested(doc) /\ ~IsData(c, n + 1)
      /\ Len(f) = l /\ (f = <<>> <=> l = 0) /\ l \in Nat /\ root = FirstTree(doc)
  BY <1>1, MarkupStep
<1> HIDE DEF c
<1>3. Here(c) = l /\ ~Closes(c, n + 1)
  BY <1>2, HereStep DEF Closes
<1>4. FirstTree(c) = root
  BY <1>2, <1>3, FirstTreeStep
<1>5. f = [k \in 1 .. l |-> f[k]] /\ g = [k \in 1 .. l |-> g[k]]
  BY <1>3 DEF Flushed, OpenElements
<1>6. ASSUME NEW k \in 1 .. l
      PROVE  /\ f[k] = [name |-> f[k].name, text |-> f[k].text, children |-> f[k].children, at |-> f[k].at]
             /\ g[k] = [name |-> f[k].name,
                        text |-> IF k = l /\ e.kind = "CData" THEN f[k].text \o Trim(e.text) ELSE f[k].text,
                        children |-> f[k].children, at |-> f[k].at]
  <2> DEFINE s == f[k]
  <2>1. s = [name |-> s.name, text |-> s.text, children |-> s.children, at |-> s.at]
    BY DEF Flushed
  <2>2. k \in 1 .. Here(doc) /\ k <= Here(c) /\ s = Flushed(doc)[k]
    BY <1>3
  <2> HIDE DEF s
  <2>3. OpenElements(c)[k] = GrownFlushed(c, doc, k, s)
    BY <1>2, <2>2, FlushedStep
  <2> QED
    BY <1>2, <1>3, <2>1, <2>3 DEF GrownFlushed, s
<1> HIDE DEF f, g
<1>7. ASSUME e.kind = "Other" \/ f = <<>> PROVE stack' = g
  <2>1. stack' = f
    BY <1>2, <1>7
  <2>2. ASSUME NEW k \in 1 .. l PROVE g[k] = f[k]
    <3>1. e.kind # "CData"
      BY <1>2, <1>7
    <3> QED
      BY <1>6, <3>1
  <2> QED
    BY <1>5, <2>1, <2>2
<1>8. ASSUME e.kind = "CData", f # <<>> PROVE stack' = g
  <2> DEFINE t == Trim(e.text)
             h == [f EXCEPT ![l].text = @ \o t]
  <2>1. stack' = h
    BY <1>2, <1>8
  <2>2. DOMAIN f = 1 .. l /\ l \in 1 .. l
    BY <1>2, <1>5, <1>8
  <2>3. ASSUME NEW k \in 1 .. l PROVE h[k] = g[k]
    <3> DEFINE r == f[k]
    <3>1. /\ r = [name |-> r.name, text |-> r.text, children |-> r.children, at |-> r.at]
          /\ g[k] = [name |-> r.name, text |-> IF k = l THEN r.text \o t ELSE r.text,
                     children |-> r.children, at |-> r.at]
      BY <1>6, <1>8
    <3>2. h[k] = IF k = l THEN [r EXCEPT !.text = @ \o t] ELSE r
      <4> HIDE DEF t
      <4> QED
        BY <2>2
    <3> HIDE DEF r, h, t
    <3>3. CASE k = l
      <4>1. h[k] = [r EXCEPT !.text = @ \o t]
        BY <3>2, <3>3
      <4>2. [r EXCEPT !.text = @ \o t]
              = [name |-> r.name, text |-> r.text \o t, children |-> r.children, at |-> r.at]
        <5>1. r = [name |-> r.name, text |-> r.text, children |-> r.children, at |-> r.at]
          BY <3>1
        <5> DEFINE y == r.text \o t
        <5> HIDE DEF y
        <5>2. [r EXCEPT !.text = y]
                = [name |-> r.name, text |-> y, children |-> r.children, at |-> r.at]
          BY <5>1
        <5> QED
          BY <5>2 DEF y
      <4> QED
        BY <3>1, <3>3, <4>1, <4>2
    <3>4. CASE k # l
      BY <3>1, <3>2, <3>4
    <3> QED
      BY <3>3, <3>4
  <2>4. h = [k \in 1 .. l |-> h[k]]
    BY <2>2
  <2> HIDE DEF h
  <2> QED
    BY <1>5, <2>1, <2>3, <2>4
<1> QED
  <2>1. stack' = g
    BY <1>7, <1>8 DEF f
  <2>2. /\ Here(doc') >= 0 /\ root' = FirstTree(doc') /\ stack' = OpenElements(doc')
        /\ run' = PendingRun(doc')
    <3>1. Here(c) >= 0 /\ root' = FirstTree(c) /\ stack' = OpenElements(c) /\ run' = PendingRun(c)
      <4>1. Here(c) >= 0
        BY <1>2, <1>3
      <4>2. root' = FirstTree(c)
        BY <1>4
      <4>3. stack' = OpenElements(c)
        BY <2>1 DEF g
      <4>4. run' = PendingRun(c)
        BY <1>2
      <4> QED
        BY <4>1, <4>2, <4>3, <4>4
    <3> QED
      BY <3>1 DEF c
  <2> QED
    BY <2>2, AfterRead

LEMMA XmlInvCData ==
  ASSUME XmlInv, NEW t \in Texts, CDataSection(t) PROVE XmlInv'
<1> DEFINE ev == [kind |-> "CData", text |-> t]
<1>1. t \in Seq(Chars)
  BY XmlDomAssumption
<1>2. ev \in Event /\ ev.kind = "CData" /\ ev.text = t
  BY <1>1 DEF Event
<1>3. /\ ReadEvent(ev) /\ root' = root /\ run' = << <<>> >>
      /\ stack' = LET s == FlushText(stack)
                  IN IF s = <<>> THEN s ELSE [s EXCEPT ![Len(s)].text = @ \o Trim(t)]
  BY DEF CDataSection
<1> HIDE DEF ev
<1> QED
  BY <1>2, <1>3, FlushOnly

LEMMA XmlInvOther ==
  ASSUME XmlInv, OtherMarkup PROVE XmlInv'
<1> DEFINE ev == [kind |-> "Other"]
<1>1. ev \in Event /\ ev.kind = "Other"
  BY DEF Event
<1>2. ReadEvent(ev) /\ stack' = FlushText(stack) /\ root' = root /\ run' = << <<>> >>
  BY DEF OtherMarkup
<1> HIDE DEF ev
<1> QED
  BY <1>1, <1>2, FlushOnly

LEMMA XmlInvNext == XmlInv /\ [Next]_vars => XmlInv'
<1> SUFFICES ASSUME XmlInv, [Next]_vars PROVE XmlInv'
  OBVIOUS
<1>1. ASSUME NEW name \in Names, StartElement(name) PROVE XmlInv'
  BY <1>1, XmlInvStart
<1>2. ASSUME NEW name \in Names, EmptyElement(name) PROVE XmlInv'
  BY <1>2, XmlInvEmpty
<1>3. CASE EndElement
  BY <1>3, XmlInvEnd
<1>4. CASE EntityReference
  BY <1>4, XmlInvEntity
<1>5. CASE UnknownEntity
  BY <1>5, XmlInvUnknown
<1>6. CASE OtherMarkup
  BY <1>6, XmlInvOther
<1>7. CASE EndOfInput
  BY <1>7 DEF EndOfInput, XmlInv
<1>8. ASSUME NEW t \in Texts, CharacterData(t) PROVE XmlInv'
  BY <1>8, XmlInvText
<1>9. ASSUME NEW t \in Texts, CDataSection(t) PROVE XmlInv'
  BY <1>9, XmlInvCData
<1>10. CASE UNCHANGED vars
  BY <1>10 DEF vars, XmlInv, StateOf
<1> QED
  BY <1>1, <1>2, <1>3, <1>4, <1>5, <1>6, <1>7, <1>8, <1>9, <1>10 DEF Next

\* dom::parse returns the tree of the document's first element, whatever the
\* names, their nesting and the texts, of any length: as long as the loop runs,
\* its stack and run are what the events read so far make of them.
THEOREM FirstTreeReturned == Spec => []RootIsFirstTree
<1>1. XmlInv => RootIsFirstTree
  BY DEF XmlInv, RootIsFirstTree, FirstTree
<1> QED
  BY <1>1, XmlInvInit, XmlInvNext, PTL DEF Spec
=============================================================================
