-------------------------- MODULE ValidationProofs --------------------------
(***************************************************************************)
(* What a green ok means and when one is given, for messages of any length *)
(* over any lines and elements, and any text in front of a document's      *)
(* body.  The rules and the readers look at a message in ways of their     *)
(* own, so each property is proved in three parts: what is found of the    *)
(* type in a text (TypeOfWhole), what the rules and the rows of a document *)
(* say of its elements (Pacs008Agrees, Pain001Agrees, CamtAgrees), and     *)
(* what the rules and the rows of an MT say of its fields (OkMtIsSound,    *)
(* SoundMtIsOk).                                                           *)
(***************************************************************************)
EXTENDS Validation, SequenceLemmas

\* The names that are looked up, and what they are not.
LEMMA Names ==
  /\ \A name \in DOMAIN LocalToMsg : LocalToMsg[name] \in Namespaces /\ name \notin Brackets
  /\ {"Document", ">", "<"} \cap (DOMAIN LocalToMsg \cup Namespaces) = {}
  /\ "<" # ">" /\ {"Document", "<", ">"} \cap Brackets = {}
  /\ "head.001" \in Namespaces
<1>1. DOMAIN LocalToMsg = {"FIToFICstmrCdtTrf", "FIToFIPmtStsRpt", "CstmrCdtTrfInitn",
                           "BkToCstmrStmt", "BkToCstmrDbtCdtNtfctn", "BkToCstmrAcctRpt"}
  BY DEF LocalToMsg
<1>2. Range(LocalToMsg) = {"pacs.008", "pacs.002", "pain.001", "camt.053", "camt.054", "camt.052"}
  BY DEF LocalToMsg, Range
<1> QED
  BY <1>1, <1>2 DEF Namespaces, Range, Brackets

\* The first place behind p where the word stands, at q or in front of it.
IsFirst(text, p, word, q, f) ==
  f \in p + 1 .. q /\ text[f] = word /\ \A r \in p + 1 .. f - 1 : text[r] # word

\* That is what str::find finds.
LEMMA FirstBehind ==
  ASSUME NEW text, text \in Seq(STRING), NEW p, p \in Nat, NEW word,
         NEW q, q \in p + 1 .. Len(text), text[q] = word
  PROVE  IsFirst(text, p, word, q, FindAfter(text, p, word))
<1> DEFINE found == {r \in p + 1 .. Len(text) : text[r] = word}
<1>1. q \in found /\ Len(text) \in Nat
  OBVIOUS
<1>2. \A r \in found : r \in 0 .. Len(text)
  OBVIOUS
<1>3. FindAfter(text, p, word) = Min(found)
  BY <1>1 DEF FindAfter
<1>4. Min(found) \in found /\ \A r \in found : Min(found) <= r
  <2> HIDE DEF found
  <2> QED BY <1>1, <1>2, LeastOf
<1>5. \A r \in p + 1 .. Min(found) - 1 : text[r] # word
  <2> SUFFICES ASSUME NEW r \in p + 1 .. Min(found) - 1, text[r] = word PROVE FALSE
    OBVIOUS
  <2>1. Min(found) \in p + 1 .. Len(text)
    BY <1>4
  <2>2. r \in p + 1 .. Len(text) /\ r < Min(found)
    BY <2>1
  <2>3. r \in found
    BY <2>2
  <2> HIDE DEF found
  <2> QED BY <1>4, <2>1, <2>2, <2>3
<1>6. Min(found) \in p + 1 .. q /\ text[Min(found)] = word
  BY <1>1, <1>4
<1> QED
  BY <1>3, <1>5, <1>6 DEF IsFirst

\* What IsWhole says of the places in a text: the tag of Document, the name in
\* the body's tag, and what every bracket between them begins.
Between(text, tag, body) ==
  \A p \in tag + 3 .. body - 1 :
    text[p] = "<" => /\ \E q \in tag + 3 .. p : /\ text[q] = "<" /\ text[q + 1] \in Brackets
                                                /\ \A r \in q .. p : text[r] # ">"
                     /\ \E r \in p .. body - 1 : text[r] = ">"

WholeText(text, type, tag, body) ==
  /\ text \in Seq(STRING) /\ tag \in 2 .. Len(text) /\ body = Len(text) - 2
  /\ tag + 3 <= body /\ text[tag] = "Document" /\ text[tag - 1] = "<"
  /\ text[tag + 1] = type /\ text[tag + 2] = ">"
  /\ \A p \in 1 .. tag - 1 : text[p] \notin DOMAIN LocalToMsg \cup (Namespaces \ {"head.001"})
  /\ Between(text, tag, body)
  /\ text[body] = "<" /\ text[body + 1] \in DOMAIN LocalToMsg
  /\ LocalToMsg[text[body + 1]] = type /\ text[body + 2] = ">"

LEMMA WholeAt ==
  ASSUME NEW text, NEW type, IsWhole(text, type)
  PROVE  WholeText(text, type, DocumentTag(text), Len(text) - 2)
<1> DEFINE T == DocumentTags(text)
<1>1. text \in Seq(STRING) /\ T # {}
  BY DEF IsWhole
<1>2. Len(text) \in Nat /\ \A p \in T : p \in 0 .. Len(text)
  BY <1>1 DEF DocumentTags
<1>3. DocumentTag(text) \in T
  <2> HIDE DEF T
  <2> QED BY <1>1, <1>2, LeastOf DEF DocumentTag, T
<1>4. /\ DocumentTag(text) \in 2 .. Len(text) /\ text[DocumentTag(text)] = "Document"
      /\ text[DocumentTag(text) - 1] = "<"
  BY <1>3 DEF DocumentTags
<1> QED
  BY <1>4 DEF IsWhole, WholeText, Between

\* The loop of first_business_element is at the end of a tag in front of the
\* body, and no earlier than Document's if that is where Document is found.
InFront(text, tag, body, end) ==
  /\ end \in 1 .. body - 1 /\ text[end] = ">"
  /\ FindAfter(text, 0, "Document") = tag => end >= tag + 2

\* It begins there.
LEMMA BeginsInFront ==
  ASSUME NEW text, NEW type, NEW tag, NEW body, WholeText(text, type, tag, body)
  PROVE  InFront(text, tag, body, DocumentEnd(text))
<1> DEFINE doc == FindAfter(text, 0, "Document")
<1>1. text \in Seq(STRING) /\ tag \in 2 .. Len(text) /\ text[tag] = "Document"
  BY DEF WholeText
<1>2. body \in Nat /\ tag \in Nat /\ tag + 3 <= body /\ body <= Len(text)
  BY <1>1 DEF WholeText
<1>3. doc \in 1 .. tag /\ text[doc] = "Document"
  <2>1. text \in Seq(STRING) /\ 0 \in Nat /\ tag \in 0 + 1 .. Len(text) /\ text[tag] = "Document"
    BY <1>1
  <2>2. IsFirst(text, 0, "Document", tag, doc)
    BY ONLY Zenon, <2>1, FirstBehind
  <2> HIDE DEF doc
  <2> QED
    BY <2>2 DEF IsFirst
<1>4. DocumentEnd(text) = FindAfter(text, doc, ">")
  BY <1>2, <1>3 DEF DocumentEnd
<1> HIDE DEF doc
<1>5. doc \in Nat /\ tag + 2 \in doc + 1 .. Len(text) /\ text[tag + 2] = ">"
  BY <1>1, <1>2, <1>3 DEF WholeText
<1>6. DocumentEnd(text) \in doc + 1 .. tag + 2 /\ text[DocumentEnd(text)] = ">"
  <2> DEFINE q == tag + 2
  <2>1. q \in doc + 1 .. Len(text) /\ text[q] = ">"
    BY <1>5
  <2> HIDE DEF q
  <2>2. text \in Seq(STRING) /\ doc \in Nat
    BY <1>1, <1>5
  <2>3. IsFirst(text, doc, ">", q, FindAfter(text, doc, ">"))
    BY ONLY Zenon, <2>1, <2>2, FirstBehind
  <2> QED
    BY <1>4, <2>3 DEF q, IsFirst
<1>7. text[tag + 1] # ">"
  <2>1. text[tag + 1] \in Namespaces
    BY Names DEF WholeText
  <2> QED
    BY <2>1, Names
<1>8. doc = tag => DocumentEnd(text) >= tag + 2
  BY <1>2, <1>6, <1>7
<1> QED
  BY <1>2, <1>3, <1>6, <1>8 DEF InFront, doc

\* Where it stands, the next bracket is the body's, or one that is passed over,
\* or that of a name without a type in front of Document's tag.
LEMMA NextBracket ==
  ASSUME NEW text, NEW type, NEW tag, NEW body, WholeText(text, type, tag, body),
         NEW end, InFront(text, tag, body, end)
  PROVE  LET lt == FindAfter(text, end, "<")
         IN /\ lt \in end + 1 .. body /\ text[lt] = "<"
            /\ \/ lt = body
               \/ lt < tag
               \/ /\ lt \in tag + 3 .. body - 1 /\ text[lt + 1] \in Brackets
                  /\ \E r \in lt + 1 .. body - 1 : text[r] = ">"
<1> DEFINE lt == FindAfter(text, end, "<")
<1>1. /\ text \in Seq(STRING) /\ tag \in Nat /\ body \in Nat /\ tag + 3 <= body
      /\ body = Len(text) - 2 /\ text[body] = "<" /\ text[tag] = "Document" /\ text[tag + 2] = ">"
      /\ text[tag + 1] = type
  BY DEF WholeText
<1>2. end \in Nat /\ body \in end + 1 .. Len(text) /\ text[end] = ">"
  BY <1>1 DEF InFront
<1>3a. text \in Seq(STRING) /\ end \in Nat /\ body \in end + 1 .. Len(text) /\ text[body] = "<"
  BY <1>1, <1>2
<1>3b. IsFirst(text, end, "<", body, lt)
  BY ONLY Zenon, <1>3a, FirstBehind
<1>3. /\ lt \in end + 1 .. body /\ text[lt] = "<"
      /\ \A r \in end + 1 .. lt - 1 : text[r] # "<"
  BY <1>3b DEF IsFirst
<1> HIDE DEF lt
<1>4. type # "<"
  <2>1. type \in Namespaces
    BY Names DEF WholeText
  <2> QED
    BY <2>1, Names
<1>5. lt \notin {tag, tag + 1, tag + 2}
  BY <1>1, <1>3, <1>4, Names
<1>6. lt \in Nat
  BY <1>2, <1>3
<1>7. CASE lt \in tag + 3 .. body - 1
  <2>1. /\ \E q \in tag + 3 .. lt : /\ text[q] = "<" /\ text[q + 1] \in Brackets
                                    /\ \A r \in q .. lt : text[r] # ">"
        /\ \E r \in lt .. body - 1 : text[r] = ">"
    BY <1>3, <1>7 DEF WholeText, Between
  <2>2. PICK q \in tag + 3 .. lt : /\ text[q] = "<" /\ text[q + 1] \in Brackets
                                   /\ \A r \in q .. lt : text[r] # ">"
    BY <2>1
  <2>3. q > end
    BY <1>1, <1>2, <1>3, <2>2
  <2>4. q = lt
    BY <1>1, <1>2, <1>3, <2>2, <2>3
  <2>5. PICK r \in lt .. body - 1 : text[r] = ">"
    BY <2>1
  <2>6. r # lt
    BY <1>3, <2>5, Names
  <2>7. r \in lt + 1 .. body - 1
    BY <1>1, <1>6, <2>6
  <2> QED
    BY <1>3, <1>7, <2>2, <2>4, <2>5, <2>7 DEF lt
<1>8. CASE lt \notin tag + 3 .. body - 1
  BY <1>1, <1>3, <1>5, <1>6, <1>8 DEF lt
<1> QED
  BY <1>7, <1>8

\* Nothing is passed over any more.
Stays(text, end) == PassOver(text, end) = end

\* A turn of the loop stays in front of the body, and goes on or is the last.
LEMMA PassedOver ==
  ASSUME NEW text, NEW type, NEW tag, NEW body, WholeText(text, type, tag, body),
         NEW end, InFront(text, tag, body, end)
  PROVE  /\ InFront(text, tag, body, PassOver(text, end))
         /\ Stays(text, end) \/ PassOver(text, end) > end
         /\ Stays(text, end) => text[FindAfter(text, end, "<") + 1] \notin Brackets
<1> DEFINE lt == FindAfter(text, end, "<")
           gt == FindAfter(text, lt, ">")
<1>1. /\ text \in Seq(STRING) /\ tag \in Nat /\ body \in Nat /\ tag \in 2 .. Len(text)
      /\ tag + 3 <= body /\ body = Len(text) - 2 /\ text[tag + 2] = ">"
  BY DEF WholeText
<1>2. end \in 1 .. body - 1 /\ text[end] = ">"
  BY DEF InFront
<1>3. /\ lt \in end + 1 .. body /\ text[lt] = "<"
      /\ \/ lt = body
         \/ lt < tag
         \/ /\ lt \in tag + 3 .. body - 1 /\ text[lt + 1] \in Brackets
            /\ \E r \in lt + 1 .. body - 1 : text[r] = ">"
  BY NextBracket
<1>4. PassOver(text, end) = IF text[lt + 1] \notin Brackets THEN end ELSE gt
  <2>1. end # 0 /\ lt \notin {0, Len(text)}
    BY <1>1, <1>2, <1>3
  <2> QED
    BY <2>1 DEF PassOver
<1> HIDE DEF lt
<1>5. CASE text[lt + 1] \notin Brackets
  BY <1>4, <1>5 DEF Stays, lt
<1>6. CASE text[lt + 1] \in Brackets
  <2>1. lt # body
    <3>1. text[body + 1] \in DOMAIN LocalToMsg
      BY DEF WholeText
    <3> QED
      BY <1>6, <3>1, Names
  <2>2. PICK r \in lt + 1 .. body - 1 : text[r] = ">" /\ (lt < tag => r <= tag + 2)
    <3>1. CASE lt < tag
      BY <1>1, <1>2, <1>3, <3>1
    <3>2. CASE ~(lt < tag)
      BY <1>3, <2>1, <3>2
    <3> QED
      BY <3>1, <3>2
  <2>3. text \in Seq(STRING) /\ lt \in Nat /\ r \in lt + 1 .. Len(text) /\ text[r] = ">"
    BY <1>1, <1>2, <1>3, <2>2
  <2>4. IsFirst(text, lt, ">", r, gt)
    BY ONLY Zenon, <2>3, FirstBehind
  <2> HIDE DEF gt
  <2>5. gt \in lt + 1 .. r /\ text[gt] = ">"
    BY <2>4 DEF IsFirst
  <2>6. gt \in 1 .. body - 1 /\ gt > end
    BY <1>1, <1>2, <1>3, <2>2, <2>5
  <2>7. FindAfter(text, 0, "Document") = tag => gt >= tag + 2
    BY <1>1, <2>6 DEF InFront
  <2>8. InFront(text, tag, body, gt)
    BY <2>5, <2>6, <2>7 DEF InFront
  <2> QED
    BY <1>2, <1>4, <1>6, <2>6, <2>8 DEF Stays
<1> QED
  BY <1>5, <1>6

\* e is what the loop passes through; first_business_element stands behind it.
EndRuns(e, text) ==
  /\ e \in [0 .. Len(text) -> 0 .. Len(text)] /\ e[0] = DocumentEnd(text)
  /\ \A k \in 1 .. Len(text) : e[k] = PassOver(text, e[k - 1])

NameBehind(text, end) ==
  LET lt == FindAfter(text, end, "<")
  IN IF end = 0 \/ lt \in {0, Len(text)} THEN Unknown ELSE text[lt + 1]

\* What str::find finds is a place or none.
LEMMA FoundPlace ==
  ASSUME NEW text \in Seq(STRING), NEW p \in Nat, NEW word
  PROVE  FindAfter(text, p, word) \in 0 .. Len(text)
<1> DEFINE found == {q \in p + 1 .. Len(text) : text[q] = word}
<1>1. Len(text) \in Nat /\ \A q \in found : q \in 0 .. Len(text)
  OBVIOUS
<1> HIDE DEF found
<1>2. found # {} => Min(found) \in found
  BY <1>1, LeastOf
<1> QED
  BY <1>1, <1>2 DEF FindAfter, found

\* FirstBusinessElement passes through it.
LEMMA EndRecursion ==
  ASSUME NEW text \in Seq(STRING)
  PROVE  \E e : EndRuns(e, text) /\ FirstBusinessElement(text) = NameBehind(text, e[Len(text)])
<1> DEFINE n == Len(text)
           S == 0 .. n
           b == DocumentEnd(text)
           step(p) == PassOver(text, p)
           st == [k \in 1 .. n |-> [p \in S |-> step(p)]]
           Up(f) == f = [turn \in 0 .. n |-> IF turn = 0 THEN b ELSE step(f[turn - 1])]
           h == CHOOSE f : Up(f)
<1>0. n \in Nat
  OBVIOUS
<1>1. b \in S /\ \A p \in S : step(p) \in S
  <2>1. b \in S
    BY FoundPlace DEF DocumentEnd
  <2>2. ASSUME NEW p \in S PROVE step(p) \in S
    BY FoundPlace DEF PassOver
  <2> QED
    BY <2>1, <2>2
<1>2. FirstBusinessElement(text) = NameBehind(text, h[n])
  BY DEF FirstBusinessElement, NameBehind
<1> HIDE DEF n, S, step, b
<1>3. st \in [1 .. n -> [S -> S]] /\ \A k \in 1 .. n : \A p \in S : st[k][p] = step(p)
  BY <1>1
<1> HIDE DEF st
<1>4. PICK g : Runs(g, n, S, b, st)
  BY <1>0, <1>1, <1>3, Recursion
<1>5. g \in [0 .. n -> S] /\ \A k \in 0 .. n : g[k] = IF k = 0 THEN b ELSE step(g[k - 1])
  BY <1>0, <1>1, <1>3, <1>4 DEF Runs
<1>6. Up(g)
  BY <1>5
<1>7. Up(h)
  BY <1>6
<1> HIDE DEF h
<1>8. h[0] = b /\ \A k \in 1 .. n : h[k] = step(h[k - 1])
  <2>1. \A k \in 0 .. n : h[k] = IF k = 0 THEN b ELSE step(h[k - 1])
    BY <1>7
  <2>2. 0 \in 0 .. n /\ \A k \in 1 .. n : k \in 0 .. n /\ k # 0
    BY <1>0
  <2> QED
    BY <2>1, <2>2
<1>9. h \in [0 .. n -> S]
  <2> DEFINE A == {k \in 0 .. n : h[k] \in S}
  <2>1. 0 \in A /\ \A k \in 1 .. n : k - 1 \in A => k \in A
    BY <1>0, <1>1, <1>8
  <2> HIDE DEF A
  <2>2. 0 .. n \subseteq A
    BY <1>0, <2>1, PrefixInduction
  <2> QED
    BY <1>7, <2>2 DEF A
<1>10. EndRuns(h, text)
  BY <1>8, <1>9 DEF EndRuns, n, S, b, step
<1> QED
  BY <1>2, <1>10 DEF n

\* After as many turns as the text has places nothing is passed over any more:
\* what stands behind the loop then is the name in the body's tag, or one
\* without a type in front of Document's.
LEMMA LoopEnds ==
  ASSUME NEW text, NEW type, NEW tag, NEW body, WholeText(text, type, tag, body)
  PROVE  \E end : /\ InFront(text, tag, body, end) /\ Stays(text, end)
                  /\ FirstBusinessElement(text) = NameBehind(text, end)
<1>1. text \in Seq(STRING) /\ body \in Nat /\ body = Len(text) - 2
  BY DEF WholeText
<1>2. PICK e : EndRuns(e, text) /\ FirstBusinessElement(text) = NameBehind(text, e[Len(text)])
  BY <1>1, EndRecursion
<1> DEFINE n == Len(text)
           T == {k \in 0 .. n : /\ InFront(text, tag, body, e[k])
                                /\ Stays(text, e[k]) \/ e[k] >= k + 1}
<1>3. /\ n \in Nat /\ e[0] = DocumentEnd(text)
      /\ \A k \in 1 .. n : e[k] = PassOver(text, e[k - 1])
  BY <1>1, <1>2 DEF EndRuns
<1>4. 0 \in T
  <2>1. InFront(text, tag, body, e[0])
    BY <1>3, BeginsInFront
  <2>2. e[0] >= 0 + 1
    BY <2>1 DEF InFront
  <2> QED
    BY <1>3, <2>1, <2>2
<1>5. ASSUME NEW k \in 1 .. n, k - 1 \in T PROVE k \in T
  <2>1. InFront(text, tag, body, e[k - 1]) /\ (Stays(text, e[k - 1]) \/ e[k - 1] >= k)
    BY <1>5
  <2>2. e[k] = PassOver(text, e[k - 1])
    BY <1>3
  <2>3. /\ InFront(text, tag, body, e[k])
        /\ Stays(text, e[k - 1]) \/ e[k] > e[k - 1]
    BY <2>1, <2>2, PassedOver
  <2>4. CASE Stays(text, e[k - 1])
    <3>1. e[k] = e[k - 1]
      BY <2>2, <2>4 DEF Stays
    <3> QED
      BY <2>3, <2>4, <3>1
  <2>5. CASE ~Stays(text, e[k - 1])
    <3>1. e[k] \in Nat /\ e[k - 1] \in Nat
      BY <1>1, <2>1, <2>3 DEF InFront
    <3>2. e[k] >= k + 1
      BY <2>1, <2>3, <2>5, <3>1
    <3> QED
      BY <2>3, <3>2
  <2> QED
    BY <2>4, <2>5
<1> HIDE DEF T
<1>6. n \in T
  <2> HIDE DEF n
  <2> QED BY <1>3, <1>4, <1>5, PrefixInduction
<1>7. InFront(text, tag, body, e[n]) /\ (Stays(text, e[n]) \/ e[n] >= n + 1)
  BY <1>6 DEF T
<1>8. Stays(text, e[n])
  BY <1>1, <1>7 DEF InFront
<1> QED
  BY <1>2, <1>7, <1>8

\* The name found is the body's, always when Document is found in its tag, or
\* has no type.
LEMMA ElementOfWhole ==
  ASSUME NEW text, NEW type, NEW tag, NEW body, WholeText(text, type, tag, body)
  PROVE  \/ FirstBusinessElement(text) = text[body + 1]
         \/ /\ FirstBusinessElement(text) \notin DOMAIN LocalToMsg
            /\ FindAfter(text, 0, "Document") # tag
<1>1. PICK end : /\ InFront(text, tag, body, end) /\ Stays(text, end)
                 /\ FirstBusinessElement(text) = NameBehind(text, end)
  BY LoopEnds
<1> DEFINE lt == FindAfter(text, end, "<")
<1>2. /\ tag \in 2 .. Len(text) /\ body \in Nat /\ body = Len(text) - 2 /\ tag + 3 <= body
      /\ text[tag] = "Document"
  BY DEF WholeText
<1>3. /\ lt \in end + 1 .. body /\ text[lt] = "<"
      /\ \/ lt = body
         \/ lt < tag
         \/ /\ lt \in tag + 3 .. body - 1 /\ text[lt + 1] \in Brackets
            /\ \E r \in lt + 1 .. body - 1 : text[r] = ">"
  BY <1>1, NextBracket
<1>4. text[lt + 1] \notin Brackets
  BY <1>1, PassedOver
<1> HIDE DEF lt
<1>5. end \in 1 .. body - 1
  BY <1>1 DEF InFront
<1>6. FirstBusinessElement(text) = text[lt + 1]
  <2>1. end # 0 /\ lt \notin {0, Len(text)}
    BY <1>2, <1>3, <1>5
  <2> QED
    BY <1>1, <2>1 DEF NameBehind, lt
<1>7. CASE lt = body
  BY <1>6, <1>7
<1>8. CASE lt < tag
  <2>1. FindAfter(text, 0, "Document") # tag
    BY <1>1, <1>2, <1>3, <1>5, <1>8 DEF InFront
  <2>2. lt + 1 = tag \/ lt + 1 \in 1 .. tag - 1
    BY <1>2, <1>3, <1>5, <1>8
  <2>3. text[lt + 1] \notin DOMAIN LocalToMsg
    <3>1. CASE lt + 1 = tag
      BY <1>2, <3>1, Names
    <3>2. CASE lt + 1 \in 1 .. tag - 1
      BY <3>2 DEF WholeText
    <3> QED
      BY <2>2, <3>1, <3>2
  <2> QED
    BY <1>6, <2>1, <2>3
<1> QED
  BY <1>3, <1>4, <1>7, <1>8

\* The first namespace is the document's or the header's.
LEMMA NamespaceOfWhole ==
  ASSUME NEW text, NEW type, NEW tag, NEW body, WholeText(text, type, tag, body)
  PROVE  FirstNamespace(text) \in {type, "head.001"}
<1> DEFINE I == {i \in 1 .. Len(text) : text[i] \in Namespaces}
<1>1. /\ text \in Seq(STRING) /\ tag \in 2 .. Len(text) /\ tag + 3 <= body /\ body = Len(text) - 2
      /\ text[tag] = "Document" /\ text[tag + 1] = type
      /\ \A p \in 1 .. tag - 1 : text[p] \notin Namespaces \ {"head.001"}
  BY DEF WholeText
<1>2. type \in Namespaces
  BY Names DEF WholeText
<1>3. tag + 1 \in I /\ Len(text) \in Nat /\ \A i \in I : i \in 0 .. Len(text)
  BY <1>1, <1>2
<1>4. Min(I) \in I /\ Min(I) <= tag + 1
  <2> HIDE DEF I
  <2> QED BY <1>3, LeastOf
<1>5. FirstNamespace(text) = text[Min(I)]
  <2>1. FirstNamespace(text) =
          LET p == IF I # {} THEN Min(I) ELSE 0 IN IF p = 0 THEN Unknown ELSE text[p]
    BY DEF FirstNamespace, SelectInSeq
  <2>2. I # {} /\ Min(I) # 0
    BY <1>3, <1>4
  <2> QED
    BY <2>1, <2>2
<1>6. Min(I) \in 1 .. tag - 1 \/ Min(I) = tag \/ Min(I) = tag + 1
  BY <1>1, <1>4
<1>7. text[Min(I)] \in Namespaces
  BY <1>4
<1> HIDE DEF I
<1> QED
  BY <1>1, <1>5, <1>6, <1>7, Names

\* mx_type of a whole document: its type, or the header's, this only when the
\* header hides the body.
LEMMA TypeOfWhole ==
  ASSUME NEW text, NEW type, IsWhole(text, type)
  PROVE  /\ MxType(text) \in {type, "head.001"}
         /\ ~HeaderHidesBody(text) => MxType(text) = type
<1> DEFINE tag == DocumentTag(text)
           body == Len(text) - 2
<1>1. WholeText(text, type, tag, body)
  BY WholeAt
<1>2. text[body + 1] \in DOMAIN LocalToMsg /\ LocalToMsg[text[body + 1]] = type
  BY <1>1 DEF WholeText
<1>3. \/ FirstBusinessElement(text) = text[body + 1]
      \/ /\ FirstBusinessElement(text) \notin DOMAIN LocalToMsg
         /\ FindAfter(text, 0, "Document") # tag
  BY <1>1, ElementOfWhole
<1>4. FirstNamespace(text) \in {type, "head.001"}
  BY <1>1, NamespaceOfWhole
<1>5. CASE FirstBusinessElement(text) = text[body + 1]
  BY <1>2, <1>5 DEF MxType
<1>6. CASE /\ FirstBusinessElement(text) \notin DOMAIN LocalToMsg
           /\ FindAfter(text, 0, "Document") # tag
  BY <1>4, <1>6 DEF MxType, HeaderHidesBody
<1> QED
  BY <1>3, <1>5, <1>6
-----------------------------------------------------------------------------
\* s holds the elements of a body that have a name, and each of them.
AreNamed(s, body, name) ==
  /\ \A j \in 1 .. Len(s) : s[j].kind = name /\ \E i \in DOMAIN body : s[j] = body[i]
  /\ \A i \in DOMAIN body : body[i].kind = name => \E j \in 1 .. Len(s) : s[j] = body[i]

LEMMA NamedShape ==
  ASSUME NEW S, NEW body \in Seq(S), NEW name
  PROVE  Named(body, name) \in Seq(S) /\ AreNamed(Named(body, name), body, name)
<1> DEFINE I == {e \in DOMAIN body : body[e].kind = name}
           s == Named(body, name)
<1>1. I \in SUBSET (1 .. Len(body)) /\ DOMAIN body = 1 .. Len(body)
  OBVIOUS
<1>2. s \in Seq(S) /\ \E at : IsKept(body, I, s, at)
  <2> HIDE DEF I
  <2> QED BY <1>1, KeepShape DEF Named, I
<1>3. PICK at : IsKept(body, I, s, at)
  BY <1>2
<1> HIDE DEF s
<1>4. ASSUME NEW j \in 1 .. Len(s)
      PROVE  s[j].kind = name /\ \E i \in DOMAIN body : s[j] = body[i]
  <2>1. s[j] = body[at[j]] /\ at[j] \in I
    BY <1>3 DEF IsKept
  <2> QED
    BY <2>1
<1>5. ASSUME NEW i \in DOMAIN body, body[i].kind = name
      PROVE  \E j \in 1 .. Len(s) : s[j] = body[i]
  <2>1. i \in I
    BY <1>5
  <2>2. PICK j \in 1 .. Len(s) : at[j] = i
    BY <1>3, <2>1 DEF IsKept
  <2>3. s[j] = body[i]
    BY <1>3, <2>2 DEF IsKept
  <2> QED
    BY <2>3
<1>6. AreNamed(s, body, name)
  BY <1>4, <1>5 DEF AreNamed
<1> QED
  BY <1>2, <1>6 DEF s

\* The group header, if there is one, is an element of the body.
LEMMA GroupShape ==
  ASSUME NEW S, NEW body \in Seq(S), Named(body, "GrpHdr") # <<>>
  PROVE  \E i \in DOMAIN body : Head(Named(body, "GrpHdr")) = body[i] /\ body[i].kind = "GrpHdr"
<1> DEFINE s == Named(body, "GrpHdr")
<1>1. s \in Seq(S) /\ AreNamed(s, body, "GrpHdr")
  BY NamedShape
<1>2. s # <<>>
  OBVIOUS
<1> HIDE DEF s
<1>3. 1 \in 1 .. Len(s) /\ Head(s) = s[1]
  BY <1>1, <1>2
<1> QED
  BY <1>1, <1>3 DEF AreNamed, s

\* An amount breaks no rule when it is not there or keeps the rules.
LEMMA AmountAgrees ==
  ASSUME NEW a, IsAmountNode(a)
  PROVE  /\ CheckAmountNode(a) = {} => RowAmountIsSound(MoneyAt(a))
         /\ RowAmountIsSound(MoneyAt(a)) /\ MoneyAt(None) # a => CheckAmountNode(a) = {}
<1>1. MinorUnit \in [DOMAIN MinorUnit -> 0 .. 3] /\ None \notin DOMAIN MinorUnit
  BY FieldRulesAssumption
<1>2. CASE a = None
  BY <1>2 DEF CheckAmountNode, RowAmountIsSound, MoneyAt
<1>3. CASE a # None
  <2>1. MoneyAt(a) = a /\ a.decimals \in Nat \cup {None}
    BY <1>3 DEF MoneyAt, IsAmountNode
  <2>2. CheckAmountNode(a) = {} <=> /\ a.ccy # None /\ a.decimals # None
                                    /\ CheckCurrency(a.ccy, a.decimals) = {}
    BY <1>3 DEF CheckAmountNode, ErrorIf
  <2>3. a.ccy # None /\ a.decimals # None =>
          (CheckCurrency(a.ccy, a.decimals) = {} <=> AmountIsSound(a))
    <3> SUFFICES ASSUME a.ccy # None, a.decimals # None
                 PROVE  CheckCurrency(a.ccy, a.decimals) = {} <=> AmountIsSound(a)
      OBVIOUS
    <3>1. a.decimals \in Nat
      BY <2>1
    <3>2. CASE a.ccy \in DOMAIN MinorUnit
      <4>1. MinorUnit[a.ccy] \in 0 .. 3
        BY <1>1, <3>2
      <4> QED
        BY <1>3, <3>1, <3>2, <4>1 DEF CheckCurrency, AmountIsSound
    <3>3. CASE a.ccy \notin DOMAIN MinorUnit
      BY <3>3 DEF CheckCurrency, AmountIsSound
    <3> QED
      BY <3>2, <3>3
  <2>4. AmountIsSound(a) => a.ccy # None /\ a.decimals # None
    BY <1>1 DEF AmountIsSound
  <2>5. RowAmountIsSound(a) <=> a = MoneyAt(None) \/ AmountIsSound(a)
    BY DEF RowAmountIsSound
  <2> QED
    BY <2>1, <2>2, <2>3, <2>4, <2>5
<1> QED
  BY <1>2, <1>3

\* Of the elements of a body: they are what message id may have.
AreElements(id, body) == \A i \in DOMAIN body : IsElement(id, body[i])

\* A credit transfer breaks no rule.
GoodTransaction(tx) ==
  /\ tx.end_to_end # None /\ CheckAmountNode(tx.amount) = {}
  /\ "other" \notin {tx.charge_bearer, tx.uetr, tx.debtor_bic, tx.creditor_bic}
  /\ "/bad iban" \notin {tx.debtor_iban, tx.creditor_iban}

LEMMA TransactionAgrees ==
  ASSUME NEW tx
  PROVE  CheckTransaction(tx) = {} <=> GoodTransaction(tx)
BY DEF CheckTransaction, GoodTransaction, ErrorIf, CheckIbanNode

\* The row of a credit transfer keeps the rules.
SoundRow008(tx) ==
  /\ tx.end_to_end # None /\ RowAmountIsSound(MoneyAt(tx.amount))
  /\ "/bad iban" \notin {tx.debtor_iban, tx.creditor_iban}
  /\ "other" \notin {tx.charge_bearer, tx.uetr, tx.debtor_bic, tx.creditor_bic}

LEMMA Rows008 ==
  ASSUME NEW S, NEW body \in Seq(S)
  PROVE  LET txs == Named(body, "CdtTrfTxInf")
         IN RowsAreSound("pacs.008", body)
              <=> /\ MsgId(body) # None /\ txs # <<>>
                  /\ \A t \in 1 .. Len(txs) : SoundRow008(txs[t].value)
<1> DEFINE txs == Named(body, "CdtTrfTxInf")
<1>1. txs \in Seq(S) /\ DOMAIN txs = 1 .. Len(txs) /\ Len(txs) \in Nat
  BY NamedShape
<1>2. RowsAreSound("pacs.008", body)
        <=> /\ MsgId(body) # None /\ Pacs008(body) # <<>>
            /\ \A r \in DOMAIN Pacs008(body) :
                 LET row == Pacs008(body)[r]
                 IN /\ row.end_to_end # None /\ RowAmountIsSound(row.amount)
                    /\ "/bad iban" \notin {row.debtor_iban, row.creditor_iban}
                    /\ "other" \notin {row.charge_bearer, row.uetr, row.debtor_bic,
                                       row.creditor_bic}
  BY DEF RowsAreSound
<1>3. /\ DOMAIN Pacs008(body) = DOMAIN txs
      /\ \A t \in DOMAIN txs :
           Pacs008(body)[t] = [msg_id        |-> MsgId(body),
                               end_to_end    |-> txs[t].value.end_to_end,
                               amount        |-> MoneyAt(txs[t].value.amount),
                               charge_bearer |-> txs[t].value.charge_bearer,
                               uetr          |-> txs[t].value.uetr,
                               debtor_iban   |-> txs[t].value.debtor_iban,
                               creditor_iban |-> txs[t].value.creditor_iban,
                               debtor_bic    |-> txs[t].value.debtor_bic,
                               creditor_bic  |-> txs[t].value.creditor_bic]
  BY DEF Pacs008
<1> HIDE DEF txs
<1>4. Pacs008(body) # <<>> <=> txs # <<>>
  <2>1. CASE txs = <<>>
    <3>1. Pacs008(body) = <<>>
      BY <2>1 DEF Pacs008, txs
    <3> QED
      BY <2>1, <3>1
  <2>2. CASE txs # <<>>
    <3>1. 1 \in DOMAIN txs
      BY <1>1, <2>2
    <3> QED
      BY <1>3, <2>2, <3>1
  <2> QED
    BY <2>1, <2>2
<1>5. \A t \in DOMAIN txs :
        SoundRow008(txs[t].value)
          <=> LET row == Pacs008(body)[t]
              IN /\ row.end_to_end # None /\ RowAmountIsSound(row.amount)
                 /\ "/bad iban" \notin {row.debtor_iban, row.creditor_iban}
                 /\ "other" \notin {row.charge_bearer, row.uetr, row.debtor_bic,
                                    row.creditor_bic}
  <2> SUFFICES ASSUME NEW t \in DOMAIN txs
               PROVE  SoundRow008(txs[t].value)
                        <=> LET row == Pacs008(body)[t]
                            IN /\ row.end_to_end # None /\ RowAmountIsSound(row.amount)
                               /\ "/bad iban" \notin {row.debtor_iban, row.creditor_iban}
                               /\ "other" \notin {row.charge_bearer, row.uetr, row.debtor_bic,
                                                  row.creditor_bic}
    OBVIOUS
  <2> DEFINE row == Pacs008(body)[t]
             tx  == txs[t].value
  <2>1. /\ row.end_to_end = tx.end_to_end /\ row.amount = MoneyAt(tx.amount)
        /\ row.debtor_iban = tx.debtor_iban /\ row.creditor_iban = tx.creditor_iban
        /\ row.charge_bearer = tx.charge_bearer /\ row.uetr = tx.uetr
        /\ row.debtor_bic = tx.debtor_bic /\ row.creditor_bic = tx.creditor_bic
    BY <1>3
  <2> QED
    BY <2>1 DEF SoundRow008
<1> QED
  BY <1>1, <1>2, <1>3, <1>4, <1>5 DEF txs

\* Nothing in the elements is of what no row has.
NothingUnread(body) ==
  /\ MoneyAt(None) \notin AmountNodes(body)
  /\ \A i \in DOMAIN body :
       /\ body[i].kind = "GrpHdr" => body[i].value.method # "other"
       /\ body[i].kind = "PmtInf" => body[i].value.txs # <<>>

\* The rules of a pacs.008 and its rows.
LEMMA Pacs008Agrees ==
  ASSUME NEW S, NEW body \in Seq(S), AreElements("pacs.008", body), MsgId(body) # None
  PROVE  /\ CheckPacs008(body) = {} => RowsAreSound("pacs.008", body)
         /\ RowsAreSound("pacs.008", body) /\ NothingUnread(body) => CheckPacs008(body) = {}
<1> DEFINE txs == Named(body, "CdtTrfTxInf")
           grp == Named(body, "GrpHdr")
<1>1. txs \in Seq(S) /\ AreNamed(txs, body, "CdtTrfTxInf")
  BY NamedShape
<1>2. CheckPacs008(body) = {}
        <=> /\ ~(grp # <<>> /\ Head(grp).value.method = "other") /\ txs # <<>>
            /\ \A t \in 1 .. Len(txs) : CheckTransaction(txs[t].value) = {}
  <2>1. DOMAIN txs = 1 .. Len(txs)
    BY <1>1
  <2> QED
    BY <2>1 DEF CheckPacs008, ErrorIf, Over
<1>3. RowsAreSound("pacs.008", body)
        <=> txs # <<>> /\ \A t \in 1 .. Len(txs) : SoundRow008(txs[t].value)
  BY Rows008
<1>4. grp # <<>> => \E i \in DOMAIN body : Head(grp) = body[i] /\ body[i].kind = "GrpHdr"
  BY GroupShape
<1> HIDE DEF txs, grp
<1>5. ASSUME NEW t \in 1 .. Len(txs)
      PROVE  /\ IsAmountNode(txs[t].value.amount)
             /\ txs[t].value.amount \in AmountNodes(body)
  <2>1. PICK i \in DOMAIN body : txs[t] = body[i] /\ body[i].kind = "CdtTrfTxInf"
    BY <1>1 DEF AreNamed
  <2>2. IsElement("pacs.008", body[i])
    BY DEF AreElements
  <2> QED
    BY <2>1, <2>2 DEF IsElement, AmountNodes
<1>6. \A t \in 1 .. Len(txs) :
        /\ CheckTransaction(txs[t].value) = {} => SoundRow008(txs[t].value)
        /\ SoundRow008(txs[t].value) /\ MoneyAt(None) \notin AmountNodes(body)
             => CheckTransaction(txs[t].value) = {}
  <2> SUFFICES ASSUME NEW t \in 1 .. Len(txs)
               PROVE  /\ CheckTransaction(txs[t].value) = {} => SoundRow008(txs[t].value)
                      /\ SoundRow008(txs[t].value) /\ MoneyAt(None) \notin AmountNodes(body)
                           => CheckTransaction(txs[t].value) = {}
    OBVIOUS
  <2> DEFINE a == txs[t].value.amount
  <2>1. /\ CheckAmountNode(a) = {} => RowAmountIsSound(MoneyAt(a))
        /\ RowAmountIsSound(MoneyAt(a)) /\ MoneyAt(None) # a => CheckAmountNode(a) = {}
    BY <1>5, AmountAgrees
  <2>2. CheckTransaction(txs[t].value) = {} <=> GoodTransaction(txs[t].value)
    BY TransactionAgrees
  <2> QED
    BY <1>5, <2>1, <2>2 DEF GoodTransaction, SoundRow008
<1>7. NothingUnread(body) => ~(grp # <<>> /\ Head(grp).value.method = "other")
  BY <1>4 DEF NothingUnread
<1> QED
  BY <1>2, <1>3, <1>6, <1>7 DEF NothingUnread

\* The rows of a statement's elements of one kind.
LEMMA RowsOfKind ==
  ASSUME NEW S, NEW body \in Seq(S), NEW kind, NEW s, AreNamed(s, body, kind), s \in Seq(S)
  PROVE  (\A j \in DOMAIN s : RowAmountIsSound(MoneyAt(s[j].value.amount)))
           <=> \A i \in DOMAIN body :
                 body[i].kind = kind => RowAmountIsSound(MoneyAt(body[i].value.amount))
<1>1. DOMAIN s = 1 .. Len(s)
  OBVIOUS
<1> DEFINE Row(e) == RowAmountIsSound(MoneyAt(e.value.amount))
<1>2. ASSUME \A j \in DOMAIN s : Row(s[j]), NEW i \in DOMAIN body, body[i].kind = kind
      PROVE  Row(body[i])
  <2>1. PICK j \in DOMAIN s : s[j] = body[i]
    BY <1>1, <1>2 DEF AreNamed
  <2> QED
    BY <1>2, <2>1
<1>3. ASSUME \A i \in DOMAIN body : body[i].kind = kind => Row(body[i]), NEW j \in DOMAIN s
      PROVE  Row(s[j])
  <2>1. PICK i \in DOMAIN body : s[j] = body[i] /\ body[i].kind = kind
    BY <1>1 DEF AreNamed
  <2> QED
    BY <1>3, <2>1
<1> QED
  BY <1>2, <1>3

\* The rules of a statement and its rows: its elements are those.
LEMMA CamtAgrees ==
  ASSUME NEW S, NEW body \in Seq(S), NEW id \in {"camt.053", "camt.054"},
         AreElements(id, body), MsgId(body) # None
  PROVE  /\ CheckAmounts(body) = {} => RowsAreSound(id, body)
         /\ RowsAreSound(id, body) /\ NothingUnread(body) => CheckAmounts(body) = {}
<1> DEFINE bals   == Named(body, "Bal")
           ntries == Named(body, "Ntry")
           Sound(kind) == \A i \in DOMAIN body :
                            body[i].kind = kind => RowAmountIsSound(MoneyAt(body[i].value.amount))
<1>1. /\ bals \in Seq(S) /\ AreNamed(bals, body, "Bal")
      /\ ntries \in Seq(S) /\ AreNamed(ntries, body, "Ntry")
  BY NamedShape
<1>2. RowsAreSound(id, body) <=> /\ \A b \in DOMAIN Balances(body) : RowAmountIsSound(Balances(body)[b])
                                 /\ \A n \in DOMAIN EntryAmounts(body) :
                                      RowAmountIsSound(EntryAmounts(body)[n])
  BY DEF RowsAreSound
<1>3. /\ DOMAIN Balances(body) = DOMAIN bals /\ DOMAIN EntryAmounts(body) = DOMAIN ntries
      /\ \A b \in DOMAIN bals : Balances(body)[b] = MoneyAt(bals[b].value.amount)
      /\ \A n \in DOMAIN ntries : EntryAmounts(body)[n] = MoneyAt(ntries[n].value.amount)
  BY DEF Balances, EntryAmounts
<1> HIDE DEF bals, ntries
<1>4. (\A b \in DOMAIN bals : RowAmountIsSound(MoneyAt(bals[b].value.amount))) <=> Sound("Bal")
  BY <1>1, RowsOfKind
<1>5. (\A n \in DOMAIN ntries : RowAmountIsSound(MoneyAt(ntries[n].value.amount))) <=> Sound("Ntry")
  BY <1>1, RowsOfKind
<1>6. RowsAreSound(id, body) <=> Sound("Bal") /\ Sound("Ntry")
  <2> HIDE DEF Sound
  <2> QED BY <1>2, <1>3, <1>4, <1>5
<1>7. CheckAmounts(body) = {}
        <=> \A i \in DOMAIN body :
              body[i].kind # "GrpHdr" => CheckAmountNode(body[i].value.amount) = {}
  BY DEF CheckAmounts
<1>8. ASSUME NEW i \in DOMAIN body, body[i].kind # "GrpHdr"
      PROVE  LET a == body[i].value.amount
             IN /\ body[i].kind \in {"Bal", "Ntry"} /\ a \in AmountNodes(body)
                /\ CheckAmountNode(a) = {} => RowAmountIsSound(MoneyAt(a))
                /\ RowAmountIsSound(MoneyAt(a)) /\ MoneyAt(None) # a => CheckAmountNode(a) = {}
  <2> DEFINE a == body[i].value.amount
  <2>1. IsElement(id, body[i])
    BY DEF AreElements
  <2>2. body[i].kind \in {"Bal", "Ntry"} /\ IsAmountNode(a)
    BY <1>8, <2>1 DEF IsElement
  <2>3. a \in AmountNodes(body)
    BY <2>2 DEF AmountNodes
  <2> QED
    BY <2>2, <2>3, AmountAgrees
<1>9. ASSUME CheckAmounts(body) = {} PROVE RowsAreSound(id, body)
  <2>1. \A i \in DOMAIN body : body[i].kind # "GrpHdr" => RowAmountIsSound(MoneyAt(body[i].value.amount))
    BY <1>7, <1>8, <1>9
  <2>2. Sound("Bal") /\ Sound("Ntry")
    BY <2>1
  <2> QED
    BY <1>6, <2>2
<1>10. ASSUME RowsAreSound(id, body), NothingUnread(body) PROVE CheckAmounts(body) = {}
  <2>1. Sound("Bal") /\ Sound("Ntry") /\ MoneyAt(None) \notin AmountNodes(body)
    BY <1>6, <1>10 DEF NothingUnread
  <2>2. \A i \in DOMAIN body : body[i].kind # "GrpHdr" => CheckAmountNode(body[i].value.amount) = {}
    BY <1>8, <2>1
  <2> QED
    BY <1>7, <2>2
<1> QED
  BY <1>9, <1>10

\* A pacs.002 has a row, whatever is in it.
LEMMA Pacs002HasRow ==
  ASSUME NEW S, NEW body \in Seq(S), MsgId(body) # None
  PROVE  RowsAreSound("pacs.002", body)
<1> DEFINE txs == Named(body, "TxInfAndSts")
<1>1. txs \in Seq(S)
  BY NamedShape
<1> HIDE DEF txs
<1>2. CASE txs = <<>>
  <2>1. Pacs002(body) = <<[msg_id |-> MsgId(body), tx_status |-> None]>>
    BY <1>2 DEF Pacs002, txs
  <2>2. Len(Pacs002(body)) = 1
    BY <2>1
  <2>3. Pacs002(body) # <<>>
    BY <2>2
  <2> QED
    BY <2>3 DEF RowsAreSound
<1>3. CASE txs # <<>>
  <2>1. 1 \in DOMAIN txs
    BY <1>1, <1>3
  <2>2. DOMAIN Pacs002(body) = DOMAIN txs
    BY <1>3 DEF Pacs002, txs
  <2>3. Pacs002(body) # <<>>
    BY <2>1, <2>2
  <2> QED
    BY <2>3 DEF RowsAreSound
<1> QED
  BY <1>2, <1>3

\* s holds the elements of the first k of several sequences, and each of them.
Flattens(s, seqs, k) ==
  /\ \A j \in 1 .. Len(s) : \E p \in 1 .. k : \E t \in 1 .. Len(seqs[p]) : s[j] = seqs[p][t]
  /\ \A p \in 1 .. k : \A t \in 1 .. Len(seqs[p]) : \E j \in 1 .. Len(s) : s[j] = seqs[p][t]

\* One sequence more.
LEMMA FlattenedMore ==
  ASSUME NEW S, NEW seqs \in Seq(Seq(S)), NEW k \in 1 .. Len(seqs),
         NEW s \in Seq(S), Flattens(s, seqs, k - 1)
  PROVE  s \o seqs[k] \in Seq(S) /\ Flattens(s \o seqs[k], seqs, k)
<1> DEFINE u == seqs[k]
           r == s \o u
<1>1. u \in Seq(S)
  OBVIOUS
<1> HIDE DEF u
<1>2. /\ r \in Seq(S) /\ Len(r) = Len(s) + Len(u) /\ Len(s) \in Nat /\ Len(u) \in Nat
      /\ \A j \in 1 .. Len(s) : r[j] = s[j]
      /\ \A j \in Len(s) + 1 .. Len(s) + Len(u) : r[j] = u[j - Len(s)]
  BY <1>1, Concat
<1> HIDE DEF r
<1>3. ASSUME NEW j \in 1 .. Len(r)
      PROVE  \E p \in 1 .. k : \E t \in 1 .. Len(seqs[p]) : r[j] = seqs[p][t]
  <2>1. CASE j \in 1 .. Len(s)
    <3>1. PICK p \in 1 .. k - 1 : \E t \in 1 .. Len(seqs[p]) : s[j] = seqs[p][t]
      BY <2>1 DEF Flattens
    <3>2. p \in 1 .. k /\ r[j] = s[j]
      BY <1>2, <2>1
    <3> QED
      BY <3>1, <3>2
  <2>2. CASE j \notin 1 .. Len(s)
    <3>1. j - Len(s) \in 1 .. Len(u) /\ r[j] = u[j - Len(s)]
      BY <1>2, <2>2
    <3>2. k \in 1 .. k
      OBVIOUS
    <3> QED
      BY <3>1, <3>2 DEF u
  <2> QED
    BY <2>1, <2>2
<1>4. ASSUME NEW p \in 1 .. k, NEW t \in 1 .. Len(seqs[p])
      PROVE  \E j \in 1 .. Len(r) : r[j] = seqs[p][t]
  <2>1. CASE p = k
    <3>1. t \in 1 .. Len(u)
      BY <2>1 DEF u
    <3>2. Len(s) + t \in 1 .. Len(r) /\ r[Len(s) + t] = u[t]
      <4>1. Len(s) + t \in Len(s) + 1 .. Len(s) + Len(u) /\ (Len(s) + t) - Len(s) = t
        BY <1>2, <3>1
      <4>2. r[Len(s) + t] = u[(Len(s) + t) - Len(s)]
        BY <1>2, <4>1
      <4> QED
        BY <1>2, <3>1, <4>1, <4>2
    <3> QED
      BY <2>1, <3>2 DEF u
  <2>2. CASE p # k
    <3>1. p \in 1 .. k - 1
      BY <2>2
    <3>2. PICK j \in 1 .. Len(s) : s[j] = seqs[p][t]
      BY <3>1 DEF Flattens
    <3>3. j \in 1 .. Len(r) /\ r[j] = s[j]
      BY <1>2
    <3> QED
      BY <3>2, <3>3
  <2> QED
    BY <2>1, <2>2
<1>5. Flattens(r, seqs, k)
  BY <1>3, <1>4 DEF Flattens
<1> QED
  BY <1>2, <1>5 DEF r, u

\* What Iterator::flatten (here FlattenSeq) makes of sequences.
LEMMA FlattenShape ==
  ASSUME NEW S, NEW seqs \in Seq(Seq(S)), Len(seqs) > 0
  PROVE  FlattenSeq(seqs) \in Seq(S) /\ Flattens(FlattenSeq(seqs), seqs, Len(seqs))
<1> DEFINE n == Len(seqs)
<1>1. PICK g : Flattening(g, S, seqs) /\ FlattenSeq(seqs) = g[n]
  BY FlattenRecursion
<1> DEFINE A == {k \in 0 .. n : Flattens(g[k], seqs, k)}
<1>2. n \in Nat
  OBVIOUS
<1>3. 0 \in A
  <2>1. g[0] = <<>> /\ Len(<<>>) = 0
    BY <1>1 DEF Flattening
  <2> QED
    BY <1>2, <2>1 DEF Flattens
<1>4. ASSUME NEW k \in 1 .. n, k - 1 \in A PROVE k \in A
  <2>1. k - 1 \in 0 .. n /\ k \in 0 .. n /\ k \in 1 .. Len(seqs)
    BY <1>2
  <2>2. g[k - 1] \in Seq(S) /\ g[k] = g[k - 1] \o seqs[k]
    <3> HIDE DEF A
    <3> QED
      BY <1>1, <2>1 DEF Flattening
  <2>3. Flattens(g[k - 1], seqs, k - 1)
    BY <1>4
  <2>4. Flattens(g[k], seqs, k)
    BY <2>1, <2>2, <2>3, FlattenedMore
  <2> QED
    BY <2>1, <2>4
<1> HIDE DEF A
<1>5. n \in A
  <2>1. 0 .. n \subseteq A
    BY <1>2, <1>3, <1>4, PrefixInduction
  <2> QED
    BY <1>2, <2>1
<1>6. n \in 0 .. n
  BY <1>2
<1> QED
  BY <1>1, <1>5, <1>6 DEF A, Flattening

\* The row of a transaction of a payment, and when it keeps the rules.
Row001(body, pmt, t) ==
  [msg_id        |-> MsgId(body),
   debtor_iban   |-> pmt.debtor_iban,
   creditor_iban |-> pmt.txs[t].creditor_iban,
   amount        |-> MoneyAt(pmt.txs[t].amount)]

SoundRow001(pmt, t) ==
  /\ RowAmountIsSound(MoneyAt(pmt.txs[t].amount))
  /\ "/bad iban" \notin {pmt.debtor_iban, pmt.txs[t].creditor_iban}

RowIsSound(row) ==
  /\ RowAmountIsSound(row.amount)
  /\ "/bad iban" \notin {row.debtor_iban, row.creditor_iban}

LEMMA SoundRow ==
  ASSUME NEW body, NEW pmt, NEW t
  PROVE  RowIsSound(Row001(body, pmt, t)) <=> SoundRow001(pmt, t)
<1> DEFINE row == Row001(body, pmt, t)
<1>1. /\ row.amount = MoneyAt(pmt.txs[t].amount) /\ row.debtor_iban = pmt.debtor_iban
      /\ row.creditor_iban = pmt.txs[t].creditor_iban
  BY DEF Row001
<1> HIDE DEF row
<1> QED
  BY <1>1 DEF RowIsSound, SoundRow001, row

\* The transactions of a payment are a sequence.
ArePayments(pmts) ==
  \A p \in 1 .. Len(pmts) : LET txs == pmts[p].value.txs
                            IN Len(txs) \in Nat /\ DOMAIN txs = 1 .. Len(txs)

LEMMA Rows001 ==
  ASSUME NEW S, NEW body \in Seq(S), ArePayments(Named(body, "PmtInf"))
  PROVE  LET pmts == Named(body, "PmtInf")
         IN RowsAreSound("pain.001", body)
              <=> /\ MsgId(body) # None
                  /\ \A p \in 1 .. Len(pmts) : \A t \in 1 .. Len(pmts[p].value.txs) :
                       SoundRow001(pmts[p].value, t)
<1> DEFINE pmts == Named(body, "PmtInf")
           n == Len(pmts)
           seqs == [p \in 1 .. n |-> [t \in 1 .. Len(pmts[p].value.txs) |->
                                        Row001(body, pmts[p].value, t)]]
           Q == UNION {{Row001(body, pmts[p].value, t) : t \in 1 .. Len(pmts[p].value.txs)} :
                        p \in 1 .. n}
           rows == Pain001(body)
<1>1. pmts \in Seq(S) /\ n \in Nat /\ DOMAIN pmts = 1 .. n
  BY NamedShape
<1>2. \A p \in 1 .. n : LET txs == pmts[p].value.txs
                        IN Len(txs) \in Nat /\ DOMAIN txs = 1 .. Len(txs)
  BY DEF ArePayments
<1>3. rows = FlattenSeq(seqs)
  <2> DEFINE f(p) == [t \in DOMAIN pmts[p].value.txs |->
                        [msg_id        |-> MsgId(body),
                         debtor_iban   |-> pmts[p].value.debtor_iban,
                         creditor_iban |-> pmts[p].value.txs[t].creditor_iban,
                         amount        |-> MoneyAt(pmts[p].value.txs[t].amount)]]
             g(p) == [t \in 1 .. Len(pmts[p].value.txs) |-> Row001(body, pmts[p].value, t)]
  <2>1. rows = FlattenSeq([p \in DOMAIN pmts |-> f(p)])
    BY DEF Pain001
  <2>2. \A p \in 1 .. n : f(p) = g(p)
    <3> HIDE DEF pmts, n
    <3> QED BY <1>2 DEF Row001
  <2> HIDE DEF f, g, pmts, n
  <2>3. [p \in DOMAIN pmts |-> f(p)] = [p \in 1 .. n |-> g(p)]
    BY <1>1, <2>2
  <2> QED
    BY <2>1, <2>3 DEF g
<1>4. RowsAreSound("pain.001", body)
        <=> MsgId(body) # None /\ \A r \in DOMAIN rows : RowIsSound(rows[r])
  BY DEF RowsAreSound, RowIsSound
<1> HIDE DEF pmts, n, rows
<1>5. \A p \in 1 .. n : /\ seqs[p] \in Seq(Q) /\ Len(seqs[p]) = Len(pmts[p].value.txs)
                        /\ \A t \in 1 .. Len(pmts[p].value.txs) :
                             seqs[p][t] = Row001(body, pmts[p].value, t)
  <2> SUFFICES ASSUME NEW p \in 1 .. n
               PROVE  /\ seqs[p] \in Seq(Q) /\ Len(seqs[p]) = Len(pmts[p].value.txs)
                      /\ \A t \in 1 .. Len(pmts[p].value.txs) :
                           seqs[p][t] = Row001(body, pmts[p].value, t)
    OBVIOUS
  <2> DEFINE m == Len(pmts[p].value.txs)
             f(t) == Row001(body, pmts[p].value, t)
  <2>1. seqs[p] = [t \in 1 .. m |-> f(t)] /\ m \in Nat
    BY <1>2
  <2>2. \A t \in 1 .. m : f(t) \in Q
    OBVIOUS
  <2> HIDE DEF m, f, Q, seqs
  <2> QED BY <2>1, <2>2 DEF m, f
<1>6. Len(seqs) = n /\ seqs \in Seq(Seq(Q))
  <2> DEFINE X == Seq(Q)
  <2>1. \A p \in 1 .. n : seqs[p] \in X
    BY <1>5
  <2>2. seqs = [p \in 1 .. n |-> seqs[p]]
    OBVIOUS
  <2> HIDE DEF seqs, X
  <2>3. seqs \in [1 .. n -> X]
    BY <2>1, <2>2
  <2>4. seqs \in Seq(X) /\ Len(seqs) = n
    BY <1>1, <2>3
  <2> QED
    BY <2>4 DEF X
<1> HIDE DEF seqs, Q
<1>7. (\A r \in DOMAIN rows : RowIsSound(rows[r]))
        <=> \A p \in 1 .. n : \A t \in 1 .. Len(pmts[p].value.txs) : SoundRow001(pmts[p].value, t)
  <2>1. CASE n = 0
    <3>1. rows = seqs
      BY <1>3, <1>6, <2>1 DEF FlattenSeq
    <3>2. DOMAIN rows = {}
      BY <1>6, <2>1, <3>1
    <3> QED
      BY <2>1, <3>2
  <2>2. CASE n # 0
    <3>1. rows \in Seq(Q) /\ Flattens(rows, seqs, n)
      BY <1>1, <1>3, <1>6, <2>2, FlattenShape
    <3>2. DOMAIN rows = 1 .. Len(rows)
      BY <3>1
    <3>3. ASSUME \A r \in DOMAIN rows : RowIsSound(rows[r]),
                 NEW p \in 1 .. n, NEW t \in 1 .. Len(pmts[p].value.txs)
          PROVE  SoundRow001(pmts[p].value, t)
      <4>1. t \in 1 .. Len(seqs[p]) /\ seqs[p][t] = Row001(body, pmts[p].value, t)
        BY <1>5
      <4>2. PICK r \in 1 .. Len(rows) : rows[r] = seqs[p][t]
        BY <3>1, <4>1 DEF Flattens
      <4>3. RowIsSound(Row001(body, pmts[p].value, t))
        BY <3>2, <3>3, <4>1, <4>2
      <4> QED
        BY <4>3, SoundRow
    <3>4. ASSUME \A p \in 1 .. n : \A t \in 1 .. Len(pmts[p].value.txs) : SoundRow001(pmts[p].value, t),
                 NEW r \in DOMAIN rows
          PROVE  RowIsSound(rows[r])
      <4>1. PICK p \in 1 .. n : \E t \in 1 .. Len(seqs[p]) : rows[r] = seqs[p][t]
        BY <3>1, <3>2 DEF Flattens
      <4>2. PICK t \in 1 .. Len(seqs[p]) : rows[r] = seqs[p][t]
        BY <4>1
      <4>3. t \in 1 .. Len(pmts[p].value.txs) /\ rows[r] = Row001(body, pmts[p].value, t)
        BY <1>5, <4>2
      <4>4. SoundRow001(pmts[p].value, t)
        BY <3>4, <4>3
      <4> QED
        BY <4>3, <4>4, SoundRow
    <3> QED
      BY <3>3, <3>4
  <2> QED
    BY <2>1, <2>2
<1> QED
  BY <1>4, <1>7 DEF pmts, n

\* A payment breaks no rule.
LEMMA PaymentAgrees ==
  ASSUME NEW pmt
  PROVE  CheckPayment(pmt) = {}
           <=> /\ pmt.debtor_iban # "/bad iban"
               /\ \A t \in DOMAIN pmt.txs : /\ CheckAmountNode(pmt.txs[t].amount) = {}
                                            /\ pmt.txs[t].creditor_iban # "/bad iban"
<1>1. \A iban : CheckIbanNode(iban) = {} <=> iban # "/bad iban"
  BY DEF CheckIbanNode, ErrorIf
<1>2. CheckPayment(pmt) = {}
        <=> /\ CheckIbanNode(pmt.debtor_iban) = {}
            /\ \A t \in DOMAIN pmt.txs : /\ CheckAmountNode(pmt.txs[t].amount) = {}
                                         /\ CheckIbanNode(pmt.txs[t].creditor_iban) = {}
  <2> DEFINE D == CheckIbanNode(pmt.debtor_iban)
             E(t) == CheckAmountNode(pmt.txs[t].amount) \cup CheckIbanNode(pmt.txs[t].creditor_iban)
  <2>1. CheckPayment(pmt) = D \cup UNION {E(t) : t \in DOMAIN pmt.txs}
    BY DEF CheckPayment
  <2>2. \A t : E(t) = {} <=> /\ CheckAmountNode(pmt.txs[t].amount) = {}
                             /\ CheckIbanNode(pmt.txs[t].creditor_iban) = {}
    OBVIOUS
  <2> HIDE DEF E
  <2>3. D \cup UNION {E(t) : t \in DOMAIN pmt.txs} = {}
          <=> D = {} /\ \A t \in DOMAIN pmt.txs : E(t) = {}
    <3> HIDE DEF D
    <3> QED OBVIOUS
  <2> QED
    BY <2>1, <2>2, <2>3
<1> QED
  BY <1>1, <1>2

\* The rules of a pain.001 and its rows.
LEMMA Pain001Agrees ==
  ASSUME NEW S, NEW body \in Seq(S), AreElements("pain.001", body), MsgId(body) # None
  PROVE  LET pmts == Named(body, "PmtInf")
         IN /\ Over(pmts, CheckPayment) = {} => RowsAreSound("pain.001", body)
            /\ RowsAreSound("pain.001", body) /\ NothingUnread(body)
                 => Over(pmts, CheckPayment) = {}
<1> DEFINE pmts == Named(body, "PmtInf")
           Txs(p) == pmts[p].value.txs
<1>1. pmts \in Seq(S) /\ AreNamed(pmts, body, "PmtInf") /\ DOMAIN pmts = 1 .. Len(pmts)
  BY NamedShape
<1>2. RowsAreSound("pain.001", body) /\ ArePayments(pmts)
        => \A p \in 1 .. Len(pmts) : \A t \in 1 .. Len(Txs(p)) : SoundRow001(pmts[p].value, t)
  BY Rows001
<1>3. (/\ ArePayments(pmts)
       /\ \A p \in 1 .. Len(pmts) : \A t \in 1 .. Len(Txs(p)) : SoundRow001(pmts[p].value, t))
        => RowsAreSound("pain.001", body)
  BY Rows001
<1>4. Over(pmts, CheckPayment) = {} <=> \A p \in 1 .. Len(pmts) : CheckPayment(pmts[p].value) = {}
  BY <1>1 DEF Over
<1> HIDE DEF pmts
<1>5. ASSUME NEW p \in 1 .. Len(pmts)
      PROVE  /\ Len(Txs(p)) \in Nat /\ DOMAIN Txs(p) = 1 .. Len(Txs(p))
             /\ \A t \in DOMAIN Txs(p) : /\ IsAmountNode(Txs(p)[t].amount)
                                         /\ Txs(p)[t].amount \in AmountNodes(body)
             /\ NothingUnread(body) => Len(Txs(p)) # 0
  <2>1. PICK i \in DOMAIN body : pmts[p] = body[i] /\ body[i].kind = "PmtInf"
    BY <1>1 DEF AreNamed
  <2>2. IsElement("pain.001", body[i])
    BY DEF AreElements
  <2>3. Txs(p) \in Seq(Range(Txs(p))) /\ \A t \in DOMAIN Txs(p) : IsAmountNode(Txs(p)[t].amount)
    BY <2>1, <2>2 DEF IsElement
  <2>4. \A t \in DOMAIN Txs(p) : Txs(p)[t].amount \in AmountNodes(body)
    BY <2>1 DEF AmountNodes
  <2>5. NothingUnread(body) => Len(Txs(p)) # 0
    BY <2>1, <2>3 DEF NothingUnread
  <2> QED
    BY <2>3, <2>4, <2>5
<1>6. ArePayments(pmts)
  BY <1>5 DEF ArePayments
<1>7. ASSUME Over(pmts, CheckPayment) = {} PROVE RowsAreSound("pain.001", body)
  <2>1. ASSUME NEW p \in 1 .. Len(pmts), NEW t \in 1 .. Len(Txs(p))
        PROVE  SoundRow001(pmts[p].value, t)
    <3>1. CheckPayment(pmts[p].value) = {}
      BY <1>4, <1>7
    <3>2. /\ pmts[p].value.debtor_iban # "/bad iban" /\ CheckAmountNode(Txs(p)[t].amount) = {}
          /\ Txs(p)[t].creditor_iban # "/bad iban" /\ IsAmountNode(Txs(p)[t].amount)
      BY <1>5, <3>1, PaymentAgrees
    <3>3. RowAmountIsSound(MoneyAt(Txs(p)[t].amount))
      BY <3>2, AmountAgrees
    <3> QED
      BY <3>2, <3>3 DEF SoundRow001
  <2> QED
    BY <1>3, <1>6, <2>1
<1>8. ASSUME RowsAreSound("pain.001", body), NothingUnread(body)
      PROVE  Over(pmts, CheckPayment) = {}
  <2>1. ASSUME NEW p \in 1 .. Len(pmts) PROVE CheckPayment(pmts[p].value) = {}
    <3>1. \A t \in 1 .. Len(Txs(p)) : SoundRow001(pmts[p].value, t)
      BY <1>2, <1>6, <1>8
    <3>2. \A t \in 1 .. Len(Txs(p)) :
            /\ CheckAmountNode(Txs(p)[t].amount) = {}
            /\ "/bad iban" \notin {pmts[p].value.debtor_iban, Txs(p)[t].creditor_iban}
      <4> SUFFICES ASSUME NEW t \in 1 .. Len(Txs(p))
                   PROVE  /\ CheckAmountNode(Txs(p)[t].amount) = {}
                          /\ "/bad iban" \notin {pmts[p].value.debtor_iban, Txs(p)[t].creditor_iban}
        OBVIOUS
      <4> DEFINE a == Txs(p)[t].amount
      <4>1. IsAmountNode(a) /\ a # MoneyAt(None)
        BY <1>5, <1>8 DEF NothingUnread
      <4>2. RowAmountIsSound(MoneyAt(a))
        BY <3>1 DEF SoundRow001
      <4>3. CheckAmountNode(a) = {}
        BY <4>1, <4>2, AmountAgrees
      <4> QED
        BY <3>1, <4>3 DEF SoundRow001
    <3>3. 1 \in 1 .. Len(Txs(p)) /\ DOMAIN Txs(p) = 1 .. Len(Txs(p))
      BY <1>5, <1>8
    <3> QED
      BY <3>2, <3>3, PaymentAgrees
  <2> QED
    BY <1>4, <2>1
<1> QED
  BY <1>7, <1>8 DEF pmts

\* A message id is there when the group header names one.
LEMMA MsgIdIsNone ==
  ASSUME NEW body
  PROVE  LET grp == Named(body, "GrpHdr")
         IN MsgId(body) = None <=> grp = <<>> \/ Head(grp).value.msg_id = None
BY DEF MsgId

\* The rules of a whole document and the rows that its reader makes of it; the
\* rules by the header's namespace are those that any document has to keep.
LEMMA MxAgrees ==
  ASSUME NEW S, NEW body \in Seq(S), NEW id \in MxIds, AreElements(id, body)
  PROVE  /\ MxErrors(id, id, "whole", body) = {} => RowsAreSound(id, body)
         /\ RowsAreSound(id, body) /\ NothingUnread(body)
              => /\ MxErrors(id, id, "whole", body) = {}
                 /\ MxErrors("head.001", id, "whole", body) = {}
<1> DEFINE C == CASE id = "pacs.008" -> CheckPacs008(body)
                  [] id = "pain.001" -> Over(Named(body, "PmtInf"), CheckPayment)
                  [] id \in {"camt.053", "camt.054"} -> CheckAmounts(body)
                  [] id = "pacs.002" -> {}
<1>1. id \in {"pacs.008", "pacs.002", "pain.001", "camt.053", "camt.054"}
  BY DEF MxIds
<1>2. MxErrors(id, id, "whole", body) = ErrorIf(MsgId(body) = None, "MX001") \cup C
  <2> DEFINE none == Named(body, "GrpHdr") = <<>> \/ Head(Named(body, "GrpHdr")).value.msg_id = None
  <2>1. MsgId(body) = None <=> none
    BY MsgIdIsNone
  <2>2. MxErrors(id, id, "whole", body) = ErrorIf(none, "MX001") \cup C
    BY <1>1 DEF MxErrors, ErrorIf
  <2> HIDE DEF none, C
  <2> QED
    BY <2>1, <2>2 DEF ErrorIf
<1>3. MxErrors("head.001", id, "whole", body) = ErrorIf(MsgId(body) = None, "MX001")
  <2> DEFINE none == Named(body, "GrpHdr") = <<>> \/ Head(Named(body, "GrpHdr")).value.msg_id = None
  <2>1. MsgId(body) = None <=> none
    BY MsgIdIsNone
  <2>2. MxErrors("head.001", id, "whole", body) = ErrorIf(none, "MX001")
    BY DEF MxErrors, ErrorIf
  <2> HIDE DEF none
  <2> QED
    BY <2>1, <2>2 DEF ErrorIf
<1>4. RowsAreSound(id, body) => MsgId(body) # None
  BY DEF RowsAreSound
<1>5. ASSUME MsgId(body) # None
      PROVE  /\ C = {} => RowsAreSound(id, body)
             /\ RowsAreSound(id, body) /\ NothingUnread(body) => C = {}
  <2>1. CASE id = "pacs.008"
    <3>1. C = CheckPacs008(body)
      BY <2>1
    <3> HIDE DEF C
    <3> QED BY <1>5, <2>1, <3>1, Pacs008Agrees
  <2>2. CASE id = "pain.001"
    <3>1. C = Over(Named(body, "PmtInf"), CheckPayment)
      BY <2>2
    <3> HIDE DEF C
    <3> QED BY <1>5, <2>2, <3>1, Pain001Agrees
  <2>3. CASE id \in {"camt.053", "camt.054"}
    <3>1. C = CheckAmounts(body)
      BY <2>3
    <3> HIDE DEF C
    <3> QED BY <1>5, <2>3, <3>1, CamtAgrees
  <2>4. CASE id = "pacs.002"
    <3>1. C = {}
      BY <2>4
    <3> HIDE DEF C
    <3> QED BY <1>5, <2>4, <3>1, Pacs002HasRow
  <2> HIDE DEF C
  <2> QED
    BY <1>1, <2>1, <2>2, <2>3, <2>4
<1> HIDE DEF C
<1>6. ErrorIf(MsgId(body) = None, "MX001") = {} <=> MsgId(body) # None
  BY DEF ErrorIf
<1> QED
  BY <1>2, <1>3, <1>4, <1>5, <1>6
-----------------------------------------------------------------------------
\* The fields of lines of a kind: none is empty, and each begins with a tag.
TaggedFields(fields, S) ==
  fields \in Seq(Seq(S)) /\ \A m \in 1 .. Len(fields) : fields[m] # <<>> /\ IsTag(fields[m][1])

LEMMA ParsedAreTagged ==
  ASSUME NEW S, NEW lines \in Seq(S)
  PROVE  TaggedFields(ParseBody(lines), S)
<1>1. ParseBody(lines) \in Seq(Seq(S)) /\ AreFields(ParseBody(lines))
  BY ParsedFields DEF FieldsOf
<1> QED
  BY <1>1 DEF TaggedFields, AreFields, IsField

\* The first block 4 is made of lines of the text.
LEMMA FirstBlock ==
  ASSUME NEW S, NEW t, t \in Seq(S), Block(t) # <<>>
  PROVE  \E b \in Seq(S) : Block(t) = <<b>>
<1>1. Len(t) \in Nat /\ 1 \in 1 .. Len(t) + 1 /\ 1 \in Nat
  OBVIOUS
<1>2. \E s \in 1 .. Len(t) : \E e \in s + 1 .. Len(t) : Block(t) = <<SubSeq(t, s + 1, e - 1)>>
  <2>1. PICK s \in LinesFrom(t, 1, "{4:") : \E e \in Balanced(t, s) :
          Block(t) = <<SubSeq(t, s + 1, e - 1)>>
    BY <1>1, BlockFound DEF Block
  <2>2. PICK e \in Balanced(t, s) : Block(t) = <<SubSeq(t, s + 1, e - 1)>>
    BY <2>1
  <2>3. s \in 1 .. Len(t) /\ e \in s + 1 .. Len(t)
    BY LinesAreIn DEF Balanced
  <2> QED
    BY <2>2, <2>3
<1>3. PICK s \in 1 .. Len(t) : \E e \in s + 1 .. Len(t) : Block(t) = <<SubSeq(t, s + 1, e - 1)>>
  BY <1>2
<1>4. PICK e \in s + 1 .. Len(t) : Block(t) = <<SubSeq(t, s + 1, e - 1)>>
  BY <1>3
<1>5. s + 1 \in 1 .. Len(t) + 1 /\ e - 1 \in (s + 1) - 1 .. Len(t)
  BY <1>1
<1>6. SubSeq(t, s + 1, e - 1) \in Seq(S)
  BY <1>5, PartShape
<1> QED
  BY <1>4, <1>6

\* The fields that the rules look at.
LEMMA FieldsShape ==
  ASSUME NEW S, content \in Seq(S)
  PROVE  TaggedFields(Fields, S)
<1>1. CASE Block(content) = <<>>
  BY <1>1, ParsedAreTagged DEF Fields
<1>2. CASE Block(content) # <<>>
  <2>1. PICK b \in Seq(S) : Block(content) = <<b>>
    BY <1>2, FirstBlock
  <2>2. Fields = ParseBody(b)
    BY <1>2, <2>1 DEF Fields
  <2> QED
    BY <2>2, ParsedAreTagged
<1> QED
  BY <1>1, <1>2

\* A field with the tag is found when there is one, and nothing else is.
FirstOf(field, fields, tags) ==
  /\ field # <<>> <=> \E m \in 1 .. Len(fields) : TagOf(fields[m]) \in tags
  /\ field # <<>> => \E m \in 1 .. Len(fields) : field = fields[m] /\ TagOf(field) \in tags

LEMMA FirstIs ==
  ASSUME NEW S, NEW fields, TaggedFields(fields, S), NEW tag
  PROVE  FirstOf(First(fields, tag), fields, {tag})
<1> DEFINE I == {i \in 1 .. Len(fields) : TagOf(fields[i]) = tag}
           p == IF I # {} THEN Min(I) ELSE 0
<1>1. First(fields, tag) = IF p = 0 THEN <<>> ELSE fields[p]
  BY DEF First, SelectInSeq
<1>2. Len(fields) \in Nat /\ \A i \in I : i \in 1 .. Len(fields) /\ fields[i] # <<>>
  BY DEF TaggedFields
<1>3. I # {} => p \in I
  <2> HIDE DEF I
  <2> QED BY <1>2, LeastOf
<1>4. \A i \in 1 .. Len(fields) : TagOf(fields[i]) \in {tag} <=> i \in I
  OBVIOUS
<1>5. CASE I = {}
  <2>1. First(fields, tag) = <<>>
    BY <1>1, <1>5
  <2>2. \A i \in 1 .. Len(fields) : TagOf(fields[i]) \notin {tag}
    BY <1>4, <1>5
  <2> QED
    BY <2>1, <2>2 DEF FirstOf
<1>6. CASE I # {}
  <2>1. p \in 1 .. Len(fields) /\ fields[p] # <<>> /\ TagOf(fields[p]) \in {tag}
    BY <1>2, <1>3, <1>6
  <2>2. p # 0
    BY <2>1
  <2> HIDE DEF p
  <2>3. First(fields, tag) = fields[p]
    BY <1>1, <2>2
  <2> QED
    BY <2>1, <2>3 DEF FirstOf
<1> QED
  BY <1>5, <1>6

LEMMA PrefixIs ==
  ASSUME NEW S, NEW fields, TaggedFields(fields, S), NEW prefix
  PROVE  FirstOf(FirstPrefix(fields, prefix), fields, Options(prefix))
<1> DEFINE I == {i \in 1 .. Len(fields) : TagOf(fields[i]) \in Options(prefix)}
           p == IF I # {} THEN Min(I) ELSE 0
<1>1. FirstPrefix(fields, prefix) = IF p = 0 THEN <<>> ELSE fields[p]
  BY DEF FirstPrefix, SelectInSeq
<1>2. Len(fields) \in Nat /\ \A i \in I : i \in 1 .. Len(fields) /\ fields[i] # <<>>
  BY DEF TaggedFields
<1>3. I # {} => p \in I
  <2> HIDE DEF I
  <2> QED BY <1>2, LeastOf
<1>4. \A i \in 1 .. Len(fields) : TagOf(fields[i]) \in Options(prefix) <=> i \in I
  OBVIOUS
<1>5. CASE I = {}
  <2>1. FirstPrefix(fields, prefix) = <<>>
    BY <1>1, <1>5
  <2>2. \A i \in 1 .. Len(fields) : TagOf(fields[i]) \notin Options(prefix)
    BY <1>4, <1>5
  <2> QED
    BY <2>1, <2>2 DEF FirstOf
<1>6. CASE I # {}
  <2>1. p \in 1 .. Len(fields) /\ fields[p] # <<>> /\ TagOf(fields[p]) \in Options(prefix)
    BY <1>2, <1>3, <1>6
  <2>2. p # 0
    BY <2>1
  <2> HIDE DEF p
  <2>3. FirstPrefix(fields, prefix) = fields[p]
    BY <1>1, <2>2
  <2> QED
    BY <2>1, <2>3 DEF FirstOf
<1> QED
  BY <1>5, <1>6

\* A tag without options is its own prefix.
LEMMA PlainTag ==
  ASSUME NEW S, NEW fields, TaggedFields(fields, S),
         NEW tag, tag \notin {"50", "58", "59", "60", "62"}
  PROVE  HasPrefix(fields, tag) => First(fields, tag) # <<>>
<1>1. Options(tag) = {tag}
  BY DEF Options
<1>2. FirstOf(FirstPrefix(fields, tag), fields, Options(tag)) /\ FirstOf(First(fields, tag), fields, {tag})
  BY PrefixIs, FirstIs
<1> QED
  BY <1>1, <1>2 DEF HasPrefix, FirstOf

\* Fields that are one group are that group.
LEMMA OneGroup ==
  ASSUME NEW F, NEW fields, fields \in Seq(F), fields # <<>>
  PROVE  /\ SplitStatements(fields) \in Seq(Seq(F)) /\ Len(SplitStatements(fields)) >= 1
         /\ Len(SplitStatements(fields)) = 1 => SplitStatements(fields)[1] = fields
<1> DEFINE q == SplitStatements(fields)
           n == Len(fields)
<1>1. q \in Seq(Seq(F)) /\ \E c : Starts(c, q, fields, n)
  BY SplitShape
<1>2. PICK c : Starts(c, q, fields, n)
  BY <1>1
<1>3. n \in Nat /\ n >= 1 /\ Len(q) \in Nat
  BY <1>1
<1> HIDE DEF q
<1>4. 1 \in 1 .. n
  BY <1>3
<1>5. \E i \in 1 .. Len(q) : 1 \in c[i] .. c[i + 1] - 1
  BY <1>2, <1>4 DEF Starts
<1>6. Len(q) >= 1
  BY <1>3, <1>5
<1>7. Len(q) = 1 => q[1] = SubSeq(fields, 1, n)
  <2> SUFFICES ASSUME Len(q) = 1 PROVE q[1] = SubSeq(fields, 1, n)
    OBVIOUS
  <2>1. c[1] = 1 /\ c[1 + 1] = n + 1 /\ q[1] = SubSeq(fields, c[1], c[1 + 1] - 1)
    <3>1. 1 \in 1 .. Len(q) /\ 1 + 1 = Len(q) + 1
      OBVIOUS
    <3> HIDE DEF n
    <3> QED BY <1>2, <3>1 DEF Starts
  <2>2. c[1 + 1] - 1 = n
    BY <1>3, <2>1
  <2> QED
    BY <2>1, <2>2
<1>8. SubSeq(fields, 1, n) = fields
  OBVIOUS
<1> QED
  BY <1>1, <1>6, <1>7, <1>8 DEF q

\* What a turn of that loop has.
LEMMA BodiesOf ==
  ASSUME NEW r, NEW f, NEW c, r = [from |-> f, bodies |-> c]
  PROVE  r.bodies = c
OBVIOUS

\* The loop over the blocks of a text finds the first block first.
LEMMA FirstBody ==
  ASSUME NEW S, NEW t, t \in Seq(S), Block(t) # <<>>
  PROVE  /\ Block4Bodies(t) \in Seq(Seq(S)) /\ Len(Block4Bodies(t)) >= 1
         /\ Block4Bodies(t)[1] = Block(t)[1]
<1>1. PICK b \in Seq(S) : Block(t) = <<b>>
  BY FirstBlock
<1>2. PICK g : BlockRuns(g, S, t) /\ BodiesFound(t, g[Len(t)].bodies)
  BY BlockRecursion
<1> DEFINE n == Len(t)
<1>3. /\ n \in Nat /\ g[0] = [from |-> 1, bodies |-> <<>>]
      /\ \A k \in 0 .. n : g[k] \in Found(S, t)
      /\ \A k \in 1 .. n : g[k] = TakeBlock(t, g[k - 1])
  BY <1>2 DEF BlockRuns
<1>4. n >= 1
  <2> SUFFICES ASSUME n = 0 PROVE FALSE
    BY <1>3
  <2>1. LinesFrom(t, 1, "{4:") = {}
    BY DEF LinesFrom
  <2> QED
    BY <2>1 DEF Block, BlockFrom
<1> DEFINE T == {k \in 0 .. n : k > 0 => g[k].bodies # <<>> /\ g[k].bodies[1] = b}
<1>5. 0 \in T
  BY <1>3
<1>6. ASSUME NEW k \in 1 .. n, k - 1 \in T PROVE g[k].bodies # <<>> /\ g[k].bodies[1] = b
  <2> DEFINE q == g[k - 1]
  <2>1. q \in Found(S, t) /\ g[k] = TakeBlock(t, q)
    BY <1>3
  <2>2. CASE k = 1
    <3>1. q.from = 1 /\ q.bodies = <<>> /\ BlockFrom(t, 1) = <<b>>
      BY <1>1, <1>3, <2>2 DEF Block
    <3> HIDE DEF q
    <3>2. <<b>> # <<>> /\ BlockFrom(t, q.from) = <<b>>
      BY Zenon, <3>1
    <3>3. TakeBlock(t, q) = [from   |-> AdvancePast(t, Min(LinesFrom(t, q.from, "{4:"))),
                             bodies |-> q.bodies \o BlockFrom(t, q.from)]
      BY Zenon, <3>2 DEF TakeBlock
    <3>4. g[k].bodies = q.bodies \o BlockFrom(t, q.from)
      <4> DEFINE f == AdvancePast(t, Min(LinesFrom(t, q.from, "{4:")))
                 c == q.bodies \o BlockFrom(t, q.from)
                 r == g[k]
      <4>1. r = [from |-> f, bodies |-> c]
        BY Zenon, <2>1, <3>3
      <4> HIDE DEF f, c, r
      <4>2. r.bodies = c
        BY ONLY Zenon, <4>1, BodiesOf
      <4> QED
        BY <4>2 DEF c, r
    <3>5. <<>> \o <<b>> = <<b>> /\ <<b>> # <<>> /\ <<b>>[1] = b
      OBVIOUS
    <3> QED
      BY ONLY Zenon, <3>1, <3>2, <3>4, <3>5
  <2>3. CASE k # 1
    <3>1. q.bodies \in Seq(Seq(S)) /\ q.bodies # <<>> /\ q.bodies[1] = b
      BY <1>6, <2>1, <2>3 DEF Found
    <3> HIDE DEF q
    <3>2. \/ g[k] = q
          \/ \E s, e, f : g[k] = [from |-> f, bodies |-> Append(q.bodies, SubSeq(t, s + 1, e - 1))]
      BY <2>1, BlockTaken
    <3>3. g[k].bodies = q.bodies \/ \E x : g[k].bodies = Append(q.bodies, x)
      BY ONLY Zenon, <3>2, BodiesOf
    <3>4. ASSUME NEW x PROVE Append(q.bodies, x)[1] = b /\ Append(q.bodies, x) # <<>>
      <4> DEFINE X == Seq(S) \cup {x}
      <4>1. q.bodies \in Seq(X) /\ x \in X /\ q.bodies # <<>> /\ q.bodies[1] = b
        BY <3>1
      <4> HIDE DEF X
      <4> QED
        BY ONLY <4>1
    <3> QED
      BY ONLY Zenon, <3>1, <3>3, <3>4
  <2> QED
    BY <2>2, <2>3
<1>7. n \in T
  <2>1. \A k \in 1 .. n : k - 1 \in T => k \in T
    BY <1>3, <1>6
  <2> HIDE DEF T
  <2>2. 0 .. n \subseteq T
    BY <1>3, <1>5, <2>1, PrefixInduction
  <2> QED
    BY <1>3, <2>2
<1>8. g[n].bodies # <<>> /\ g[n].bodies[1] = b /\ g[n].bodies \in Seq(Seq(S))
  BY <1>3, <1>4, <1>7 DEF T, Found
<1>9. Block4Bodies(t) = g[n].bodies
  BY <1>2, <1>8 DEF BodiesFound
<1> QED
  BY <1>1, <1>8, <1>9

\* When the reader makes one statement of a text, it is of the fields that the
\* rules look at.
LEMMA OneStatement ==
  ASSUME NEW S, content \in Seq(S), Fields # <<>>
  PROVE  /\ Groups(content) \in Seq(Seq(Seq(S)))
         /\ Len(Groups(content)) = 1 => Groups(content)[1] = Fields
<1> DEFINE t == content
           bodies == Block4Bodies(t)
           n == Len(bodies)
<1>1. /\ bodies \in Seq(Seq(S)) /\ n >= 1
      /\ Fields = ParseBody(bodies[1])
  <2>1. CASE Block(t) = <<>>
    <3>1. t \in Seq(S)
      OBVIOUS
    <3>2. PICK g : BlockRuns(g, S, t) /\ BodiesFound(t, g[Len(t)].bodies)
      BY BlockRecursion
    <3>3. \A k \in 1 .. Len(t) : g[k] = TakeBlock(t, g[k - 1])
      BY <3>2 DEF BlockRuns
    <3>4. g[0] = [from |-> 1, bodies |-> <<>>]
      BY <3>2 DEF BlockRuns
    <3> DEFINE T == {k \in 0 .. Len(t) : g[k] = g[0]}
    <3>5. Len(t) \in Nat /\ 0 \in T
      OBVIOUS
    <3>6. ASSUME NEW k \in 1 .. Len(t), k - 1 \in T PROVE k \in T
      <4>1. g[k - 1] = g[0] /\ g[k - 1].from = 1 /\ BlockFrom(t, 1) = <<>>
        BY <2>1, <3>4, <3>6 DEF Block
      <4>2. TakeBlock(t, g[k - 1]) = g[k - 1]
        BY <4>1 DEF TakeBlock
      <4>3. g[k] = g[0]
        BY <3>3, <4>1, <4>2
      <4> QED
        BY <4>3
    <3> HIDE DEF T
    <3>7. 0 .. Len(t) \subseteq T
      BY <3>5, <3>6, PrefixInduction
    <3>8. g[Len(t)].bodies = <<>>
      BY <3>4, <3>5, <3>7 DEF T
    <3>9. bodies = <<t>>
      BY <3>2, <3>8 DEF BodiesFound
    <3> QED
      BY <2>1, <3>1, <3>9 DEF Fields
  <2>2. CASE Block(t) # <<>>
    <3>1. bodies \in Seq(Seq(S)) /\ n >= 1 /\ bodies[1] = Block(t)[1]
      BY <2>2, FirstBody
    <3> QED
      BY <2>2, <3>1 DEF Fields
  <2> QED
    BY <2>1, <2>2
<1>2. PICK g : GroupRuns(g, S, bodies) /\ Groups(t) = g[n]
  BY <1>1, GroupRecursion
<1> DEFINE q == SplitStatements(Fields)
<1>3. /\ g[0] = <<>> /\ \A k \in 0 .. n : g[k] \in Seq(Seq(Seq(S)))
      /\ \A k \in 1 .. n : g[k] = g[k - 1] \o SplitStatements(ParseBody(bodies[k]))
  BY <1>2 DEF GroupRuns
<1>4. Fields \in Seq(Seq(S))
  BY FieldsShape DEF TaggedFields
<1>5. q \in Seq(Seq(Seq(S))) /\ Len(q) >= 1 /\ (Len(q) = 1 => q[1] = Fields)
  BY <1>4, OneGroup
<1>6. n \in Nat /\ 1 \in 1 .. n
  BY <1>1
<1>7. \A k \in 1 .. n : SplitStatements(ParseBody(bodies[k])) \in Seq(Seq(Seq(S)))
  BY <1>1, BodyGroups
<1>8. g[1] = q
  <2>1. g[1] = g[1 - 1] \o SplitStatements(ParseBody(bodies[1]))
    BY Zenon, <1>3, <1>6
  <2>2. 1 - 1 = 0
    OBVIOUS
  <2>3. SplitStatements(ParseBody(bodies[1])) = q
    BY Zenon, <1>1
  <2> HIDE DEF q, bodies, n
  <2>4. g[1] = <<>> \o q
    BY ONLY Zenon, <1>3, <2>1, <2>2, <2>3
  <2> QED
    BY <1>5, <2>4
<1> HIDE DEF n, bodies, q
<1> DEFINE T == {k \in 0 .. n : k > 0 => /\ Len(g[k]) >= Len(q)
                                         /\ \A i \in 1 .. Len(q) : g[k][i] = q[i]}
<1>9. 0 \in T
  BY <1>6
<1>10. ASSUME NEW k \in 1 .. n, k - 1 \in T PROVE k \in T
  <2>1. CASE k = 1
    BY <1>8, <2>1
  <2>2. CASE k # 1
    <3> DEFINE u == SplitStatements(ParseBody(bodies[k]))
    <3>1. /\ k - 1 \in 0 .. n /\ g[k - 1] \in Seq(Seq(Seq(S))) /\ u \in Seq(Seq(Seq(S)))
          /\ g[k] = g[k - 1] \o u
      <4>1. k - 1 \in 0 .. n
        BY <1>6
      <4>2. g[k] = g[k - 1] \o u /\ u \in Seq(Seq(Seq(S)))
        BY Zenon, <1>3, <1>7
      <4> QED
        BY Zenon, <1>3, <4>1, <4>2
    <3>2. Len(g[k - 1]) >= Len(q) /\ \A i \in 1 .. Len(q) : g[k - 1][i] = q[i]
      BY <1>10, <2>2
    <3> HIDE DEF u, T
    <3>3. /\ Len(g[k]) = Len(g[k - 1]) + Len(u) /\ Len(u) \in Nat /\ Len(g[k - 1]) \in Nat
          /\ \A i \in 1 .. Len(g[k - 1]) : g[k][i] = g[k - 1][i]
      <4> DEFINE X == Seq(Seq(S))
      <4>1. g[k - 1] \in Seq(X) /\ u \in Seq(X)
        BY <3>1
      <4> HIDE DEF X
      <4> QED BY <3>1, <4>1, Concat
    <3>4. Len(q) \in Nat
      BY <1>5
    <3>5. Len(g[k]) >= Len(q) /\ \A i \in 1 .. Len(q) : g[k][i] = q[i]
      BY <3>2, <3>3, <3>4
    <3> QED
      BY <3>5 DEF T
  <2> QED
    BY <2>1, <2>2
<1> HIDE DEF T
<1>11. n \in T
  <2>1. 0 .. n \subseteq T
    BY <1>6, <1>9, <1>10, PrefixInduction
  <2> QED
    BY <1>6, <2>1
<1>12. Len(g[n]) >= Len(q) /\ \A i \in 1 .. Len(q) : g[n][i] = q[i]
  BY <1>6, <1>11 DEF T
<1>13. Groups(t) = g[n] /\ g[n] \in Seq(Seq(Seq(S)))
  BY <1>2, <1>3, <1>6
<1>14. Len(g[n]) = 1 => Len(q) = 1 /\ g[n][1] = q[1]
  BY <1>5, <1>12, <1>13
<1> QED
  BY <1>5, <1>13, <1>14

\* The kind of a field's first line is its tag, but for the floor limits.
LEMMA KindOfTag ==
  ASSUME NEW field, NEW tag, TagOf(field) = tag, tag # "34F"
  PROVE  Head(field).kind = tag
BY DEF TagOf

\* An amount that the rules let pass keeps them.
LEMMA AmountRead ==
  ASSUME NEW S, \A l \in S : IsLine(l), NEW field, field \in Seq(S), field # <<>>,
         TagOf(field) = "32A", Parse32a(field).decimals # None,
         CheckCurrency(Parse32a(field).ccy, Parse32a(field).decimals) = {}
  PROVE  AmountIsSound(Parse32a(field))
<1> DEFINE l == Head(field)
           a == Amounts[l.value]
<1>1. l \in S /\ l.kind = "32A"
  BY KindOfTag
<1>2. l.value \in DOMAIN Amounts
  BY <1>1 DEF IsLine
<1>3. /\ a # None /\ a.decimals \in Nat \cup {None}
      /\ a.ccy = None => a.decimals = None
  BY <1>2, ValidationAssumption
<1>4. Parse32a(field) = IF Whole(field) THEN a ELSE [ccy |-> a.ccy, decimals |-> None]
  BY DEF Parse32a, Value
<1> HIDE DEF a
<1>5. Parse32a(field) = a
  BY <1>4
<1>6. a.decimals \in Nat /\ a.decimals # None /\ a.ccy # None
  BY <1>3, <1>5
<1>7. a.ccy \in DOMAIN MinorUnit /\ MinorUnit[a.ccy] \in 0 .. 3
  BY <1>5, <1>6, FieldRulesAssumption DEF CheckCurrency
<1>8. a.decimals <= MinorUnit[a.ccy]
  <2>1. CheckCurrency(a.ccy, a.decimals) = IF a.decimals > MinorUnit[a.ccy] THEN {"CCY020"} ELSE {}
    BY <1>6, <1>7 DEF CheckCurrency
  <2>2. CheckCurrency(a.ccy, a.decimals) = {}
    BY <1>5
  <2>3. ~(a.decimals > MinorUnit[a.ccy])
    BY <2>1, <2>2
  <2> QED
    BY <1>6, <1>7, <2>3
<1> QED
  BY <1>3, <1>5, <1>6, <1>7, <1>8 DEF AmountIsSound

\* No rule finds anything in fields: what each of them looks at.
GoodFields(fields, code) ==
  /\ fields # <<>>
  /\ \A tag \in Mandatory(code) : HasPrefix(fields, tag)
  /\ CheckAmount(fields) = {} /\ CheckCharges(fields) = {}
  /\ CheckBics(fields) = {} /\ CheckIbans(fields) = {}
  /\ header.uetr # "other"

LEMMA MtErrorsAre == MtErrors = {} <=> GoodFields(Fields, header.code)
BY DEF MtErrors, GoodFields, ErrorIf

\* The amount of fields in which no rule finds anything.
LEMMA AmountOfGood ==
  ASSUME NEW S, \A l \in S : IsLine(l), NEW fields, TaggedFields(fields, S),
         First(fields, "32A") # <<>>, CheckAmount(fields) = {}
  PROVE  AmountIsSound(Amount(fields))
<1> DEFINE f == First(fields, "32A")
<1>1. FirstOf(f, fields, {"32A"})
  BY FirstIs
<1>2. f # <<>>
  OBVIOUS
<1>3. Amount(fields) = Parse32a(f)
  BY <1>2 DEF Amount
<1>4. CheckCurrency(Parse32a(f).ccy, Parse32a(f).decimals) = {} /\ Parse32a(f).decimals # None
  BY <1>2 DEF CheckAmount
<1> HIDE DEF f
<1>5. PICK m \in 1 .. Len(fields) : f = fields[m] /\ TagOf(f) \in {"32A"}
  BY <1>1, <1>2 DEF FirstOf
<1>6. f \in Seq(S) /\ TagOf(f) = "32A"
  BY <1>5 DEF TaggedFields
<1> QED
  BY <1>2, <1>3, <1>4, <1>6, AmountRead

\* The account of a party that no rule objects to.
LEMMA AccountOfGood ==
  ASSUME NEW fields, NEW prefix \in {"50", "59"}, HasPrefix(fields, prefix),
         CheckIbans(fields) = {}
  PROVE  Account(FirstPrefix(fields, prefix)) # "/bad iban"
<1> DEFINE f == FirstPrefix(fields, prefix)
<1>1. f # <<>>
  BY DEF HasPrefix
<1>2. Value(f) # "/bad iban"
  BY DEF CheckIbans
<1>3. None # "/bad iban"
  BY FieldRulesAssumption
<1> HIDE DEF f
<1> QED
  BY <1>1, <1>2, <1>3 DEF Account, f

\* The one row of a reader is the one of its sequence of rows.
LEMMA OneRow ==
  ASSUME NEW r
  PROVE  r \in Range(<<r>>)
<1>1. 1 \in DOMAIN <<r>> /\ <<r>>[1] = r
  OBVIOUS
<1> QED
  BY Zenon, <1>1 DEF Range

\* A customer transfer that passes.
LEMMA Passed103 ==
  ASSUME NEW S, \A l \in S : IsLine(l), content \in Seq(S), header.code = "103",
         GoodFields(Fields, "103")
  PROVE  MtRowsAreSound
<1> DEFINE fields == Fields
           row == ParseMt103(fields)
<1>1. TaggedFields(fields, S) /\ GoodFields(fields, "103")
  BY FieldsShape
<1>2. Mandatory("103") = {"20", "23B", "32A", "50", "59"}
  BY DEF Mandatory
<1>3. Mt103Rows = IF First(fields, "20") = <<>> THEN <<>> ELSE <<row>>
  BY DEF Mt103Rows
<1> HIDE DEF fields
<1>4. /\ First(fields, "20") # <<>> /\ First(fields, "23B") # <<>> /\ First(fields, "32A") # <<>>
      /\ HasPrefix(fields, "50") /\ HasPrefix(fields, "59")
  <2>1. \A tag \in {"20", "23B", "32A", "50", "59"} : HasPrefix(fields, tag)
    BY <1>1, <1>2 DEF GoodFields
  <2> QED
    BY <1>1, <2>1, PlainTag
<1>5. /\ row.op_code = First(fields, "23B") /\ row.amount = Amount(fields)
      /\ row.ordering = FirstPrefix(fields, "50") /\ row.beneficiary = FirstPrefix(fields, "59")
      /\ row.charges = First(fields, "71A") /\ row.uetr = header.uetr
  BY DEF ParseMt103
<1> HIDE DEF row
<1>6. AmountIsSound(row.amount)
  BY <1>1, <1>4, <1>5, AmountOfGood DEF GoodFields
<1>7. PartiesAreSound(row)
  <2>1. /\ Account(row.ordering) # "/bad iban" /\ Account(row.beneficiary) # "/bad iban"
        /\ row.ordering # <<>> /\ row.beneficiary # <<>>
    BY <1>1, <1>4, <1>5, AccountOfGood DEF GoodFields, HasPrefix
  <2> QED
    BY <2>1 DEF PartiesAreSound
<1>8. row.charges # <<>> => Value(row.charges) = "charges"
  BY <1>1, <1>5 DEF GoodFields, CheckCharges
<1>9. row.op_code # <<>> /\ row.uetr # "other"
  BY <1>1, <1>4, <1>5 DEF GoodFields
<1>10. Mt103Rows = <<row>>
  BY <1>3, <1>4
<1>11. row \in Range(Mt103Rows)
  BY Zenon, <1>10, OneRow
<1> QED
  BY <1>6, <1>7, <1>8, <1>9, <1>11 DEF MtRowsAreSound

\* A bank transfer that passes.
LEMMA Passed202 ==
  ASSUME NEW S, \A l \in S : IsLine(l), content \in Seq(S), header.code = "202",
         GoodFields(Fields, "202")
  PROVE  MtRowsAreSound
<1> DEFINE fields == Fields
           row == ParseMt202(fields)
<1>1. TaggedFields(fields, S) /\ GoodFields(fields, "202")
  BY FieldsShape
<1>2. Mandatory("202") = {"20", "21", "32A", "58"}
  BY DEF Mandatory
<1>3. Mt202Rows = IF First(fields, "20") = <<>> THEN <<>> ELSE <<row>>
  BY DEF Mt202Rows
<1> HIDE DEF fields
<1>4. /\ First(fields, "20") # <<>> /\ First(fields, "21") # <<>> /\ First(fields, "32A") # <<>>
      /\ HasPrefix(fields, "58")
  <2>1. \A tag \in {"20", "21", "32A", "58"} : HasPrefix(fields, tag)
    BY <1>1, <1>2 DEF GoodFields
  <2> QED
    BY <1>1, <2>1, PlainTag
<1>5. /\ row.related = First(fields, "21") /\ row.amount = Amount(fields)
      /\ row.beneficiary = FirstPrefix(fields, "58") /\ row.uetr = header.uetr
  BY DEF ParseMt202
<1> HIDE DEF row
<1>6. AmountIsSound(row.amount)
  BY <1>1, <1>4, <1>5, AmountOfGood DEF GoodFields
<1>7. row.related # <<>> /\ row.beneficiary # <<>> /\ row.uetr # "other"
  BY <1>1, <1>4, <1>5 DEF GoodFields, HasPrefix
<1>8. Mt202Rows = <<row>>
  BY <1>3, <1>4
<1>9. row \in Range(Mt202Rows)
  BY Zenon, <1>8, OneRow
<1> QED
  BY <1>6, <1>7, <1>9 DEF MtRowsAreSound

\* One of two tags is found when one of them is there.
LEMMA EitherFound ==
  ASSUME NEW S, NEW fields, TaggedFields(fields, S), NEW prefix, NEW a, NEW b,
         Options(prefix) = {a, b}, HasPrefix(fields, prefix)
  PROVE  Either(fields, a, b) # <<>>
<1>1. /\ FirstOf(FirstPrefix(fields, prefix), fields, {a, b})
      /\ FirstOf(First(fields, a), fields, {a}) /\ FirstOf(First(fields, b), fields, {b})
  BY PrefixIs, FirstIs
<1>2. First(fields, a) # <<>> \/ First(fields, b) # <<>>
  BY <1>1 DEF FirstOf, HasPrefix
<1> QED
  BY <1>2 DEF Either

\* A file of one statement that passes.
LEMMA Passed940 ==
  ASSUME NEW S, content \in Seq(S), header.code = "940", GoodFields(Fields, "940")
  PROVE  MtRowsAreSound
<1> DEFINE fields == Fields
<1>1. TaggedFields(fields, S) /\ GoodFields(fields, "940")
  BY FieldsShape
<1>2. Mandatory("940") = {"20", "25", "60", "62"}
  BY DEF Mandatory
<1>3. Options("60") = {"60F", "60M"} /\ Options("62") = {"62F", "62M"}
  BY DEF Options
<1>4. /\ First(fields, "20") # <<>> /\ First(fields, "25") # <<>>
      /\ Either(fields, "60F", "60M") # <<>> /\ Either(fields, "62F", "62M") # <<>>
  <2>1. \A tag \in {"20", "25", "60", "62"} : HasPrefix(fields, tag)
    <3> HIDE DEF fields
    <3> QED BY <1>1, <1>2 DEF GoodFields
  <2> HIDE DEF fields
  <2> QED
    BY <1>1, <1>3, <2>1, PlainTag, EitherFound
<1>5. ASSUME Len(Statements) = 1, NEW st \in Range(Statements)
      PROVE  st = StatementFromFields(fields)
  <2> DEFINE q == Groups(content)
  <2>1. Statements = [g \in DOMAIN q |-> StatementFromFields(q[g])]
    BY DEF Statements
  <2>2. q \in Seq(Seq(Seq(S))) /\ (Len(q) = 1 => q[1] = fields)
    BY <1>1, OneStatement DEF GoodFields
  <2> HIDE DEF q, fields
  <2>3. DOMAIN q = 1 .. Len(q) /\ Len(q) \in Nat
    BY <2>2
  <2>4. Len(Statements) = Len(q) /\ DOMAIN Statements = 1 .. Len(q)
    BY <2>1, <2>3
  <2>5. q[1] = fields /\ DOMAIN Statements = {1}
    BY <1>5, <2>2, <2>4
  <2>6. st = Statements[1]
    BY <1>5, <2>5 DEF Range
  <2> QED
    BY <2>1, <2>3, <2>4, <2>5, <2>6
<1> HIDE DEF fields
<1>6. ASSUME Len(Statements) = 1, NEW st \in Range(Statements)
      PROVE  <<>> \notin {st.ref, st.account, st.opening, st.closing}
  <2>1. st = StatementFromFields(fields)
    BY <1>5, <1>6
  <2>2. /\ st.ref = First(fields, "20") /\ st.account = First(fields, "25")
        /\ st.opening = Either(fields, "60F", "60M") /\ st.closing = Either(fields, "62F", "62M")
    BY <2>1 DEF StatementFromFields
  <2> QED
    BY <1>4, <2>2
<1> QED
  BY <1>6 DEF MtRowsAreSound

\* A green ok of an MT means that its rows keep the rules.
LEMMA OkMtIsSound ==
  ASSUME NEW S, \A l \in S : IsLine(l), content \in Seq(S), MtErrors = {}
  PROVE  MtRowsAreSound
<1>1. GoodFields(Fields, header.code)
  BY MtErrorsAre
<1>2. CASE header.code = "103"
  BY <1>1, <1>2, Passed103
<1>3. CASE header.code = "202"
  BY <1>1, <1>3, Passed202
<1>4. CASE header.code = "940"
  BY <1>1, <1>4, Passed940
<1>5. CASE header.code \notin {"103", "202", "940"}
  <2>1. "20" \in Mandatory(header.code)
    BY <1>5 DEF Mandatory
  <2>2. First(Fields, "20") # <<>>
    BY <1>1, <2>1, FieldsShape, PlainTag DEF GoodFields
  <2> QED
    BY <1>5, <2>2 DEF MtRowsAreSound
<1> QED
  BY <1>2, <1>3, <1>4, <1>5

\* A tagged line after another is a field after another.
LEMMA TaggedLines ==
  ASSUME NEW S, NEW lines, lines \in Seq(S), \A i \in 1 .. Len(lines) : IsTag(lines[i])
  PROVE  LET fields == ParseBody(lines)
         IN Len(fields) = Len(lines) /\ \A i \in 1 .. Len(lines) : fields[i] = <<lines[i]>>
<1> DEFINE n == Len(lines)
<1>1. PICK g : ParseRuns(g, S, lines) /\ ParseBody(lines) = g[n]
  BY ParseRecursion
<1>2. /\ n \in Nat /\ g[0] = <<>> /\ \A k \in 0 .. n : g[k] \in Seq(Seq(S))
      /\ \A k \in 1 .. n : g[k] = TakeLine(g[k - 1], lines[k])
  <2>1. n \in Nat
    OBVIOUS
  <2>2. /\ g \in [0 .. n -> Seq(Seq(S))] /\ g[0] = <<>>
        /\ \A k \in 1 .. n : g[k] = TakeLine(g[k - 1], lines[k])
    BY <1>1 DEF ParseRuns
  <2> HIDE DEF n
  <2> DEFINE X == Seq(Seq(S))
  <2>3. \A k \in 0 .. n : g[k] \in X
    <3> HIDE DEF X
    <3> QED BY <2>2 DEF X
  <2> QED
    BY <2>1, <2>2, <2>3
<1> DEFINE T == {k \in 0 .. n : Len(g[k]) = k /\ \A i \in 1 .. k : g[k][i] = <<lines[i]>>}
<1>3. 0 \in T
  BY <1>2
<1>4. ASSUME NEW k \in 1 .. n, k - 1 \in T PROVE k \in T
  <2> DEFINE q == g[k - 1]
             l == <<lines[k]>>
  <2>1. g[k] = Append(q, l)
    BY <1>2 DEF TakeLine
  <2>2. k - 1 \in 0 .. n /\ l \in Seq(S)
    BY <1>2
  <2>3. q \in Seq(Seq(S)) /\ Len(q) = k - 1 /\ \A i \in 1 .. k - 1 : q[i] = <<lines[i]>>
    BY <1>2, <1>4, <2>2
  <2> DEFINE X == Seq(S)
  <2>4. q \in Seq(X) /\ l \in X
    BY <2>2, <2>3
  <2> HIDE DEF q, X, l
  <2>5. /\ Len(Append(q, l)) = Len(q) + 1 /\ Append(q, l)[Len(q) + 1] = l
        /\ \A i \in 1 .. Len(q) : Append(q, l)[i] = q[i]
    BY <2>4, Longer
  <2>6. Len(g[k]) = k /\ g[k][k] = l /\ \A i \in 1 .. k - 1 : g[k][i] = <<lines[i]>>
    BY <2>1, <2>3, <2>5
  <2>7. \A i \in 1 .. k : i \in 1 .. k - 1 \/ i = k
    OBVIOUS
  <2>8. \A i \in 1 .. k : g[k][i] = <<lines[i]>>
    BY <2>6, <2>7 DEF l
  <2> QED
    BY <2>6, <2>8
<1> HIDE DEF T
<1>5. n \in T
  <2>1. 0 .. n \subseteq T
    BY <1>2, <1>3, <1>4, PrefixInduction
  <2> QED
    BY <1>2, <2>1
<1> QED
  BY <1>1, <1>5 DEF T

\* The tags that a message must have, and the kinds of line they stand for.
LEMMA MandatoryKinds ==
  ASSUME NEW code, NEW tag \in Mandatory(code), NEW line, line.kind \in Options(tag)
  PROVE  TagOf(<<line>>) \in Options(tag)
<1>1. tag \in {"20", "23B", "32A", "50", "59", "21", "58", "25", "60", "62", "34F"}
  BY DEF Mandatory
<1>2. TagOf(<<line>>) = IF line.kind \in FloorLimitKinds THEN "34F" ELSE line.kind
  BY DEF TagOf
<1>3. line.kind \in FloorLimitKinds => line.kind = "34F"
  BY <1>1 DEF FloorLimitKinds, Options
<1> QED
  BY <1>2, <1>3

\* A good line in a field of its own.
LEMMA LineInField ==
  ASSUME NEW S, \A l \in S : IsLine(l),
         NEW lines, lines \in Seq(S), \A i \in 1 .. Len(lines) : IsTag(lines[i]) /\ Good(lines[i]),
         NEW field, NEW tags, FirstOf(field, ParseBody(lines), tags), field # <<>>
  PROVE  \E l \in S : field = <<l>> /\ Good(l) /\ TagOf(field) \in tags
<1> DEFINE fields == ParseBody(lines)
<1>1. Len(fields) = Len(lines) /\ \A i \in 1 .. Len(lines) : fields[i] = <<lines[i]>>
  BY TaggedLines
<1> HIDE DEF fields
<1>2. PICK m \in 1 .. Len(fields) : field = fields[m] /\ TagOf(field) \in tags
  BY DEF FirstOf, fields
<1>3. m \in 1 .. Len(lines) /\ lines[m] \in S
  BY <1>1, <1>2
<1> QED
  BY <1>1, <1>2, <1>3

\* An amount that keeps the rules is let pass.
LEMMA AmountPasses ==
  ASSUME NEW S, \A l \in S : IsLine(l), NEW l \in S, l.kind = "32A", Good(l)
  PROVE  /\ CheckCurrency(Parse32a(<<l>>).ccy, Parse32a(<<l>>).decimals) = {}
         /\ Parse32a(<<l>>).decimals # None
<1> DEFINE a == Amounts[l.value]
<1>1. AmountIsSound(a)
  BY DEF Good
<1>2. Parse32a(<<l>>) = a
  BY DEF Parse32a, Whole, Value
<1> HIDE DEF a
<1>3. a.decimals # None /\ a.ccy \in DOMAIN MinorUnit /\ a.decimals <= MinorUnit[a.ccy]
  BY <1>1 DEF AmountIsSound
<1>4. MinorUnit[a.ccy] \in Nat /\ a.ccy # None
  <2>1. MinorUnit \in [DOMAIN MinorUnit -> 0 .. 3] /\ None \notin DOMAIN MinorUnit
    BY FieldRulesAssumption
  <2>2. MinorUnit[a.ccy] \in 0 .. 3
    BY <1>3, <2>1
  <2> QED
    BY <1>3, <2>1, <2>2
<1>5. a.decimals \in Nat
  <2>1. l.value \in DOMAIN Amounts
    BY DEF IsLine
  <2> QED
    BY <1>3, <2>1, ValidationAssumption DEF a
<1>6. CheckCurrency(a.ccy, a.decimals) = {}
  BY <1>3, <1>4, <1>5 DEF CheckCurrency
<1> QED
  BY <1>2, <1>3, <1>6

\* No false alarm over an MT: good lines pass when the mandatory ones are there.
LEMMA SoundMtIsOk ==
  ASSUME NEW S, \A l \in S : IsLine(l), content \in Seq(S), header.uetr # "other",
         \A i \in DOMAIN content : IsTag(content[i]) /\ Good(content[i]),
         \A tag \in Mandatory(header.code) : \E i \in DOMAIN content : content[i].kind \in Options(tag)
  PROVE  IsMt /\ MtErrors = {}
<1> DEFINE fields == Fields
<1>1. Len(content) \in Nat /\ DOMAIN content = 1 .. Len(content)
  OBVIOUS
<1>2. fields = ParseBody(content)
  <2>1. Bare(content)
    BY <1>1 DEF Bare, IsTag, NotTags, Openers
  <2> QED
    BY <2>1, NoBlocks DEF Fields
<1> HIDE DEF fields
<1>3. TaggedFields(fields, S)
  BY <1>2, ParsedAreTagged
<1>4. Len(fields) = Len(content) /\ \A i \in 1 .. Len(content) : fields[i] = <<content[i]>>
  BY <1>1, <1>2, TaggedLines
<1>5. ASSUME NEW field, NEW tags, FirstOf(field, fields, tags), field # <<>>
      PROVE  \E l \in S : field = <<l>> /\ Good(l) /\ TagOf(field) \in tags
  BY <1>1, <1>2, <1>5, LineInField
<1>6. ASSUME NEW tag \in Mandatory(header.code) PROVE HasPrefix(fields, tag)
  <2>1. PICK i \in DOMAIN content : content[i].kind \in Options(tag)
    OBVIOUS
  <2>2. TagOf(fields[i]) \in Options(tag)
    BY <1>1, <1>4, <2>1, MandatoryKinds
  <2> QED
    BY <1>1, <1>3, <1>4, <2>2, PrefixIs DEF HasPrefix, FirstOf
<1>7. CheckAmount(fields) = {}
  <2> DEFINE f == First(fields, "32A")
  <2>1. CASE f = <<>>
    BY <2>1 DEF CheckAmount
  <2>2. CASE f # <<>>
    <3>1. FirstOf(f, fields, {"32A"})
      BY <1>3, FirstIs
    <3>2. PICK l \in S : f = <<l>> /\ Good(l) /\ TagOf(f) \in {"32A"}
      BY <1>5, <2>2, <3>1
    <3>3. l.kind = "32A"
      BY <3>2, KindOfTag
    <3>4. CheckCurrency(Parse32a(f).ccy, Parse32a(f).decimals) = {} /\ Parse32a(f).decimals # None
      BY <3>2, <3>3, AmountPasses
    <3> QED
      BY <2>2, <3>4 DEF CheckAmount
  <2> QED
    BY <2>1, <2>2
<1>8. CheckCharges(fields) = {}
  <2> DEFINE f == First(fields, "71A")
  <2>1. CASE f = <<>>
    BY <2>1 DEF CheckCharges
  <2>2. CASE f # <<>>
    <3>1. FirstOf(f, fields, {"71A"})
      BY <1>3, FirstIs
    <3>2. PICK l \in S : f = <<l>> /\ Good(l) /\ TagOf(f) \in {"71A"}
      BY <1>5, <2>2, <3>1
    <3>3. l.kind = "71A"
      BY <3>2, KindOfTag
    <3>4. l.value = "charges"
      BY <3>2, <3>3 DEF Good, IsLine
    <3>5. Whole(f) /\ Value(f) = "charges"
      BY <3>2, <3>4 DEF Whole, Value
    <3> QED
      BY <3>5 DEF CheckCharges
  <2> QED
    BY <2>1, <2>2
<1>9. CheckBics(fields) = {}
  <2> SUFFICES ASSUME NEW tag \in {"57A", "58A"}, First(fields, tag) # <<>>
               PROVE  Last(First(fields, tag)).value \in {"bic", "empty"}
    BY DEF CheckBics
  <2> DEFINE f == First(fields, tag)
  <2>1. FirstOf(f, fields, {tag})
    BY <1>3, FirstIs
  <2>2. PICK l \in S : f = <<l>> /\ Good(l) /\ TagOf(f) \in {tag}
    BY <1>5, <2>1
  <2>3. l.kind = tag
    BY <2>2, KindOfTag
  <2>4. l.value \in {"bic", "empty"}
    BY <2>2, <2>3 DEF Good, IsLine
  <2>5. Last(f) = l
    BY <2>2 DEF Last
  <2> QED
    BY <2>4, <2>5
<1>10. CheckIbans(fields) = {}
  <2> SUFFICES ASSUME NEW prefix \in {"50", "59"}, HasPrefix(fields, prefix)
               PROVE  Value(FirstPrefix(fields, prefix)) # "/bad iban"
    BY DEF CheckIbans
  <2> DEFINE f == FirstPrefix(fields, prefix)
  <2>1. FirstOf(f, fields, Options(prefix)) /\ f # <<>>
    BY <1>3, PrefixIs DEF HasPrefix
  <2>2. PICK l \in S : f = <<l>> /\ Good(l) /\ TagOf(f) \in Options(prefix)
    BY <1>5, <2>1
  <2>3. TagOf(f) \in {"50A", "50F", "50K", "59", "59A", "59F"}
    BY <2>2 DEF Options
  <2>4. l.kind # "32A"
    BY <2>2, <2>3, KindOfTag
  <2>5. l.value # "/bad iban"
    BY <2>2, <2>4 DEF Good
  <2>6. Value(f) = l.value
    BY <2>2 DEF Value
  <2> HIDE DEF f
  <2> QED
    BY <2>5, <2>6 DEF f
<1>11. \E tag : tag \in Mandatory(header.code)
  <2>1. "20" \in Mandatory(header.code)
    BY DEF Mandatory
  <2> QED
    BY <2>1
<1>12. fields # <<>>
  <2>1. Len(content) # 0
    BY <1>1, <1>11
  <2> QED
    BY <1>4, <2>1
<1>13. IsMt
  <2>1. PICK i \in DOMAIN content : content[i].kind \in Options("20")
    BY DEF Mandatory
  <2>2. content[i].kind = "20"
    BY <2>1 DEF Options
  <2> QED
    BY <2>2 DEF IsMt
<1>14. GoodFields(fields, header.code)
  BY <1>6, <1>7, <1>8, <1>9, <1>10, <1>12 DEF GoodFields
<1> QED
  BY <1>13, <1>14, MtErrorsAre DEF fields
-----------------------------------------------------------------------------
\* The inductive invariant: the message is one that occurs, and it is written
\* in lines or elements that messages of its type have.
MessageOk ==
  /\ header \in Headers
  /\ content \in Seq(Pieces[header.code])

\* What is assumed of the headers and the pieces, of a message that occurs.
LEMMA MessageShape ==
  ASSUME MessageOk
  PROVE  /\ header.uetr \in {None, "uuid", "other"}
         /\ header.code \in MtCodes \cup MxIds
         /\ IsMx => /\ AreElements(header.code, content)
                    /\ header.tree = "whole" => IsWhole(header.text, header.code)
         /\ ~IsMx => \A l \in Pieces[header.code] : IsLine(l)
<1> DEFINE h == header
           S == Pieces[header.code]
<1>1. h \in Headers /\ content \in Seq(S)
  BY DEF MessageOk
<1>2. /\ h.code \in DOMAIN Pieces /\ h.uetr \in {None, "uuid", "other"}
      /\ h.code \in MxIds /\ h.tree = "whole" => IsWhole(h.text, h.code)
      /\ DOMAIN Pieces \subseteq MtCodes \cup MxIds
  BY <1>1, ValidationAssumption
<1>3. \A p \in S : IF h.code \in MxIds THEN IsElement(h.code, p) ELSE IsLine(p)
  BY <1>2, ValidationAssumption
<1>4. \A i \in DOMAIN content : content[i] \in S
  BY <1>1
<1> QED
  BY <1>2, <1>3, <1>4 DEF IsMx, AreElements

\* A document that has a type is not without one.
LEMMA IdIsKnown == Unknown \notin MxIds /\ "head.001" # Unknown
BY DEF Unknown, MxIds

\* iso20022_validate, by the family of the message.
LEMMA OkOfMx ==
  ASSUME IsMx, MxType(header.text) # Unknown
  PROVE  Ok <=> MxErrors(MxType(header.text), header.code, header.tree, content) = {}
BY Zenon DEF Ok, Errors

LEMMA OkOfMt ==
  ASSUME ~IsMx
  PROVE  Ok <=> IsMt /\ MtErrors = {}
BY Zenon DEF Ok, Errors

\* The two properties of a message.
LEMMA OkIsSoundOfMessage ==
  ASSUME MessageOk
  PROVE  OkIsReadSound
<1> SUFFICES ASSUME Ok
             PROVE  IF ~IsMx THEN MtRowsAreSound
                    ELSE header.tree = "whole" /\ ~HeaderHidesBody(header.text)
                           => RowsAreSound(header.code, content)
  BY DEF OkIsReadSound
<1> DEFINE S == Pieces[header.code]
<1>1. content \in Seq(S)
  BY DEF MessageOk
<1>2. CASE ~IsMx
  <2>1. MtErrors = {} /\ \A l \in S : IsLine(l)
    BY <1>2, OkOfMt, MessageShape
  <2> HIDE DEF S
  <2>2. MtRowsAreSound
    BY <1>1, <2>1, OkMtIsSound
  <2> QED
    BY <1>2, <2>2
<1>3. CASE IsMx
  <2> SUFFICES ASSUME header.tree = "whole", ~HeaderHidesBody(header.text)
               PROVE  RowsAreSound(header.code, content)
    BY <1>3
  <2>1. AreElements(header.code, content) /\ IsWhole(header.text, header.code)
    BY <1>3, MessageShape
  <2>2. MxType(header.text) = header.code /\ header.code \in MxIds
    BY <1>3, <2>1, TypeOfWhole DEF IsMx
  <2>3. MxType(header.text) # Unknown
    BY <2>2, IdIsKnown
  <2>4. MxErrors(header.code, header.code, "whole", content) = {}
    BY <1>3, <2>2, <2>3, OkOfMx
  <2> HIDE DEF S
  <2> QED
    BY <1>1, <2>1, <2>2, <2>4, MxAgrees
<1> QED
  BY <1>2, <1>3

LEMMA SoundIsOkOfMessage ==
  ASSUME MessageOk
  PROVE  SoundIsOk
<1> DEFINE S == Pieces[header.code]
<1>1. content \in Seq(S)
  BY DEF MessageOk
<1>2. CASE ~IsMx
  <2> SUFFICES ASSUME header.uetr # "other",
                      \A i \in DOMAIN content : IsTag(content[i]) /\ Good(content[i]),
                      \A tag \in Mandatory(header.code) :
                        \E i \in DOMAIN content : content[i].kind \in Options(tag)
               PROVE  Ok
    BY <1>2 DEF SoundIsOk
  <2>1. \A l \in S : IsLine(l)
    BY <1>2, MessageShape
  <2> HIDE DEF S
  <2>2. IsMt /\ MtErrors = {}
    BY <1>1, <2>1, SoundMtIsOk
  <2> QED
    BY <1>2, <2>2, OkOfMt
<1>3. CASE IsMx
  <2> SUFFICES ASSUME header.tree = "whole", RowsAreSound(header.code, content),
                      NothingUnread(content)
               PROVE  Ok
    BY <1>3 DEF SoundIsOk, NothingUnread
  <2>1. AreElements(header.code, content) /\ IsWhole(header.text, header.code)
    BY <1>3, MessageShape
  <2>2. MxType(header.text) \in {header.code, "head.001"} /\ header.code \in MxIds
    BY <1>3, <2>1, TypeOfWhole DEF IsMx
  <2>3. MxType(header.text) # Unknown
    BY <2>2, IdIsKnown
  <2> HIDE DEF S
  <2>4. /\ MxErrors(header.code, header.code, "whole", content) = {}
        /\ MxErrors("head.001", header.code, "whole", content) = {}
    BY <1>1, <2>1, <2>2, MxAgrees
  <2>5. MxErrors(MxType(header.text), header.code, header.tree, content) = {}
    BY <2>2, <2>4
  <2> QED
    BY <1>3, <2>3, <2>5, OkOfMx
<1> QED
  BY <1>2, <1>3

(***************************************************************************)
(* Every message that is written is one of the headers, and of pieces of   *)
(* its type: nothing that a step does leaves what is assumed of messages.  *)
(***************************************************************************)
THEOREM MessagesOccur == Spec => []MessageOk
<1>1. Init => MessageOk
  BY DEF Init, MessageOk
<1>2. MessageOk /\ [Next]_<<header, content>> => MessageOk'
  <2> SUFFICES ASSUME MessageOk, [Next]_<<header, content>> PROVE MessageOk'
    OBVIOUS
  <2>1. CASE UNCHANGED <<header, content>>
    BY <2>1 DEF MessageOk
  <2>2. ASSUME NEW piece \in Pieces[header.code], Write(piece) PROVE MessageOk'
    BY <2>2 DEF MessageOk, Write
  <2> QED
    BY <2>1, <2>2 DEF Next
<1> QED
  BY <1>1, <1>2, PTL DEF Spec

(***************************************************************************)
(* "a green ok means structurally sound and passes the common field rules" *)
(* (validate.rs:6-8), for any message: what the reader returns of a message*)
(* that passes keeps the rules, whatever else is in the message, in any    *)
(* order and however often.                                                *)
(***************************************************************************)
THEOREM OkMeansSound == Spec => []OkIsReadSound
BY MessagesOccur, OkIsSoundOfMessage, PTL

(***************************************************************************)
(* No false alarm, for any message: good lines in any order, with any      *)
(* option letter, and any document whose rows are sound, pass.             *)
(***************************************************************************)
THEOREM SoundMeansOk == Spec => []SoundIsOk
BY MessagesOccur, SoundIsOkOfMessage, PTL
=============================================================================
