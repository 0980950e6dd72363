---------------------------- MODULE WorkerProofs ----------------------------
(***************************************************************************)
(* Theorems about the calls of the worker, for all messages and batches of *)
(* any length: about Exploder, the functions of a batch that make several  *)
(* rows of one message; about ScalarFunctions, those that make one, under  *)
(* every interleaving of a call with changes to the files; and about       *)
(* TableBuild, which puts the fields of a row under the columns of ten     *)
(* schemas.                                                                *)
(***************************************************************************)
EXTENDS ScalarFunctions, TableBuild, SequenceTheorems, SequenceLemmas

(***************************************************************************)
(* The inductive invariant.  Stages: how far the lists have come at each   *)
(* point of the call.  Read: a message belongs to the row it was read for. *)
(* Filled: the children of message p fill the positions of `all` from       *)
(* start[p] + 1 to End(p), where those of the next message begin.  Taken:  *)
(* the repeated row numbers agree with `all` as far as they go, which is   *)
(* up to the children of the last row repeated.                            *)
(***************************************************************************)
Stages ==
  /\ pc = "read" => /\ Len(messages) = row
                    /\ counts = <<>> /\ start = <<>> /\ all = <<>>
  /\ pc = "build" => Len(messages) = Len(batch) /\ Len(counts) = row
  /\ pc \in {"take", "idle"} =>
       Len(messages) = Len(batch) /\ Len(counts) = Len(batch)
  /\ pc \in {"read", "build"} => takeIdx = <<>>
  /\ pc # "failed"

Read ==
  \A p \in DOMAIN messages :
    /\ messages[p].of = p
    /\ p \in DOMAIN batch
    /\ batch[p] = Null => messages[p].text = Empty

End(p) == start[p] + counts[p]

Filled ==
  /\ Len(start) = Len(counts) /\ Len(counts) <= Len(messages)
  /\ Len(all) = IF Len(counts) = 0 THEN 0 ELSE End(Len(counts))
  /\ \A p \in DOMAIN counts :
       /\ counts[p] = Children[messages[p].text]
       /\ start[p] = IF p = 1 THEN 0 ELSE End(p - 1)
       /\ \A c \in 1 .. counts[p] :
            /\ start[p] + c \in DOMAIN all
            /\ all[start[p] + c] = [of |-> p, idx |-> c]
  /\ \A j \in DOMAIN all :
       /\ all[j].of \in DOMAIN counts
       /\ all[j].idx \in 1 .. counts[all[j].of]
       /\ j = start[all[j].of] + all[j].idx

Taken ==
  pc = "take" =>
    /\ Len(takeIdx) = IF row = 0 THEN 0 ELSE End(row)
    /\ \A j \in DOMAIN takeIdx : j \in DOMAIN all /\ takeIdx[j] = all[j].of

Result ==
  pc = "idle" =>
    out = [j \in DOMAIN all |-> [row |-> all[j].of, child |-> all[j]]]

Inv == TypeOK /\ Stages /\ Read /\ Filled /\ Taken /\ Result
-----------------------------------------------------------------------------
\* A cell is always read as some message, NULL as the empty one.
LEMMA ResolveIsMessage ==
  ASSUME TypeOK, NEW cell \in Cells
  PROVE  Resolve(cell) \in Messages /\ (cell = Null => Resolve(cell) = Empty)
BY ExploderAssumption DEF TypeOK, Resolve, MessageBytes, Cells, Missing

\* The children parsed from a message are a list that names its row.
LEMMA ChildrenList ==
  ASSUME NEW m \in Message
  PROVE  /\ ChildrenOf(m) \in Seq(Child)
         /\ Len(ChildrenOf(m)) = Children[m.text]
         /\ Children[m.text] \in Nat
         /\ \A c \in 1 .. Children[m.text] :
              ChildrenOf(m)[c] = [of |-> m.of, idx |-> c]
<1>1. m.text \in Messages /\ m.of \in Nat
  BY DEF Message
<1>2. Children[m.text] \in Nat
  BY <1>1, ExploderAssumption
<1>3. \A c \in 1 .. Children[m.text] : [of |-> m.of, idx |-> c] \in Child
  BY <1>1, <1>2 DEF Child
<1> QED
  BY <1>2, <1>3 DEF ChildrenOf

\* What repeating a row's number makes.
LEMMA RepeatList ==
  ASSUME NEW p \in Nat, NEW n \in Nat
  PROVE  /\ Repeat(p, n) \in Seq(Nat) /\ Len(Repeat(p, n)) = n
         /\ \A i \in 1 .. n : Repeat(p, n)[i] = p
BY DEF Repeat

\* Where the elements of two lists are when one is put after the other.
LEMMA Extended ==
  ASSUME NEW S, NEW s \in Seq(S), NEW t \in Seq(S)
  PROVE  /\ s \o t \in Seq(S)
         /\ Len(s \o t) = Len(s) + Len(t)
         /\ DOMAIN (s \o t) = 1 .. Len(s) + Len(t)
         /\ \A j \in 1 .. Len(s) : (s \o t)[j] = s[j]
         /\ \A c \in 1 .. Len(t) : (s \o t)[Len(s) + c] = t[c]
<1>1. /\ s \o t \in Seq(S)
      /\ Len(s \o t) = Len(s) + Len(t)
      /\ \A i \in 1 .. Len(s) + Len(t) :
           (s \o t)[i] = IF i <= Len(s) THEN s[i] ELSE t[i - Len(s)]
  BY ConcatProperties
<1>2. Len(s) \in Nat /\ Len(t) \in Nat
  OBVIOUS
<1>3. DOMAIN (s \o t) = 1 .. Len(s) + Len(t)
  BY <1>1
<1>4. \A j \in 1 .. Len(s) : j \in 1 .. Len(s) + Len(t) /\ j <= Len(s)
  BY <1>2
<1>5. \A c \in 1 .. Len(t) :
        /\ Len(s) + c \in 1 .. Len(s) + Len(t)
        /\ ~(Len(s) + c <= Len(s)) /\ Len(s) + c - Len(s) = c
  BY <1>2
<1> QED
  BY <1>1, <1>3, <1>4, <1>5

\* The engine's batches are lists of cells.
LEMMA BatchList ==
  ASSUME NEW b \in Batches
  PROVE  b \in Seq(Cells) /\ Len(b) <= MaxRows
BY ExploderAssumption DEF Batches
-----------------------------------------------------------------------------
\* The first call finds the invariant: nothing read, built or returned.
LEMMA InvInit == Init => Inv
<1> SUFFICES ASSUME Init PROVE Inv
  OBVIOUS
<1>1. TypeOK
  BY ExploderAssumption DEF Init, TypeOK
<1>2. Stages /\ Read /\ Filled /\ Taken
  BY DEF Init, Stages, Read, Filled, Taken
<1>3. Result
  BY DEF Init, Result
<1> QED
  BY <1>1, <1>2, <1>3 DEF Inv

\* A call starts from nothing, whatever the one before left.
LEMMA CallStep == ASSUME Inv, Call PROVE Inv'
<1> USE DEF Call
<1>1. TypeOK'
  BY BatchList, ExploderAssumption DEF Inv, TypeOK
<1>2. (Stages /\ Read /\ Filled /\ Taken /\ Result)'
  BY DEF Stages, Read, Filled, Taken, Result
<1> QED
  BY <1>1, <1>2 DEF Inv

\* A turn of the reading loop adds the message of the next row.
LEMMA ReadStep == ASSUME Inv, ReadCell PROVE Inv'
<1> USE DEF ReadCell
<1>1. TypeOK /\ Stages /\ Read /\ Filled /\ pc = "read"
  BY DEF Inv
<1>2. CASE row < Len(batch)
  <2> DEFINE p == row + 1
             m == [of |-> p, text |-> Resolve(batch[p])]
  <2>1. p \in DOMAIN batch /\ p \in Nat /\ batch[p] \in Cells
    BY <1>1, <1>2 DEF TypeOK
  <2>2. m \in Message /\ (batch[p] = Null => m.text = Empty)
    BY <1>1, <2>1, ResolveIsMessage DEF Message
  <2>3. messages' = Append(messages, m) /\ row' = p
    BY <1>2
  <2> HIDE DEF m
  <2>4. TypeOK'
    BY <1>1, <1>2, <2>1, <2>2, <2>3 DEF TypeOK
  <2>5. Len(messages) = row /\ messages \in Seq(Message)
    BY <1>1 DEF Stages, TypeOK
  <2>6. Stages'
    BY <1>1, <1>2, <2>3, <2>5 DEF Stages
  <2>7. m.of = p
    BY DEF m
  <2>8. Read'
    BY <1>1, <2>1, <2>2, <2>3, <2>5, <2>7 DEF Read
  <2>9. (Filled /\ Taken /\ Result)'
    BY <1>1, <1>2, <2>3, <2>5 DEF Stages, Filled, Taken, Result
  <2> QED
    BY <2>4, <2>6, <2>8, <2>9 DEF Inv
<1>3. CASE ~(row < Len(batch))
  <2>1. TypeOK'
    BY <1>1, <1>3 DEF TypeOK
  <2>2. Len(messages) = Len(batch)
    BY <1>1, <1>3 DEF TypeOK, Stages
  <2>3. Stages' /\ Read' /\ Filled' /\ Taken' /\ Result'
    BY <1>1, <1>3, <2>2 DEF Stages, Read, Filled, Taken, Result
  <2> QED
    BY <2>1, <2>3 DEF Inv
<1> QED
  BY <1>2, <1>3

\* A turn of `build` puts the next message's children after those before.
LEMMA BuildStep == ASSUME Inv, BuildMessage PROVE Inv'
<1>1. TypeOK /\ Stages /\ Read /\ Filled /\ pc = "build"
  BY DEF Inv, BuildMessage
<1>2. CASE row < Len(messages)
  <2> DEFINE p == row + 1
             m == messages[p]
             l == ChildrenOf(m)
             n == Children[m.text]
  <2>1. /\ p \in DOMAIN messages /\ p \in Nat /\ m \in Message /\ m.of = p
        /\ Len(counts) = row /\ Len(start) = row /\ p <= Len(batch)
        /\ row \in Nat
    BY <1>1, <1>2 DEF TypeOK, Stages, Read, Filled
  <2>2. /\ l \in Seq(Child) /\ Len(l) = n /\ n \in Nat
        /\ \A c \in 1 .. n : l[c] = [of |-> p, idx |-> c]
    BY <2>1, ChildrenList
  <2>3. /\ counts' = Append(counts, n) /\ start' = Append(start, Len(all))
        /\ all' = all \o l /\ row' = p /\ pc' = pc /\ takeIdx' = takeIdx
        /\ messages' = messages /\ batch' = batch /\ fs' = fs /\ out' = out
    BY <1>1, <1>2, <2>2 DEF BuildMessage
  <2>4. n = Children[messages[p].text]
    OBVIOUS
  <2> HIDE DEF m, l, n
  <2>5. /\ all \in Seq(Child) /\ counts \in Seq(Nat) /\ start \in Seq(Nat)
        /\ Len(all) \in Nat
    BY <1>1 DEF TypeOK
  <2>6. TypeOK'
    <3>1. all' \in Seq(Child) /\ counts' \in Seq(Nat) /\ start' \in Seq(Nat)
      BY <2>2, <2>3, <2>5
    <3> QED
      BY <1>1, <2>1, <2>3, <3>1 DEF TypeOK
  <2>7. Stages' /\ Read'
    BY <1>1, <2>1, <2>3, <2>5 DEF Stages, Read
  <2>8. Filled'
    <3>1. /\ counts'[p] = n /\ start'[p] = Len(all) /\ Len(counts') = p
          /\ Len(start') = p /\ DOMAIN counts' = 1 .. p
          /\ \A q \in 1 .. row : counts'[q] = counts[q] /\ start'[q] = start[q]
      BY <2>1, <2>2, <2>3, <2>5
    <3>2. /\ Len(all') = Len(all) + n /\ DOMAIN all' = 1 .. Len(all) + n
          /\ \A j \in 1 .. Len(all) : all'[j] = all[j]
          /\ \A c \in 1 .. n : all'[Len(all) + c] = l[c]
      <4>1. all \in Seq(Child) /\ l \in Seq(Child) /\ Len(l) = n /\ all' = all \o l
        BY <2>2, <2>3, <2>5
      <4>2. Len(all') = Len(all) + n /\ DOMAIN all' = 1 .. Len(all) + n
        BY <4>1, Extended
      <4>3. \A j \in 1 .. Len(all) : all'[j] = all[j]
        BY <4>1, Extended
      <4>4. \A c \in 1 .. n : all'[Len(all) + c] = l[c]
        BY <4>1, Extended
      <4> QED
        BY <4>2, <4>3, <4>4
    <3>3. Len(counts') <= Len(messages') /\ Len(start') = Len(counts')
      BY <2>1, <2>3, <3>1, <1>2
    <3>4. p # 0 /\ Len(all') = start'[p] + counts'[p]
      BY <2>1, <3>1, <3>2
    <3>5. ASSUME NEW q \in 1 .. p
          PROVE  /\ counts'[q] = Children[messages[q].text]
                 /\ start'[q] = IF q = 1 THEN 0 ELSE start'[q - 1] + counts'[q - 1]
                 /\ \A c \in 1 .. counts'[q] :
                      /\ start'[q] + c \in DOMAIN all'
                      /\ all'[start'[q] + c] = [of |-> q, idx |-> c]
      <4>1. CASE q = p
        <5>1. counts'[q] = Children[messages[q].text]
          BY <4>1, <3>1, <2>4
        <5>2. start'[q] = IF q = 1 THEN 0 ELSE start'[q - 1] + counts'[q - 1]
          <6>1. CASE row = 0
            BY <6>1, <4>1, <3>1, <2>1, <1>1 DEF Filled
          <6>2. CASE row # 0
            <7>1. row \in 1 .. row /\ q - 1 = row /\ q # 1
              BY <6>2, <4>1, <2>1, <1>1 DEF TypeOK
            <7>2. Len(all) = End(row)
              BY <6>2, <2>1, <1>1 DEF Filled
            <7> QED
              BY <7>1, <7>2, <4>1, <3>1 DEF End
          <6> QED
            BY <6>1, <6>2
        <5>3. \A c \in 1 .. counts'[q] :
                /\ start'[q] + c \in DOMAIN all'
                /\ all'[start'[q] + c] = [of |-> q, idx |-> c]
          BY <4>1, <3>1, <3>2, <2>2, <2>5
        <5> QED
          BY <5>1, <5>2, <5>3
      <4>2. CASE q # p
        <5>1. q \in 1 .. row /\ q \in DOMAIN counts
          BY <4>2, <2>1, <2>5
        <5>2. /\ counts[q] = Children[messages[q].text]
              /\ start[q] = IF q = 1 THEN 0 ELSE start[q - 1] + counts[q - 1]
              /\ \A c \in 1 .. counts[q] :
                   /\ start[q] + c \in DOMAIN all
                   /\ all[start[q] + c] = [of |-> q, idx |-> c]
          BY <5>1, <1>1 DEF Filled, End
        <5>3. q # 1 => q - 1 \in 1 .. row
          BY <5>1, <2>1
        <5>4. DOMAIN all = 1 .. Len(all) /\ DOMAIN all \subseteq DOMAIN all'
          BY <2>5, <2>2, <3>2
        <5> QED
          BY <5>1, <5>2, <5>3, <5>4, <3>1, <3>2
      <4> QED
        BY <4>1, <4>2
    <3>6. ASSUME NEW j \in DOMAIN all'
          PROVE  /\ all'[j].of \in DOMAIN counts'
                 /\ all'[j].idx \in 1 .. counts'[all'[j].of]
                 /\ j = start'[all'[j].of] + all'[j].idx
      <4>1. CASE j <= Len(all)
        <5>1. j \in DOMAIN all /\ all'[j] = all[j]
          BY <4>1, <3>2, <2>5
        <5>2. /\ all[j].of \in 1 .. row /\ j = start[all[j].of] + all[j].idx
              /\ all[j].idx \in 1 .. counts[all[j].of]
          BY <5>1, <1>1, <2>1, <2>5 DEF Filled
        <5> QED
          BY <5>1, <5>2, <3>1, <2>1
      <4>2. CASE j > Len(all)
        <5> DEFINE c == j - Len(all)
        <5>1. c \in 1 .. n /\ j = Len(all) + c
          BY <4>2, <3>2, <2>5, <2>2
        <5>2. all'[j] = [of |-> p, idx |-> c]
          BY <5>1, <3>2, <2>2
        <5> QED
          BY <5>1, <5>2, <3>1, <2>1
      <4> QED
        BY <4>1, <4>2, <3>2, <2>5, <2>2
    <3> QED
      BY <3>1, <3>3, <3>4, <3>5, <3>6, <2>3, ZenonT(60) DEF Filled, End
  <2>9. Taken' /\ Result'
    BY <1>1, <2>3 DEF Taken, Result
  <2> QED
    BY <2>6, <2>7, <2>8, <2>9 DEF Inv
<1>3. CASE ~(row < Len(messages))
  <2>1. TypeOK'
    BY <1>1, <1>3 DEF TypeOK, BuildMessage
  <2>2. row = Len(messages) /\ Len(messages) = Len(batch)
    BY <1>1, <1>3 DEF TypeOK, Stages
  <2>3. Stages' /\ Read' /\ Filled' /\ Result'
    BY <1>1, <1>3, <2>2 
    DEF Stages, Read, Filled, End, Result, BuildMessage
  <2>4. Taken'
    BY <1>1, <1>3 DEF Stages, Taken, BuildMessage
  <2> QED
    BY <2>1, <2>3, <2>4 DEF Inv
<1> QED
  BY <1>2, <1>3

\* Repeating a row's number takes the list as far as its children go.
LEMMA TakeStep == ASSUME Inv, TakeRow PROVE Inv'
<1> DEFINE p == row + 1
           n == counts[p]
<1>1. /\ TypeOK /\ Stages /\ Read /\ Filled /\ Taken /\ pc = "take"
      /\ row' = p /\ takeIdx' = takeIdx \o Repeat(p, n)
      /\ fs' = fs /\ batch' = batch /\ pc' = pc /\ messages' = messages
      /\ counts' = counts /\ all' = all /\ start' = start /\ out' = out
      /\ p = row + 1 /\ n = counts[p] /\ row < Len(counts)
  BY DEF Inv, TakeRow, Result
<1> HIDE DEF p, n
<1>2. /\ p \in DOMAIN counts /\ p \in Nat /\ n \in Nat /\ p <= Len(batch)
      /\ takeIdx \in Seq(Nat) /\ all \in Seq(Child) /\ start[p] \in Nat
  <2>1. /\ counts \in Seq(Nat) /\ start \in Seq(Nat) /\ row \in Nat
        /\ takeIdx \in Seq(Nat) /\ all \in Seq(Child)
    BY <1>1 DEF TypeOK
  <2>2. Len(counts) = Len(batch) /\ Len(start) = Len(counts)
    BY <1>1 DEF Stages, Filled
  <2>3. p \in 1 .. Len(counts)
    BY <1>1, <2>1
  <2> QED
    BY <1>1, <2>1, <2>2, <2>3
<1>3. /\ Repeat(p, n) \in Seq(Nat) /\ Len(Repeat(p, n)) = n
      /\ \A i \in 1 .. n : Repeat(p, n)[i] = p
  BY <1>2, RepeatList
<1>4. TypeOK'
  <2>1. takeIdx' \in Seq(Nat)
    BY <1>1, <1>2, <1>3
  <2> QED
    BY <1>1, <1>2, <2>1 DEF TypeOK
<1>5. Stages' /\ Read' /\ Filled' /\ Result'
  BY <1>1 DEF Stages, Read, Filled, End, Result
<1>6. Taken'
  <2>1. Len(takeIdx) = start[p]
    <3>1. start[p] = IF p = 1 THEN 0 ELSE End(p - 1)
      BY <1>1, <1>2 DEF Filled
    <3>2. Len(takeIdx) = IF row = 0 THEN 0 ELSE End(row)
      BY <1>1 DEF Taken
    <3>3. p - 1 = row /\ (p = 1 <=> row = 0) /\ row \in Nat
      BY <1>1 DEF TypeOK
    <3> QED
      BY <3>1, <3>2, <3>3
  <2>2. Len(takeIdx') = start[p] + n /\ row' # 0
    <3>1. Len(takeIdx \o Repeat(p, n)) = Len(takeIdx) + Len(Repeat(p, n))
      BY <1>2, <1>3, Extended
    <3>2. row' # 0
      BY <1>1 DEF TypeOK
    <3> QED
      BY <3>1, <3>2, <1>1, <1>3, <2>1
  <2>3. ASSUME NEW c \in 1 .. n
        PROVE  start[p] + c \in DOMAIN all /\ all[start[p] + c].of = p
    <3>1. start[p] + c \in DOMAIN all /\ all[start[p] + c] = [of |-> p, idx |-> c]
      BY <1>1, <1>2 DEF Filled
    <3> QED
      BY <3>1
  <2>4. ASSUME NEW j \in DOMAIN takeIdx'
        PROVE  j \in DOMAIN all /\ takeIdx'[j] = all[j].of
    <3>1. CASE j <= Len(takeIdx)
      <4>1. j \in DOMAIN takeIdx /\ takeIdx'[j] = takeIdx[j]
        BY <3>1, <1>1, <1>2, <1>3
      <4> QED
        BY <4>1, <1>1 DEF Taken
    <3>2. CASE j > Len(takeIdx)
      <4> DEFINE c == j - Len(takeIdx)
      <4>1. c \in 1 .. n /\ j = start[p] + c
        <5>1. /\ j \in DOMAIN (takeIdx \o Repeat(p, n))
              /\ DOMAIN (takeIdx \o Repeat(p, n)) = 1 .. Len(takeIdx) + n
          <6>1. takeIdx' = takeIdx \o Repeat(p, n)
            BY <1>1
          <6>2. takeIdx \in Seq(Nat) /\ Repeat(p, n) \in Seq(Nat)
            BY <1>2, <1>3
          <6>3. DOMAIN (takeIdx \o Repeat(p, n)) = 1 .. Len(takeIdx) + Len(Repeat(p, n))
            BY <6>2, Extended
          <6> QED
            BY <6>1, <6>3, <1>3
        <5>2. j \in 1 .. Len(takeIdx) + n /\ Len(takeIdx) \in Nat /\ n \in Nat
          BY <5>1, <1>2
        <5>3. j - Len(takeIdx) \in 1 .. n /\ j = Len(takeIdx) + (j - Len(takeIdx))
          BY <5>2, <3>2
        <5> QED
          BY <5>3, <2>1
      <4>2. takeIdx'[j] = Repeat(p, n)[c]
        <5>1. c \in 1 .. Len(Repeat(p, n)) /\ j = Len(takeIdx) + c
          BY <4>1, <1>3, <2>1
        <5> HIDE DEF c
        <5>2. (takeIdx \o Repeat(p, n))[Len(takeIdx) + c] = Repeat(p, n)[c]
          BY <5>1, <1>2, <1>3, Extended
        <5> QED
          BY <5>1, <5>2, <1>1
      <4> QED
        BY <4>1, <4>2, <1>3, <2>3
    <3> QED
      BY <3>1, <3>2, <1>1, <1>2, <1>3
  <2> QED
    BY <1>1, <2>2, <2>4 DEF Taken, End
<1> QED
  BY <1>4, <1>5, <1>6 DEF Inv

\* When every row is done the two lists are equally long, and the result puts
\* each child beside its own row.
LEMMA EmitStep == ASSUME Inv, Emit PROVE Inv'
<1>1. /\ TypeOK /\ Stages /\ Read /\ Filled /\ Taken
      /\ pc = "take" /\ row = Len(counts)
      /\ fs' = fs /\ batch' = batch /\ messages' = messages /\ row' = row
      /\ counts' = counts /\ all' = all /\ takeIdx' = takeIdx /\ start' = start
  BY DEF Inv, Emit, locals
<1>2. /\ Len(takeIdx) = Len(all) /\ DOMAIN all = 1 .. Len(all)
      /\ DOMAIN takeIdx = 1 .. Len(takeIdx)
  BY <1>1 DEF Filled, Taken, TypeOK
<1>3. /\ out' = [j \in DOMAIN all |-> [row |-> takeIdx[j], child |-> all[j]]]
      /\ pc' = "idle"
  BY <1>2 DEF Emit
<1>4. \A j \in DOMAIN all : takeIdx[j] = all[j].of
  BY <1>1, <1>2 DEF Taken
<1>5. out' = [j \in DOMAIN all |-> [row |-> all[j].of, child |-> all[j]]]
  BY <1>3, <1>4
<1>6. TypeOK'
  <2>1. \A j \in DOMAIN all : [row |-> takeIdx[j], child |-> all[j]] \in OutRow
    BY <1>1, <1>2 DEF TypeOK, OutRow
  <2>2. out' \in Seq(OutRow)
    BY <1>2, <1>3, <1>1, <2>1 DEF TypeOK
  <2> QED
    BY <1>1, <1>3, <2>2 DEF TypeOK
<1>7. Stages' /\ Read' /\ Filled' /\ Taken'
  BY <1>1, <1>3 DEF Stages, Read, Filled, End, Taken
<1>8. Result'
  BY <1>1, <1>5 DEF Result
<1> QED
  BY <1>6, <1>7, <1>8 DEF Inv

\* The files matter only at the moment a cell is read.
LEMMA FilesStep ==
  ASSUME Inv, NEW f \in Files, ChangeFile(f)
  PROVE  Inv'
<1>1. TypeOK'
  BY DEF Inv, TypeOK, ChangeFile, locals
<1>2. Stages' /\ Read' /\ Filled' /\ Taken' /\ Result'
  BY DEF Inv, Stages, Read, Filled, End, Taken, Result, ChangeFile, locals
<1> QED
  BY <1>1, <1>2 DEF Inv

\* Inv is an invariant.
LEMMA InvHolds == Spec => []Inv
<1>1. Inv /\ [Next]_vars => Inv'
  <2>1. ASSUME Inv, UNCHANGED vars PROVE Inv'
    <3>1. /\ fs' = fs /\ batch' = batch /\ pc' = pc /\ out' = out
          /\ messages' = messages /\ counts' = counts /\ all' = all
          /\ takeIdx' = takeIdx /\ row' = row /\ start' = start
      BY <2>1 DEF vars, locals
    <3>2. TypeOK' /\ Stages' /\ Read'
      BY <2>1, <3>1 DEF Inv, TypeOK, Stages, Read
    <3>3. Filled' /\ Taken' /\ Result'
      BY <2>1, <3>1 DEF Inv, Filled, End, Taken, Result
    <3> QED
      BY <3>2, <3>3 DEF Inv
  <2> QED
    BY <2>1, CallStep, ReadStep, BuildStep, TakeStep, EmitStep, FilesStep DEF Next
<1> QED
  BY InvInit, <1>1, PTL DEF Spec
-----------------------------------------------------------------------------
\* Type correctness: every list holds what its column type allows, for batches
\* of any size.
THEOREM TypeCorrect == Spec => []TypeOK
<1>1. Inv => TypeOK
  BY DEF Inv
<1> QED
  BY <1>1, InvHolds, PTL

\* No batch makes process fail: RecordBatch::try_new always gets columns of
\* one length, whatever cells cannot be read.
THEOREM QueryNeverFails == Spec => []NeverFails
<1>1. Inv => NeverFails
  BY DEF Inv, Stages, NeverFails
<1> QED
  BY <1>1, InvHolds, PTL

\* A child is never joined to another row's columns.
THEOREM JoinedToParent == Spec => []UnderItsParent
<1>1. Inv => UnderItsParent
  BY DEF Inv, Result, UnderItsParent, Returned
<1> QED
  BY <1>1, InvHolds, PTL

\* The result is exactly the children of the batch's messages: none missing,
\* none twice, none from a row without a message.
THEOREM ChildrenExact == Spec => []EachChildOnce
<1>1. Inv => EachChildOnce
  <2> SUFFICES ASSUME Inv, pc = "idle" PROVE EachChildOnce
    BY DEF EachChildOnce, Returned
  <2>1. /\ TypeOK /\ Read /\ Filled /\ Len(messages) = Len(batch)
        /\ Len(counts) = Len(batch) /\ DOMAIN out = DOMAIN all
        /\ \A j \in DOMAIN all : out[j].row = all[j].of /\ out[j].child = all[j]
    BY DEF Inv, Stages, Result
  <2>2. DOMAIN counts = DOMAIN batch /\ DOMAIN messages = DOMAIN batch
    BY <2>1 DEF TypeOK
  <2>3. ASSUME NEW p \in DOMAIN batch, NEW c \in 1 .. Children[messages[p].text]
        PROVE  \E j \in DOMAIN out : out[j].child = [of |-> p, idx |-> c]
    <3>1. c \in 1 .. counts[p]
      BY <2>1, <2>2 DEF Filled
    <3>2. /\ start[p] + c \in DOMAIN all
          /\ all[start[p] + c] = [of |-> p, idx |-> c]
      BY <2>1, <2>2, <3>1 DEF Filled
    <3> QED
      BY <3>2, <2>1
  <2>4. ASSUME NEW i \in DOMAIN out, NEW j \in DOMAIN out,
               out[i].child = out[j].child
        PROVE  i = j
    <3>1. /\ all[i] = all[j] /\ i = start[all[i].of] + all[i].idx
          /\ j = start[all[j].of] + all[j].idx
      BY <2>1, <2>4 DEF Filled
    <3> QED
      BY <3>1
  <2>5. ASSUME NEW j \in DOMAIN out
        PROVE  out[j].row \in DOMAIN batch /\ batch[out[j].row] # Null
    <3> DEFINE p == all[j].of
    <3>1. p \in DOMAIN counts /\ all[j].idx \in 1 .. counts[p] /\ out[j].row = p
      BY <2>1 DEF Filled
    <3>2. ASSUME batch[p] = Null PROVE FALSE
      <4>1. messages[p].text = Empty /\ counts[p] = Children[messages[p].text]
        BY <3>1, <3>2, <2>1, <2>2 DEF Read, Filled
      <4>2. counts[p] = 0
        BY <4>1, ExploderAssumption
      <4> QED
        BY <4>2, <3>1
    <3> QED
      BY <3>1, <3>2, <2>2
  <2> QED
    BY <2>3, <2>4, <2>5 DEF EachChildOnce
<1> QED
  BY <1>1, InvHolds, PTL
-----------------------------------------------------------------------------
Texts  == Messages \cup {Null}
Row    == [cell : Cells, tag : Asked \cup {Null, NoText}]
Item   == Texts \X Nat

\* Where the list of row i starts in `items`, e being the ends.
StartIn(e, i) == IF i = 1 THEN 0 ELSE e[i - 1]

(***************************************************************************)
(* The inductive invariant.  Loop: how far a call has come.  Lists: the    *)
(* lists of the rows lie in `items` one behind the other, with no gap, each *)
(* holds errors of its own row's message, and `ok` agrees with it.  Column: *)
(* the builder of the other functions holds the value of every row so far. *)
(***************************************************************************)
Loop ==
  /\ fs \in [Files -> Messages \cup {Missing}]
  /\ function \in Functions
  /\ args \in Seq(Row)
  /\ function # "mt103_field" => \A i \in DOMAIN args : args[i].tag = Null
  /\ texts \in Seq(Texts) /\ Len(texts) <= Len(args)
  /\ items \in Seq(Item)
  /\ ends \in Seq(Nat)
  /\ step = "returned" => Len(texts) = Len(args)

Lists ==
  function = "validate" =>
    /\ values \in Seq(BOOLEAN)
    /\ Len(values) = Len(texts) /\ Len(ends) = Len(texts)
    /\ Len(items) = StartIn(ends, Len(ends) + 1)
    /\ \A i \in 1 .. Len(ends) :
         /\ StartIn(ends, i) <= ends[i] /\ ends[i] <= Len(items)
         /\ values[i] <=> StartIn(ends, i) = ends[i]
         /\ \A j \in StartIn(ends, i) + 1 .. ends[i] : items[j][1] = texts[i]
         /\ texts[i] = Null => ~ values[i]

\* The values that a column of the other functions can hold, and that of a row.
Values ==
  {Null} \cup {Label[m] : m \in Messages} \cup {Amount[m] : m \in Messages}
    \cup UNION {{RawTag(m, t) : t \in Asked} : m \in Messages}
OwnValue(f, text, tag) ==
  IF text = Null THEN Null
  ELSE IF f = "mt_type" THEN Label[text]
  ELSE IF f = "mt103_amount" THEN Amount[text]
  ELSE IF tag = Null THEN Null ELSE RawTag(text, tag)

Column ==
  function # "validate" /\ step \in {"loop", "returned"} =>
    /\ values \in Seq(Values) /\ Len(values) = Len(texts)
    /\ \A i \in 1 .. Len(texts) :
         /\ args[i].tag # NoText
         /\ values[i] = OwnValue(function, texts[i], args[i].tag)

ScalarInv == Loop /\ Lists /\ Column /\ FailsOnTagsOnly
-----------------------------------------------------------------------------
\* What is read for a row is a message or nothing.
LEMMA BytesAreText ==
  ASSUME Loop, NEW cell \in Cells
  PROVE  MessageBytes(cell) \in Texts
BY ExploderAssumption DEF Loop, MessageBytes, Cells, Missing, Texts

\* What Keep makes of positions: those that are kept, all and only.
LEMMA PositionsKept ==
  ASSUME NEW text \in Messages, NEW I \in SUBSET DOMAIN Tags[text]
  PROVE  /\ FieldsAt(text, I) \in Seq(I)
         /\ \A p \in I : \E k \in DOMAIN FieldsAt(text, I) : FieldsAt(text, I)[k] = p
<1> DEFINE n == Len(Tags[text])
           s == [i \in 1 .. n |-> i]
           c == Keep(s, I)
<1>1. n \in Nat /\ DOMAIN Tags[text] = 1 .. n
  BY ScalarAssumption
<1>2. FieldsAt(text, I) = c
  BY <1>1 DEF FieldsAt
<1>3. s \in Seq(Nat) /\ Len(s) = n /\ \A i \in 1 .. n : s[i] = i
  <2> HIDE DEF n
  <2> QED
    BY <1>1
<1> HIDE DEF s, n
<1>4. I \in SUBSET (1 .. Len(s))
  BY <1>1, <1>3
<1>5. c \in Seq(Nat) /\ \E at : IsKept(s, I, c, at)
  BY <1>3, <1>4, KeepShape
<1> HIDE DEF c
<1>6. PICK at : IsKept(s, I, c, at)
  BY <1>5
<1>7. /\ at \in [1 .. Len(c) -> I] /\ \A j \in 1 .. Len(c) : c[j] = s[at[j]]
      /\ \A i \in I : \E j \in 1 .. Len(c) : at[j] = i
  BY <1>6 DEF IsKept
<1>8. \A j \in 1 .. Len(c) : c[j] = at[j] /\ c[j] \in I
  BY <1>1, <1>3, <1>4, <1>7
<1>9. Len(c) \in Nat /\ DOMAIN c = 1 .. Len(c)
  BY <1>5
<1>10. c \in Seq(I)
  BY <1>5, <1>8, <1>9
<1> QED
  BY <1>2, <1>7, <1>8, <1>9, <1>10

\* A value of a field that is asked for: every field with the tag in full, or
\* one that the tag without a letter stands for, or NULL.
LEMMA RawTagShape ==
  ASSUME NEW text \in Messages, NEW tag
  PROVE  /\ ExactFields(text, tag) # {} =>
              \A p \in DOMAIN Tags[text] :
                p \in ExactFields(text, tag)
                  <=> \E k \in DOMAIN RawTag(text, tag) : RawTag(text, tag)[k] = p
         /\ ExactFields(text, tag) = {} =>
              \/ /\ VariantFields(text, tag) = {} /\ RawTag(text, tag) = Null
              \/ \E p \in VariantFields(text, tag) : RawTag(text, tag) = <<p>>
<1> DEFINE E == ExactFields(text, tag)
           V == VariantFields(text, tag)
           e == FieldsAt(text, E)
           v == FieldsAt(text, V)
<1>1. E \in SUBSET DOMAIN Tags[text] /\ V \in SUBSET DOMAIN Tags[text]
  BY DEF ExactFields, VariantFields
<1>2. /\ e \in Seq(E) /\ v \in Seq(V)
      /\ \A p \in E : \E k \in DOMAIN e : e[k] = p
      /\ \A p \in V : \E k \in DOMAIN v : v[k] = p
  <2> HIDE DEF E, V
  <2> QED
    BY <1>1, PositionsKept
<1>3. RawTag(text, tag) = IF e # <<>> THEN e ELSE IF v # <<>> THEN <<Head(v)>> ELSE Null
  BY DEF RawTag
<1> HIDE DEF e, v, E, V
<1>4. e # <<>> <=> E # {}
  BY <1>2
<1>5. v # <<>> <=> V # {}
  BY <1>2
<1>6. CASE E # {}
  <2>1. RawTag(text, tag) = e
    BY <1>3, <1>4, <1>6
  <2>2. \A k \in DOMAIN e : e[k] \in E
    BY <1>2
  <2> QED
    BY <1>1, <1>2, <1>6, <2>1, <2>2 DEF E
<1>7. CASE E = {} /\ V = {}
  BY <1>3, <1>4, <1>5, <1>7 DEF E, V
<1>8. CASE E = {} /\ V # {}
  <2>1. RawTag(text, tag) = <<Head(v)>>
    BY <1>3, <1>4, <1>5, <1>8
  <2>2. Head(v) \in V
    BY <1>2, <1>5, <1>8
  <2> QED
    BY <1>8, <2>1, <2>2 DEF E, V
<1> QED
  BY <1>6, <1>7, <1>8 DEF E

\* So raw_tag answers what is asked of it.
LEMMA ValueIsOfTag ==
  ASSUME NEW text \in Messages, NEW tag
  PROVE  IsValueOfTag(RawTag(text, tag), text, tag)
<1>1. CASE ExactFields(text, tag) # {}
  <2>1. \A p \in DOMAIN Tags[text] :
          p \in ExactFields(text, tag)
            <=> \E k \in DOMAIN RawTag(text, tag) : RawTag(text, tag)[k] = p
    BY <1>1, RawTagShape
  <2>2. \A p \in DOMAIN Tags[text] : p \in ExactFields(text, tag) <=> Tags[text][p] = tag
    BY DEF ExactFields
  <2>3. \E p \in DOMAIN Tags[text] : Tags[text][p] = tag
    BY <1>1 DEF ExactFields
  <2> QED
    BY Zenon, <2>1, <2>2, <2>3 DEF IsValueOfTag
<1>2. CASE ExactFields(text, tag) = {} /\ VariantFields(text, tag) = {} /\ RawTag(text, tag) = Null
  BY <1>2 DEF IsValueOfTag, ExactFields, VariantFields
<1>3. CASE \E p \in VariantFields(text, tag) : RawTag(text, tag) = <<p>> /\ ExactFields(text, tag) = {}
  <2>1. PICK p \in VariantFields(text, tag) : RawTag(text, tag) = <<p>> /\ ExactFields(text, tag) = {}
    BY <1>3
  <2>2. RawTag(text, tag) # Null /\ RawTag(text, tag)[1] = p
    <3>1. p \in DOMAIN Tags[text]
      BY DEF VariantFields
    <3>2. <<p>> # Null
      BY Zenon, <3>1, ScalarAssumption
    <3>3. <<p>>[1] = p
      OBVIOUS
    <3> QED
      BY <2>1, <3>2, <3>3
  <2> QED
    BY <2>1, <2>2 DEF IsValueOfTag, ExactFields, VariantFields
<1> QED
  BY <1>1, <1>2, <1>3, RawTagShape

\* The rows of a call, and that a tag is given to mt103_field only.
LEMMA ArgumentsAreRows ==
  ASSUME NEW f \in Functions, NEW a \in Arguments(f)
  PROVE  /\ a \in Seq(Row)
         /\ f # "mt103_field" => \A i \in DOMAIN a : a[i].tag = Null
<1>1. PICK n \in 0 .. MaxArgs, tags \in TagCells(f) : a \in [1 .. n -> [cell : Cells, tag : tags]]
  BY DEF Arguments
<1>2. tags \subseteq Asked \cup {Null, NoText} /\ (f # "mt103_field" => tags = {Null})
  BY <1>1 DEF TagCells
<1>3. n \in Nat
  BY <1>1, ScalarAssumption
<1>4. \A i \in 1 .. n : a[i] \in Row /\ (f # "mt103_field" => a[i].tag = Null)
  BY <1>1, <1>2 DEF Row
<1>5. a \in [1 .. n -> Row] /\ DOMAIN a = 1 .. n
  BY <1>1, <1>4
<1> QED
  BY <1>3, <1>4, <1>5

\* Nothing has been read, and nothing failed, when the worker starts.
LEMMA ScalarInitInv == ScalarInit => ScalarInv
<1> SUFFICES ASSUME ScalarInit PROVE ScalarInv
  OBVIOUS
<1>1. fs \in [Files -> Messages \cup {Missing}]
  BY DEF ScalarInit, Init
<1>2. Loop
  BY <1>1 DEF ScalarInit, Loop, Functions
<1> QED
  BY <1>2 DEF ScalarInit, ScalarInv, Lists, Column, FailsOnTagsOnly

\* A call starts with empty builders.
LEMMA CallKeeps == ScalarInv /\ CallScalar /\ UNCHANGED vars => ScalarInv'
<1> SUFFICES ASSUME ScalarInv, CallScalar, UNCHANGED vars PROVE ScalarInv'
  OBVIOUS
<1>1. PICK f \in Functions : function' = f /\ args' \in Arguments(f)
  BY DEF CallScalar
<1>2. /\ args' \in Seq(Row)
      /\ function' # "mt103_field" => \A i \in DOMAIN args' : args'[i].tag = Null
  BY <1>1, ArgumentsAreRows
<1>3. step' = "loop" /\ texts' = <<>> /\ values' = <<>> /\ items' = <<>> /\ ends' = <<>>
  BY DEF CallScalar
<1>4. Len(args') \in Nat
  BY <1>2
<1>5. Loop'
  BY <1>1, <1>2, <1>3, <1>4 DEF Loop, ScalarInv, vars
<1>6. Lists' /\ Column'
  BY <1>3 DEF Lists, StartIn, Column
<1> QED
  BY <1>3, <1>5, <1>6 DEF ScalarInv, FailsOnTagsOnly

\* A turn of the other functions: nothing but their tag can fail them.
LEMMA ValueKeeps == ScalarInv /\ AppendValue /\ UNCHANGED vars => ScalarInv'
<1> SUFFICES ASSUME ScalarInv, AppendValue, UNCHANGED vars PROVE ScalarInv'
  OBVIOUS
<1> DEFINE k == Len(texts) + 1
<1>1. Loop /\ step = "loop" /\ Len(texts) < Len(args) /\ function # "validate"
      /\ texts' = Append(texts, MessageBytes(args[k].cell))
      /\ (args[k].tag = NoText => step' = "failed")
      /\ (args[k].tag # NoText => step' = step)
      /\ UNCHANGED <<function, args, items, ends>> /\ fs' = fs
  BY DEF ScalarInv, AppendValue, vars
<1>2. k \in 1 .. Len(args) /\ args[k] \in Row
  BY <1>1 DEF Loop
<1>3. MessageBytes(args[k].cell) \in Texts
  BY <1>1, <1>2, BytesAreText DEF Row
<1>4. texts' \in Seq(Texts) /\ Len(texts') = Len(texts) + 1
  BY <1>1, <1>3, Longer DEF Loop
<1>5. Loop'
  BY <1>1, <1>4 DEF Loop
<1>6. Column'
  <2> SUFFICES ASSUME step' \in {"loop", "returned"}
               PROVE  /\ values' \in Seq(Values) /\ Len(values') = Len(texts')
                      /\ \A i \in 1 .. Len(texts') :
                           /\ args'[i].tag # NoText
                           /\ values'[i] = OwnValue(function', texts'[i], args'[i].tag)
    BY DEF Column
  <2> DEFINE text == MessageBytes(args[k].cell)
             value == IF text = Null THEN Null ELSE ValueOf(text, args[k].tag)
  <2>1. args[k].tag # NoText /\ values' = Append(values, value)
    BY <1>1 DEF AppendValue
  <2>2. value = OwnValue(function, text, args[k].tag)
    BY <1>1 DEF ValueOf, OwnValue, Loop, Functions
  <2>3. OwnValue(function, text, args[k].tag) \in Values
    BY <1>2, <1>3, <2>1 DEF OwnValue, Values, Texts, Row
  <2> HIDE DEF text, value
  <2>4. values \in Seq(Values) /\ Len(values) = Len(texts)
        /\ \A i \in 1 .. Len(texts) :
             /\ args[i].tag # NoText
             /\ values[i] = OwnValue(function, texts[i], args[i].tag)
    BY <1>1 DEF ScalarInv, Column
  <2>5. /\ values' \in Seq(Values) /\ Len(values') = Len(texts')
        /\ \A i \in 1 .. Len(texts) : values'[i] = values[i]
        /\ values'[k] = value
    BY <1>4, <2>1, <2>2, <2>3, <2>4, Longer
  <2>6. /\ \A i \in 1 .. Len(texts) : texts'[i] = texts[i]
        /\ texts'[k] = text
    BY <1>1, <1>3, Longer DEF Loop, text
  <2>7. \A i \in 1 .. Len(texts') : i \in 1 .. Len(texts) \/ i = k
    BY <1>1, <1>4 DEF Loop
  <2> QED
    BY <1>1, <2>1, <2>2, <2>4, <2>5, <2>6, <2>7
<1>7. step' = "failed" => function' = "mt103_field" /\ args'[k].tag = NoText
  <2>1. ASSUME step' = "failed" PROVE args[k].tag = NoText
    BY <1>1, <2>1
  <2>2. NoText # Null
    BY ScalarAssumption
  <2> QED
    BY <1>1, <1>2, <2>1, <2>2 DEF Loop
<1> QED
  BY <1>1, <1>2, <1>5, <1>6, <1>7 DEF ScalarInv, Lists, FailsOnTagsOnly

\* A turn of validate: its errors are put behind the others'.
LEMMA VerdictKeeps == ScalarInv /\ AppendVerdict /\ UNCHANGED vars => ScalarInv'
<1> SUFFICES ASSUME ScalarInv, AppendVerdict, UNCHANGED vars PROVE ScalarInv'
  OBVIOUS
<1> DEFINE k == Len(texts) + 1
           text == MessageBytes(args[k].cell)
           errors == IF text = Null THEN <<Struct000>> ELSE ErrorsOf(text)
           ok == IF text = Null THEN FALSE ELSE Errors[text] = 0
<1>1. /\ Loop /\ Lists /\ step = "loop" /\ Len(texts) < Len(args) /\ function = "validate"
      /\ texts' = Append(texts, text) /\ values' = Append(values, ok)
      /\ items' = items \o errors /\ ends' = Append(ends, Len(items'))
      /\ UNCHANGED <<function, args, step>> /\ fs' = fs
  BY DEF ScalarInv, AppendVerdict, vars, ValueOf
<1>2. k \in 1 .. Len(args) /\ args[k] \in Row
  BY <1>1 DEF Loop
<1>3. text \in Texts
  BY <1>1, <1>2, BytesAreText DEF Row
<1>4. /\ errors \in Seq(Item) /\ (ok <=> Len(errors) = 0)
      /\ \A e \in 1 .. Len(errors) : errors[e][1] = text
  <2>1. CASE text = Null
    <3>1. Struct000 \in Item /\ Struct000[1] = Null
      BY DEF Struct000, Item, Texts
    <3>2. errors = <<Struct000>> /\ ok = FALSE
      BY <2>1
    <3> QED
      BY <2>1, <3>1, <3>2
  <2>2. CASE text # Null
    <3>1. text \in Messages /\ Errors[text] \in Nat
      BY <1>3, <2>2, ScalarAssumption DEF Texts
    <3>2. /\ ErrorsOf(text) \in Seq(Item) /\ Len(ErrorsOf(text)) = Errors[text]
          /\ \A e \in 1 .. Errors[text] : ErrorsOf(text)[e] = <<text, e>>
      BY <1>3, <3>1 DEF ErrorsOf, Item
    <3>3. errors = ErrorsOf(text) /\ ok = (Errors[text] = 0)
      BY <2>2
    <3> QED
      BY <3>2, <3>3
  <2> QED
    BY <2>1, <2>2
<1>5. ok \in BOOLEAN /\ (text = Null => ~ ok)
  OBVIOUS
<1> HIDE DEF text, errors, ok
<1>6. /\ texts' \in Seq(Texts) /\ Len(texts') = Len(texts) + 1
      /\ \A i \in 1 .. Len(texts) : texts'[i] = texts[i]
      /\ texts'[k] = text
  BY <1>1, <1>3, Longer DEF Loop
<1>7. /\ values' \in Seq(BOOLEAN) /\ Len(values') = Len(texts) + 1
      /\ \A i \in 1 .. Len(texts) : values'[i] = values[i]
      /\ values'[k] = ok
  BY <1>1, <1>5, Longer DEF Lists
<1>8. /\ items' \in Seq(Item) /\ Len(items') = Len(items) + Len(errors)
      /\ \A j \in 1 .. Len(items) : items'[j] = items[j]
      /\ \A e \in 1 .. Len(errors) : items'[Len(items) + e] = errors[e]
  BY <1>1, <1>4, Extended DEF Loop
<1>9. Len(items') \in Nat /\ Len(items) \in Nat /\ Len(errors) \in Nat /\ Len(texts) \in Nat
  BY <1>1, <1>4, <1>8 DEF Loop
<1>10. /\ ends' \in Seq(Nat) /\ Len(ends') = Len(texts) + 1
       /\ \A i \in 1 .. Len(texts) : ends'[i] = ends[i]
       /\ ends'[k] = Len(items')
  BY <1>1, <1>9, Longer DEF Loop, Lists
<1>11. Loop'
  BY <1>1, <1>6, <1>8, <1>10 DEF Loop
<1>12. /\ \A i \in 1 .. Len(texts) : StartIn(ends', i) = StartIn(ends, i)
       /\ StartIn(ends', k) = Len(items) /\ StartIn(ends', k + 1) = Len(items')
  <2>1. Len(items) = StartIn(ends, k)
    BY <1>1 DEF Lists
  <2>2. k = 1 \/ k - 1 \in 1 .. Len(texts)
    BY <1>9
  <2>3. \A i \in 1 .. Len(texts) : i = 1 \/ i - 1 \in 1 .. Len(texts)
    BY <1>9
  <2>4. k \in Nat /\ k + 1 # 1 /\ k + 1 - 1 = k
    BY <1>9
  <2> HIDE DEF k
  <2>5. \A i \in 1 .. Len(texts) : StartIn(ends', i) = StartIn(ends, i)
    BY <1>10, <2>3 DEF StartIn
  <2>6. StartIn(ends', k) = StartIn(ends, k)
    BY <1>10, <2>2 DEF StartIn
  <2>7. StartIn(ends', k + 1) = Len(items')
    BY <1>10, <2>4 DEF StartIn
  <2> QED
    BY <2>1, <2>5, <2>6, <2>7
<1>13. ASSUME NEW i \in 1 .. Len(texts) + 1
       PROVE  /\ StartIn(ends', i) <= ends'[i] /\ ends'[i] <= Len(items')
              /\ values'[i] <=> StartIn(ends', i) = ends'[i]
              /\ \A j \in StartIn(ends', i) + 1 .. ends'[i] : items'[j][1] = texts'[i]
              /\ texts'[i] = Null => ~ values'[i]
  <2>1. CASE i \in 1 .. Len(texts)
    <3>1. /\ StartIn(ends, i) <= ends[i] /\ ends[i] <= Len(items)
          /\ values[i] <=> StartIn(ends, i) = ends[i]
          /\ \A j \in StartIn(ends, i) + 1 .. ends[i] : items[j][1] = texts[i]
          /\ texts[i] = Null => ~ values[i]
      BY <1>1, <2>1 DEF Lists
    <3>2. /\ StartIn(ends', i) = StartIn(ends, i) /\ ends'[i] = ends[i]
          /\ values'[i] = values[i] /\ texts'[i] = texts[i]
      BY <1>6, <1>7, <1>10, <1>12, <2>1
    <3>3. ends[i] \in Nat /\ StartIn(ends, i) \in Nat
      <4>1. i \in DOMAIN ends /\ (i = 1 \/ i - 1 \in DOMAIN ends)
        BY <1>1, <1>9, <2>1 DEF Loop, Lists
      <4> QED
        BY <1>1, <4>1 DEF Loop, StartIn
    <3>4. \A j \in StartIn(ends, i) + 1 .. ends[i] : items'[j] = items[j]
      BY <1>8, <1>9, <3>1, <3>3
    <3>5. ends[i] <= Len(items')
      BY <1>8, <1>9, <3>1, <3>3
    <3> QED
      BY <3>1, <3>2, <3>4, <3>5
  <2>2. CASE i = k
    <3>1. StartIn(ends', i) = Len(items) /\ ends'[i] = Len(items) + Len(errors)
          /\ values'[i] = ok /\ texts'[i] = text /\ Len(items') = ends'[i]
      BY <1>6, <1>7, <1>8, <1>10, <1>12, <2>2
    <3>2. ASSUME NEW j \in Len(items) + 1 .. Len(items) + Len(errors)
          PROVE  items'[j][1] = text
      <4>1. PICK e \in 1 .. Len(errors) : j = Len(items) + e
        <5>1. j - Len(items) \in 1 .. Len(errors) /\ j = Len(items) + (j - Len(items))
          BY <1>9
        <5> QED
          BY <5>1
      <4>2. items'[j] = errors[e]
        BY <1>8, <4>1
      <4> QED
        BY <1>4, <4>2
    <3>3. ok <=> Len(items) = Len(items) + Len(errors)
      BY <1>4, <1>9
    <3>4. Len(items) <= Len(items) + Len(errors)
      BY <1>9
    <3>5. values'[i] <=> StartIn(ends', i) = ends'[i]
      BY <3>1, <3>3
    <3> QED
      BY <1>5, <3>1, <3>2, <3>4, <3>5
  <2> QED
    BY <1>9, <2>1, <2>2
<1>14. Lists'
  <2>1. Len(ends') + 1 = k + 1
    BY <1>10
  <2>2. Len(items') = StartIn(ends', Len(ends') + 1)
    BY <1>12, <2>1
  <2> QED
    BY <1>6, <1>7, <1>10, <1>13, <2>2 DEF Lists
<1> QED
  BY <1>1, <1>11, <1>14 DEF ScalarInv, Column, FailsOnTagsOnly

\* The two columns of the STRUCT are as long as each other.
LEMMA ReturnKeeps == ScalarInv /\ ReturnColumn /\ UNCHANGED vars => ScalarInv'
<1> SUFFICES ASSUME ScalarInv, ReturnColumn, UNCHANGED vars PROVE ScalarInv'
  OBVIOUS
<1>1. /\ Loop /\ Lists /\ Len(texts) = Len(args) /\ fs' = fs
      /\ UNCHANGED <<function, args, texts, values, items, ends>>
      /\ step' = IF function = "validate" /\ Len(values) # Len(ends)
                 THEN "failed" ELSE "returned"
  BY DEF ScalarInv, ReturnColumn, vars
<1>2. step' = "returned" /\ step = "loop"
  BY <1>1 DEF Lists, ReturnColumn
<1>3. Loop' /\ Lists' /\ FailsOnTagsOnly'
  BY <1>1, <1>2 DEF Loop, Lists, StartIn, FailsOnTagsOnly
<1>4. Column
  BY DEF ScalarInv
<1>5. Column'
  BY ZenonT(60), <1>1, <1>2, <1>4 DEF Column, OwnValue
<1> QED
  BY <1>3, <1>5 DEF ScalarInv

\* Files change under a call; what it has built does not.
LEMMA OtherKeeps ==
  ScalarInv /\ UNCHANGED scalarVars /\ fs' \in [Files -> Messages \cup {Missing}] => ScalarInv'
<1> SUFFICES ASSUME ScalarInv, UNCHANGED scalarVars,
                    fs' \in [Files -> Messages \cup {Missing}]
             PROVE  ScalarInv'
  OBVIOUS
<1>1. Loop'
  BY DEF ScalarInv, scalarVars, Loop
<1>2. Lists'
  <2>1. Lists /\ function' = function /\ texts' = texts /\ values' = values
          /\ items' = items /\ ends' = ends
    BY DEF ScalarInv, scalarVars
  <2> QED
    BY ZenonT(60), <2>1 DEF Lists, StartIn
<1>3. Column'
  BY ZenonT(60) DEF ScalarInv, scalarVars, Column, OwnValue
<1> QED
  BY <1>1, <1>2, <1>3 DEF ScalarInv, scalarVars, FailsOnTagsOnly

\* Every step of a worker that computes scalar functions keeps the invariant.
THEOREM ScalarInvariant == ScalarSpec => []ScalarInv
<1>1. ScalarInv /\ [ScalarNext]_<<vars, scalarVars>> => ScalarInv'
  <2> SUFFICES ASSUME ScalarInv, [ScalarNext]_<<vars, scalarVars>> PROVE ScalarInv'
    OBVIOUS
  <2>1. CASE (CallScalar \/ AppendValue \/ AppendVerdict \/ ReturnColumn) /\ UNCHANGED vars
    BY <2>1, CallKeeps, ValueKeeps, VerdictKeeps, ReturnKeeps
  <2>2. CASE (\E f \in Files : ChangeFile(f)) /\ UNCHANGED scalarVars
    <3>1. fs' \in [Files -> Messages \cup {Missing}]
      BY <2>2 DEF ScalarInv, Loop, ChangeFile
    <3> QED
      BY <2>2, <3>1, OtherKeeps
  <2>3. CASE UNCHANGED <<vars, scalarVars>>
    <3>1. fs' = fs /\ UNCHANGED scalarVars
      BY <2>3 DEF vars
    <3> QED
      BY <3>1, OtherKeeps DEF ScalarInv, Loop
  <2> QED
    BY <2>1, <2>2, <2>3 DEF ScalarNext
<1> QED
  BY <1>1, ScalarInitInv, PTL DEF ScalarSpec

(***************************************************************************)
(* The columns of mt_type, mt103_field and mt103_amount are put beside the *)
(* rows by position alone (scalar/mt103.rs 107-143): every row has the     *)
(* value of its own message, and of the tag that it asks for.              *)
(***************************************************************************)
THEOREM ValuesAreOwn == ScalarSpec => []ValuesOfTheirRows
<1>1. ScalarInv => ValuesOfTheirRows
  <2> SUFFICES ASSUME ScalarInv, step = "returned"
               PROVE  /\ Len(values) = Len(args)
                      /\ function # "validate" =>
                           \A i \in DOMAIN args :
                             IF texts[i] = Null \/ (function = "mt103_field" /\ args[i].tag = Null)
                             THEN values[i] = Null
                             ELSE /\ function = "mt_type" => values[i] = Label[texts[i]]
                                  /\ function = "mt103_amount" => values[i] = Amount[texts[i]]
                                  /\ function = "mt103_field" =>
                                       IsValueOfTag(values[i], texts[i], args[i].tag)
    BY DEF ValuesOfTheirRows
  <2>1. Loop /\ Lists /\ Column /\ Len(texts) = Len(args) /\ function \in Functions
    BY DEF ScalarInv, Loop
  <2>2. Len(values) = Len(args)
    BY <2>1 DEF Lists, Column
  <2>3. ASSUME function # "validate", NEW i \in DOMAIN args
        PROVE  IF texts[i] = Null \/ (function = "mt103_field" /\ args[i].tag = Null)
               THEN values[i] = Null
               ELSE /\ function = "mt_type" => values[i] = Label[texts[i]]
                    /\ function = "mt103_amount" => values[i] = Amount[texts[i]]
                    /\ function = "mt103_field" =>
                         IsValueOfTag(values[i], texts[i], args[i].tag)
    <3>1. /\ i \in 1 .. Len(texts) /\ args[i] \in Row
          /\ values[i] = OwnValue(function, texts[i], args[i].tag)
      BY <2>1, <2>3 DEF Loop, Column
    <3>2. texts[i] \in Texts
      BY <2>1, <3>1 DEF Loop
    <3>3. CASE texts[i] = Null \/ (function = "mt103_field" /\ args[i].tag = Null)
      BY <3>1, <3>3 DEF OwnValue
    <3>4. CASE ~ (texts[i] = Null \/ (function = "mt103_field" /\ args[i].tag = Null))
      <4>1. ASSUME function = "mt103_field"
            PROVE  IsValueOfTag(values[i], texts[i], args[i].tag)
        <5>1. values[i] = RawTag(texts[i], args[i].tag) /\ texts[i] \in Messages
          BY <3>1, <3>2, <3>4, <4>1 DEF OwnValue, Texts
        <5> QED
          BY <5>1, ValueIsOfTag
      <4> QED
        BY <3>1, <3>4, <4>1 DEF OwnValue
    <3> QED
      BY <3>3, <3>4
  <2> QED
    BY <2>2, <2>3
<1> QED
  BY <1>1, ScalarInvariant, PTL

(***************************************************************************)
(* The list of a row in validate's result is a slice of one array that all *)
(* rows share (scalar/validate.rs 89-112): it is that row's own, and `ok`  *)
(* says whether it is empty.                                               *)
(***************************************************************************)
THEOREM VerdictIsOwn == ScalarSpec => []VerdictOfItsErrors
<1>1. ScalarInv => VerdictOfItsErrors
  <2> SUFFICES ASSUME ScalarInv, step = "returned", function = "validate"
               PROVE  /\ Len(ends) = Len(args)
                      /\ \A i \in DOMAIN args :
                           /\ values[i] <=> ListOf(i) = <<>>
                           /\ \A e \in DOMAIN ListOf(i) : ListOf(i)[e][1] = texts[i]
                           /\ texts[i] = Null => ~ values[i]
    BY DEF VerdictOfItsErrors
  <2>1. Loop /\ Lists /\ Len(texts) = Len(args) /\ Len(ends) = Len(args)
    BY DEF ScalarInv, Loop, Lists
  <2>2. ASSUME NEW i \in DOMAIN args
        PROVE  /\ values[i] <=> ListOf(i) = <<>>
               /\ \A e \in DOMAIN ListOf(i) : ListOf(i)[e][1] = texts[i]
               /\ texts[i] = Null => ~ values[i]
    <3>1. i \in 1 .. Len(ends) /\ i \in DOMAIN ends /\ (i = 1 \/ i - 1 \in DOMAIN ends)
      BY <2>1 DEF Loop
    <3>2. /\ StartIn(ends, i) <= ends[i] /\ ends[i] <= Len(items)
          /\ values[i] <=> StartIn(ends, i) = ends[i]
          /\ \A j \in StartIn(ends, i) + 1 .. ends[i] : items[j][1] = texts[i]
          /\ texts[i] = Null => ~ values[i]
      BY <2>1, <3>1 DEF Lists
    <3>3. ends[i] \in Nat /\ StartIn(ends, i) \in Nat /\ Len(items) \in Nat /\ items \in Seq(Item)
      BY <2>1, <3>1 DEF Loop, StartIn
    <3>4. ListOf(i) = SubSeq(items, StartIn(ends, i) + 1, ends[i])
      BY DEF ListOf, StartIn
    <3> DEFINE a == StartIn(ends, i) + 1
               b == ends[i]
    <3>5. /\ Len(ListOf(i)) = b - StartIn(ends, i) /\ ListOf(i) \in Seq(Item)
          /\ \A e \in 1 .. b - StartIn(ends, i) : ListOf(i)[e] = items[StartIn(ends, i) + e]
      <4>1. a \in 1 .. Len(items) + 1 /\ b \in a - 1 .. Len(items)
        BY <3>2, <3>3
      <4>2. /\ SubSeq(items, a, b) \in Seq(Item)
            /\ Len(SubSeq(items, a, b)) = IF a <= b THEN b - a + 1 ELSE 0
            /\ \A e \in 1 .. b - a + 1 : SubSeq(items, a, b)[e] = items[a + e - 1]
        BY <3>3, <4>1, SubSeqProperties
      <4>3. b - a + 1 = b - StartIn(ends, i) /\ (a <= b \/ b - StartIn(ends, i) = 0)
        BY <3>2, <3>3
      <4>4. \A e \in 1 .. b - StartIn(ends, i) : a + e - 1 = StartIn(ends, i) + e
        BY <3>3
      <4>5. Len(SubSeq(items, a, b)) = b - StartIn(ends, i)
        BY <3>2, <3>3, <4>2
      <4> QED
        BY <3>4, <4>2, <4>3, <4>4, <4>5
    <3>6. \A e \in 1 .. b - StartIn(ends, i) : StartIn(ends, i) + e \in StartIn(ends, i) + 1 .. b
      BY <3>2, <3>3
    <3>7. DOMAIN ListOf(i) = 1 .. b - StartIn(ends, i)
      BY <3>5
    <3>8. ListOf(i) = <<>> <=> StartIn(ends, i) = ends[i]
      BY <3>3, <3>5
    <3> QED
      BY <3>2, <3>5, <3>6, <3>7, <3>8
  <2> QED
    BY <2>1, <2>2
<1> QED
  BY <1>1, ScalarInvariant, PTL

(***************************************************************************)
(* A message never fails a scalar call, whatever it holds and whatever     *)
(* becomes of its file: only a tag that is no string does.                 *)
(***************************************************************************)
THEOREM OnlyTagsFail == ScalarSpec => []FailsOnTagsOnly
<1>1. ScalarInv => FailsOnTagsOnly
  BY DEF ScalarInv
<1> QED
  BY <1>1, ScalarInvariant, PTL
-----------------------------------------------------------------------------
(***************************************************************************)
(* The columns of the tables.  A builder and the schema agree on a column  *)
(* when its field has the column's name and its type; a cell is what the   *)
(* column says when it is from one of its places, and NULL only if nothing *)
(* stands there that does not give way.                                    *)
(***************************************************************************)
Laid(schema, builders, c) ==
  /\ builders[c].field = schema[c][1]
  /\ TypeOf[builders[c].builder] = schema[c][2]

LaidOut(schema, builders, n) ==
  /\ n \in Nat \ {0} /\ Len(schema) = n
  /\ DOMAIN schema = 1 .. n /\ DOMAIN builders = 1 .. n
  /\ \A c \in 1 .. n : Laid(schema, builders, c)

Shows(cell, places) ==
  /\ cell \in places \cup {None}
  /\ \A p \in places \cap message : GivesWay(p) \/ cell # None

\* The ways of looking something up.
Answer(cell, places) == cell \in {"yes", "no"} /\ places = {"yes", "no"}
Supplied(cell, places, p) == cell = p /\ places = {p}
ReadAt(cell, places, p)   == cell = At(message, p) /\ places = {p}
FirstOf(cell, places, p, q) ==
  cell = OrElse(At(message, p), At(message, q)) /\ places = {p, q}

FirstOfThree(cell, places, p, q, r) ==
  /\ cell = OrElse(At(message, p), OrElse(At(message, q), At(message, r)))
  /\ places = {p, q, r}

LEMMA Lookups ==
  ASSUME NEW cell, NEW places, None \notin places
  PROVE  /\ Answer(cell, places) => Shows(cell, places)
         /\ \A p : Supplied(cell, places, p) => Shows(cell, places)
         /\ \A p : ReadAt(cell, places, p) => Shows(cell, places)
         /\ \A p, q : FirstOf(cell, places, p, q) => Shows(cell, places)
         /\ \A p, q, r : FirstOfThree(cell, places, p, q, r) => Shows(cell, places)
BY DEF Shows, Answer, Supplied, ReadAt, FirstOf, FirstOfThree, At, OrElse

\* A part of a balance is read from the final field when that is there.
PartOf(cell, places, balance, part) ==
  cell = BalancePart(message, balance, part) /\ places = EitherOf(balance, part)

BothOf(cell, places, part) ==
  /\ cell = OrElse(BalancePart(message, Opening, part), BalancePart(message, Closing, part))
  /\ places = EitherOf(Opening, part) \cup EitherOf(Closing, part)

LEMMA BalanceShows ==
  ASSUME table = "mt940", NEW part \in {"/dc", "/date", "/ccy", "/amount"}
  PROVE  /\ \A balance \in {Opening, Closing} : \A cell, places :
              None \notin places /\ PartOf(cell, places, balance, part) => Shows(cell, places)
         /\ \A cell, places :
              None \notin places /\ BothOf(cell, places, part) => Shows(cell, places)
<1>1. ASSUME NEW balance \in {Opening, Closing}, NEW cell, NEW places,
             None \notin places, PartOf(cell, places, balance, part)
      PROVE  Shows(cell, places)
  <2> DEFINE final == balance.final
             intermediate == balance.intermediate
  <2>1. final \o part \in Balance(final) /\ intermediate \o part \in Balance(intermediate)
    BY DEF Balance
  <2>2. places = {final \o part, intermediate \o part}
    BY <1>1 DEF PartOf, EitherOf
  <2>3. CASE message \cap Balance(final) # {}
    <3>1. cell = At(message, final \o part)
      BY <1>1, <2>3 DEF PartOf, BalancePart
    <3>2. GivesWay(intermediate \o part)
      BY <2>1, <2>3 DEF GivesWay
    <3> HIDE DEF final, intermediate
    <3> QED
      BY <1>1, <2>2, <3>1, <3>2 DEF Shows, At
  <2>4. CASE message \cap Balance(final) = {}
    <3>1. cell = At(message, intermediate \o part)
      BY <1>1, <2>4 DEF PartOf, BalancePart
    <3>2. final \o part \notin message
      BY <2>1, <2>4
    <3> HIDE DEF final, intermediate
    <3> QED
      BY <1>1, <2>2, <3>1, <3>2 DEF Shows, At
  <2> QED
    BY <2>3, <2>4
<1>2. ASSUME NEW cell, NEW places, None \notin places, BothOf(cell, places, part)
      PROVE  Shows(cell, places)
  <2> DEFINE opening == BalancePart(message, Opening, part)
             closing == BalancePart(message, Closing, part)
  <2>1. Shows(opening, EitherOf(Opening, part)) /\ Shows(closing, EitherOf(Closing, part))
    BY <1>1, <1>2 DEF PartOf, BothOf
  <2>2. /\ cell = OrElse(opening, closing)
        /\ places = EitherOf(Opening, part) \cup EitherOf(Closing, part)
    BY <1>2 DEF BothOf
  <2> HIDE DEF opening, closing
  <2> QED
    BY <2>1, <2>2 DEF Shows, OrElse
<1> QED
  BY <1>1, <1>2

\* The other party gives way to the counterparty.
Aside(cell, places, p, q) ==
  /\ cell = At(message, p) /\ places = {p, q}
  /\ q \in Side(IF "CdtDbtInd=CRDT" \in message THEN "Cdtr" ELSE "Dbtr")

LEMMA CounterpartyShows ==
  ASSUME table = "entries", NEW cell, NEW places, None \notin places
  PROVE  \A p, q : Aside(cell, places, p, q) => Shows(cell, places)
BY DEF Shows, Aside, GivesWay, At

LEMMA Mt103Laid == LaidOut(Mt103Schema, Mt103Columns, 30)
<1> DEFINE L(c) == Laid(Mt103Schema, Mt103Columns, c)
<1>1. Len(Mt103Schema) = 30 /\ DOMAIN Mt103Schema = 1 .. 30
  BY DEF Mt103Schema
<1>2. DOMAIN Mt103Columns = 1 .. 30
  BY DEF Mt103Columns, Built, str_col, date_col, dec_col, list_str_col
<1>3. /\ L(1) /\ L(2) /\ L(3) /\ L(4) /\ L(5) /\ L(6) /\ L(7) /\ L(8) /\ L(9)
      /\ L(10)
  BY DEF Laid, TypeOf, Mt103Schema, Mt103Columns, Built,
         str_col, date_col, dec_col, list_str_col
<1>4. /\ L(11) /\ L(12) /\ L(13) /\ L(14) /\ L(15) /\ L(16) /\ L(17) /\ L(18)
      /\ L(19) /\ L(20)
  BY DEF Laid, TypeOf, Mt103Schema, Mt103Columns, Built,
         str_col, date_col, dec_col, list_str_col
<1>5. /\ L(21) /\ L(22) /\ L(23) /\ L(24) /\ L(25) /\ L(26) /\ L(27) /\ L(28)
      /\ L(29) /\ L(30)
  BY DEF Laid, TypeOf, Mt103Schema, Mt103Columns, Built,
         str_col, date_col, dec_col, list_str_col
<1> HIDE DEF L
<1>6. \A c \in 1 .. 30 : L(c)
  BY <1>3, <1>4, <1>5
<1> QED
  BY <1>1, <1>2, <1>6 DEF L, LaidOut

LEMMA Mt103Shows ==
  ASSUME table = "mt103"
  PROVE  \A c \in 1 .. 30 : Shows(Mt103Row(message)[Mt103Schema[c][1]], Mt103Schema[c][3])
<1> SUFFICES ASSUME NEW fields, fields = Mt103Row(message), NEW schema, schema = Mt103Schema
             PROVE  \A c \in 1 .. 30 : Shows(fields[schema[c][1]], schema[c][3])
  OBVIOUS
<1> DEFINE Value(c) == fields[schema[c][1]]
           Places(c) == schema[c][3]
           S(c) == Shows(Value(c), Places(c))
           N(c) == None \notin Places(c)
           Is(c, p)  == Supplied(Value(c), Places(c), p)
           One(c, p) == ReadAt(Value(c), Places(c), p)
           Either(c, p, q) == FirstOf(Value(c), Places(c), p, q)
<1>0. \A c \in 1 .. 30 : N(c)
  <2>1. "mt103" \in Tables /\ Schemas["mt103"] = schema
    BY DEF Tables, Schemas
  <2>2. DOMAIN schema = 1 .. 30
    BY DEF Mt103Schema
  <2> QED
    BY <2>1, <2>2, TableAssumption
<1>1. /\ One(1, "20") /\ One(2, "23B") /\ One(3, "23E") /\ One(4, "32A/date")
      /\ One(5, "32A/ccy") /\ One(6, "32A/amount") /\ One(7, "33B/ccy")
      /\ One(8, "33B/amount") /\ One(9, "36") /\ One(10, "50a/name")
  BY DEF ReadAt, Mt103Row, Mt103Schema
<1>2. /\ S(1) /\ S(2) /\ S(3) /\ S(4) /\ S(5) /\ S(6) /\ S(7) /\ S(8) /\ S(9)
      /\ S(10)
  BY <1>0, <1>1, Lookups
<1>3. /\ One(11, "50a/account") /\ One(12, "50a/bic") /\ One(13, "52a")
      /\ One(14, "53a") /\ One(15, "54a") /\ One(16, "55a") /\ One(17, "56a")
      /\ One(18, "57a") /\ One(19, "59a/name") /\ One(20, "59a/account")
  BY DEF ReadAt, Mt103Row, Mt103Schema
<1>4. /\ S(11) /\ S(12) /\ S(13) /\ S(14) /\ S(15) /\ S(16) /\ S(17) /\ S(18)
      /\ S(19) /\ S(20)
  BY <1>0, <1>3, Lookups
<1>5. /\ One(21, "59a/bic") /\ One(22, "70") /\ One(23, "71A") /\ One(24, "71F")
      /\ One(25, "71G") /\ One(26, "72") /\ Either(27, "72/token", "121")
      /\ One(28, "121") /\ Is(29, "raw") /\ Is(30, "path")
  BY DEF Supplied, ReadAt, FirstOf, Mt103Row, Mt103Schema
<1>6. /\ S(21) /\ S(22) /\ S(23) /\ S(24) /\ S(25) /\ S(26) /\ S(27) /\ S(28)
      /\ S(29) /\ S(30)
  BY <1>0, <1>5, Lookups
<1> HIDE DEF S
<1>7. \A c \in 1 .. 30 : S(c)
  BY <1>2, <1>4, <1>6
<1> QED
  BY <1>7 DEF S

LEMMA Mt202Laid == LaidOut(Mt202Schema, Mt202Columns, 19)
<1> DEFINE L(c) == Laid(Mt202Schema, Mt202Columns, c)
<1>1. Len(Mt202Schema) = 19 /\ DOMAIN Mt202Schema = 1 .. 19
  BY DEF Mt202Schema
<1>2. DOMAIN Mt202Columns = 1 .. 19
  BY DEF Mt202Columns, Built, str_col, date_col, dec_col, bool_col
<1>3. /\ L(1) /\ L(2) /\ L(3) /\ L(4) /\ L(5) /\ L(6) /\ L(7) /\ L(8) /\ L(9)
      /\ L(10)
  BY DEF Laid, TypeOf, Mt202Schema, Mt202Columns, Built,
         str_col, date_col, dec_col, bool_col
<1>4. /\ L(11) /\ L(12) /\ L(13) /\ L(14) /\ L(15) /\ L(16) /\ L(17) /\ L(18)
      /\ L(19)
  BY DEF Laid, TypeOf, Mt202Schema, Mt202Columns, Built,
         str_col, date_col, dec_col, bool_col
<1> HIDE DEF L
<1>5. \A c \in 1 .. 19 : L(c)
  BY <1>3, <1>4
<1> QED
  BY <1>1, <1>2, <1>5 DEF L, LaidOut

LEMMA Mt202Shows ==
  ASSUME table = "mt202"
  PROVE  \A c \in 1 .. 19 : Shows(Mt202Row(message)[Mt202Schema[c][1]], Mt202Schema[c][3])
<1> SUFFICES ASSUME NEW fields, fields = Mt202Row(message), NEW schema, schema = Mt202Schema
             PROVE  \A c \in 1 .. 19 : Shows(fields[schema[c][1]], schema[c][3])
  OBVIOUS
<1> DEFINE Value(c) == fields[schema[c][1]]
           Places(c) == schema[c][3]
           S(c) == Shows(Value(c), Places(c))
           N(c) == None \notin Places(c)
           Is(c, p)  == Supplied(Value(c), Places(c), p)
           One(c, p) == ReadAt(Value(c), Places(c), p)
           Three(c, p, q, r) == FirstOfThree(Value(c), Places(c), p, q, r)
           Answered(c) == Answer(Value(c), Places(c))
<1>0. \A c \in 1 .. 19 : N(c)
  <2>1. "mt202" \in Tables /\ Schemas["mt202"] = schema
    BY DEF Tables, Schemas
  <2>2. DOMAIN schema = 1 .. 19
    BY DEF Mt202Schema
  <2> QED
    BY <2>1, <2>2, TableAssumption
<1>1. /\ One(1, "20") /\ One(2, "21") /\ One(3, "32A/date") /\ One(4, "32A/ccy")
      /\ One(5, "32A/amount") /\ One(6, "52a") /\ One(7, "53a") /\ One(8, "54a")
      /\ One(9, "56a") /\ One(10, "57a")
  BY DEF ReadAt, Mt202Row, Mt202Schema
<1>2. /\ S(1) /\ S(2) /\ S(3) /\ S(4) /\ S(5) /\ S(6) /\ S(7) /\ S(8) /\ S(9)
      /\ S(10)
  BY <1>0, <1>1, Lookups
<1>3. /\ One(11, "58a") /\ One(12, "72") /\ Answered(13)
      /\ Three(14, "50a" \o "/name", "50a" \o "/account", "50a" \o "/bic")
      /\ Three(15, "59a" \o "/name", "59a" \o "/account", "59a" \o "/bic")
      /\ One(16, "70") /\ One(17, "121") /\ Is(18, "raw") /\ Is(19, "path")
  BY DEF Supplied, ReadAt, FirstOfThree, Answer, YesNo, Customer, Mt202Row, Mt202Schema
<1>4. /\ S(11) /\ S(12) /\ S(13) /\ S(14) /\ S(15) /\ S(16) /\ S(17) /\ S(18)
      /\ S(19)
  BY <1>0, <1>3, Lookups
<1> HIDE DEF S
<1>5. \A c \in 1 .. 19 : S(c)
  BY <1>2, <1>4
<1> QED
  BY <1>5 DEF S

LEMMA Mt940Laid == LaidOut(Mt940Schema, Mt940Columns, 19)
<1> DEFINE L(c) == Laid(Mt940Schema, Mt940Columns, c)
<1>1. Len(Mt940Schema) = 19 /\ DOMAIN Mt940Schema = 1 .. 19
  BY DEF Mt940Schema
<1>2. DOMAIN Mt940Columns = 1 .. 19
  BY DEF Mt940Columns, Built, str_col, date_col, dec_col, int_col,
         bool_col
<1>3. /\ L(1) /\ L(2) /\ L(3) /\ L(4) /\ L(5) /\ L(6) /\ L(7) /\ L(8) /\ L(9)
      /\ L(10)
  BY DEF Laid, TypeOf, Mt940Schema, Mt940Columns, Built,
         str_col, date_col, dec_col, int_col, bool_col
<1>4. /\ L(11) /\ L(12) /\ L(13) /\ L(14) /\ L(15) /\ L(16) /\ L(17) /\ L(18)
      /\ L(19)
  BY DEF Laid, TypeOf, Mt940Schema, Mt940Columns, Built,
         str_col, date_col, dec_col, int_col, bool_col
<1> HIDE DEF L
<1>5. \A c \in 1 .. 19 : L(c)
  BY <1>3, <1>4
<1> QED
  BY <1>1, <1>2, <1>5 DEF L, LaidOut

LEMMA Mt940Shows ==
  ASSUME table = "mt940"
  PROVE  \A c \in 1 .. 19 : Shows(Mt940Row(message)[Mt940Schema[c][1]], Mt940Schema[c][3])
<1> SUFFICES ASSUME NEW fields, fields = Mt940Row(message), NEW schema, schema = Mt940Schema
             PROVE  \A c \in 1 .. 19 : Shows(fields[schema[c][1]], schema[c][3])
  OBVIOUS
<1> DEFINE Value(c) == fields[schema[c][1]]
           Places(c) == schema[c][3]
           S(c) == Shows(Value(c), Places(c))
           N(c) == None \notin Places(c)
           Is(c, p)  == Supplied(Value(c), Places(c), p)
           One(c, p) == ReadAt(Value(c), Places(c), p)
           Part(c, balance, part) == PartOf(Value(c), Places(c), balance, part)
           Both(c, part) == BothOf(Value(c), Places(c), part)
           Answered(c) == Answer(Value(c), Places(c))
<1>0. \A c \in 1 .. 19 : N(c)
  <2>1. "mt940" \in Tables /\ Schemas["mt940"] = schema
    BY DEF Tables, Schemas
  <2>2. DOMAIN schema = 1 .. 19
    BY DEF Mt940Schema
  <2> QED
    BY <2>1, <2>2, TableAssumption
<1>1. /\ Is(1, "ordinal") /\ One(2, "20") /\ One(3, "21") /\ One(4, "25")
      /\ One(5, "28C/statement") /\ One(6, "28C/sequence")
      /\ Part(7, Opening, "/amount") /\ Part(8, Opening, "/dc")
      /\ Part(9, Opening, "/date") /\ Answered(10)
  BY DEF Supplied, ReadAt, Answer, YesNo, PartOf, Mt940Row, Mt940Schema
<1>2. /\ S(1) /\ S(2) /\ S(3) /\ S(4) /\ S(5) /\ S(6) /\ S(7) /\ S(8) /\ S(9)
      /\ S(10)
  BY <1>0, <1>1, Lookups, BalanceShows
<1>3. /\ Both(11, "/ccy") /\ Part(12, Closing, "/amount")
      /\ Part(13, Closing, "/dc") /\ Part(14, Closing, "/date") /\ One(15, "64")
      /\ One(16, "65") /\ Is(17, "line_count") /\ Is(18, "raw") /\ Is(19, "path")
  BY DEF Supplied, ReadAt, PartOf, BothOf, Mt940Row, Mt940Schema
<1>4. /\ S(11) /\ S(12) /\ S(13) /\ S(14) /\ S(15) /\ S(16) /\ S(17) /\ S(18)
      /\ S(19)
  BY <1>0, <1>3, Lookups, BalanceShows
<1> HIDE DEF S
<1>5. \A c \in 1 .. 19 : S(c)
  BY <1>2, <1>4
<1> QED
  BY <1>5 DEF S

LEMMA Mt942Laid == LaidOut(Mt942Schema, Mt942Columns, 17)
<1> DEFINE L(c) == Laid(Mt942Schema, Mt942Columns, c)
<1>1. Len(Mt942Schema) = 17 /\ DOMAIN Mt942Schema = 1 .. 17
  BY DEF Mt942Schema
<1>2. DOMAIN Mt942Columns = 1 .. 17
  BY DEF Mt942Columns, Built, str_col, dec_col, ts_col, int_col
<1>3. /\ L(1) /\ L(2) /\ L(3) /\ L(4) /\ L(5) /\ L(6) /\ L(7) /\ L(8) /\ L(9)
      /\ L(10)
  BY DEF Laid, TypeOf, Mt942Schema, Mt942Columns, Built,
         str_col, dec_col, ts_col, int_col
<1>4. /\ L(11) /\ L(12) /\ L(13) /\ L(14) /\ L(15) /\ L(16) /\ L(17)
  BY DEF Laid, TypeOf, Mt942Schema, Mt942Columns, Built,
         str_col, dec_col, ts_col, int_col
<1> HIDE DEF L
<1>5. \A c \in 1 .. 17 : L(c)
  BY <1>3, <1>4
<1> QED
  BY <1>1, <1>2, <1>5 DEF L, LaidOut

LEMMA Mt942Shows ==
  ASSUME table = "mt942"
  PROVE  \A c \in 1 .. 17 : Shows(Mt942Row(message)[Mt942Schema[c][1]], Mt942Schema[c][3])
<1> SUFFICES ASSUME NEW fields, fields = Mt942Row(message), NEW schema, schema = Mt942Schema
             PROVE  \A c \in 1 .. 17 : Shows(fields[schema[c][1]], schema[c][3])
  OBVIOUS
<1> DEFINE Value(c) == fields[schema[c][1]]
           Places(c) == schema[c][3]
           S(c) == Shows(Value(c), Places(c))
           N(c) == None \notin Places(c)
           Is(c, p)  == Supplied(Value(c), Places(c), p)
           One(c, p) == ReadAt(Value(c), Places(c), p)
           Three(c, p, q, r) == FirstOfThree(Value(c), Places(c), p, q, r)
<1>0. \A c \in 1 .. 17 : N(c)
  <2>1. "mt942" \in Tables /\ Schemas["mt942"] = schema
    BY DEF Tables, Schemas
  <2>2. DOMAIN schema = 1 .. 17
    BY DEF Mt942Schema
  <2> QED
    BY <2>1, <2>2, TableAssumption
<1>1. /\ Is(1, "ordinal") /\ One(2, "20") /\ One(3, "21") /\ One(4, "25")
      /\ One(5, "28C/statement") /\ One(6, "28C/sequence") /\ One(7, "34F/debit")
      /\ One(8, "34F/credit") /\ Three(9, "34F/ccy", "90D/ccy", "90C/ccy")
      /\ One(10, "13D")
  BY DEF Supplied, ReadAt, FirstOfThree, Mt942Row, Mt942Schema
<1>2. /\ S(1) /\ S(2) /\ S(3) /\ S(4) /\ S(5) /\ S(6) /\ S(7) /\ S(8) /\ S(9)
      /\ S(10)
  BY <1>0, <1>1, Lookups
<1>3. /\ One(11, "90D/count") /\ One(12, "90D/sum") /\ One(13, "90C/count")
      /\ One(14, "90C/sum") /\ Is(15, "line_count") /\ Is(16, "raw")
      /\ Is(17, "path")
  BY DEF Supplied, ReadAt, Mt942Row, Mt942Schema
<1>4. /\ S(11) /\ S(12) /\ S(13) /\ S(14) /\ S(15) /\ S(16) /\ S(17)
  BY <1>0, <1>3, Lookups
<1> HIDE DEF S
<1>5. \A c \in 1 .. 17 : S(c)
  BY <1>2, <1>4
<1> QED
  BY <1>5 DEF S

LEMMA Pacs008Laid == LaidOut(Pacs008Schema, Pacs008Columns, 29)
<1> DEFINE L(c) == Laid(Pacs008Schema, Pacs008Columns, c)
<1>1. Len(Pacs008Schema) = 29 /\ DOMAIN Pacs008Schema = 1 .. 29
  BY DEF Pacs008Schema
<1>2. DOMAIN Pacs008Columns = 1 .. 29
  BY DEF Pacs008Columns, Built, str_col, date_col, dec_col, ts_col,
         int_col, list_str_col
<1>3. /\ L(1) /\ L(2) /\ L(3) /\ L(4) /\ L(5) /\ L(6) /\ L(7) /\ L(8) /\ L(9)
      /\ L(10)
  BY DEF Laid, TypeOf, Pacs008Schema, Pacs008Columns, Built,
         str_col, date_col, dec_col, ts_col, int_col, list_str_col
<1>4. /\ L(11) /\ L(12) /\ L(13) /\ L(14) /\ L(15) /\ L(16) /\ L(17) /\ L(18)
      /\ L(19) /\ L(20)
  BY DEF Laid, TypeOf, Pacs008Schema, Pacs008Columns, Built,
         str_col, date_col, dec_col, ts_col, int_col, list_str_col
<1>5. /\ L(21) /\ L(22) /\ L(23) /\ L(24) /\ L(25) /\ L(26) /\ L(27) /\ L(28)
      /\ L(29)
  BY DEF Laid, TypeOf, Pacs008Schema, Pacs008Columns, Built,
         str_col, date_col, dec_col, ts_col, int_col, list_str_col
<1> HIDE DEF L
<1>6. \A c \in 1 .. 29 : L(c)
  BY <1>3, <1>4, <1>5
<1> QED
  BY <1>1, <1>2, <1>6 DEF L, LaidOut

LEMMA Pacs008Shows ==
  ASSUME table = "pacs008"
  PROVE  \A c \in 1 .. 29 : Shows(Pacs008Row(message)[Pacs008Schema[c][1]], Pacs008Schema[c][3])
<1> SUFFICES ASSUME NEW fields, fields = Pacs008Row(message), NEW schema, schema = Pacs008Schema
             PROVE  \A c \in 1 .. 29 : Shows(fields[schema[c][1]], schema[c][3])
  OBVIOUS
<1> DEFINE Value(c) == fields[schema[c][1]]
           Places(c) == schema[c][3]
           S(c) == Shows(Value(c), Places(c))
           N(c) == None \notin Places(c)
           Is(c, p)  == Supplied(Value(c), Places(c), p)
           One(c, p) == ReadAt(Value(c), Places(c), p)
<1>0. \A c \in 1 .. 29 : N(c)
  <2>1. "pacs008" \in Tables /\ Schemas["pacs008"] = schema
    BY DEF Tables, Schemas
  <2>2. DOMAIN schema = 1 .. 29
    BY DEF Pacs008Schema
  <2> QED
    BY <2>1, <2>2, TableAssumption
<1>1. /\ One(1, "GrpHdr/MsgId") /\ One(2, "GrpHdr/CreDtTm")
      /\ One(3, "GrpHdr/NbOfTxs") /\ One(4, "GrpHdr/SttlmInf/SttlmMtd")
      /\ One(5, "PmtId/InstrId") /\ One(6, "PmtId/EndToEndId")
      /\ One(7, "PmtId/TxId") /\ One(8, "PmtId/UETR") /\ One(9, "IntrBkSttlmAmt")
      /\ One(10, "IntrBkSttlmAmt/@Ccy")
  BY DEF ReadAt, Pacs008Row, Pacs008Schema
<1>2. /\ S(1) /\ S(2) /\ S(3) /\ S(4) /\ S(5) /\ S(6) /\ S(7) /\ S(8) /\ S(9)
      /\ S(10)
  BY <1>0, <1>1, Lookups
<1>3. /\ One(11, "IntrBkSttlmDt") /\ One(12, "InstdAmt") /\ One(13, "InstdAmt/@Ccy")
      /\ One(14, "XchgRate") /\ One(15, "ChrgBr") /\ One(16, "Dbtr/Nm")
      /\ One(17, "DbtrAcct/Id/IBAN") /\ One(18, "DbtrAcct/Id/Othr/Id")
      /\ One(19, "DbtrAgt/FinInstnId/BICFI") /\ One(20, "Cdtr/Nm")
  BY DEF ReadAt, Pacs008Row, Pacs008Schema
<1>4. /\ S(11) /\ S(12) /\ S(13) /\ S(14) /\ S(15) /\ S(16) /\ S(17) /\ S(18)
      /\ S(19) /\ S(20)
  BY <1>0, <1>3, Lookups
<1>5. /\ One(21, "CdtrAcct/Id/IBAN") /\ One(22, "CdtrAcct/Id/Othr/Id")
      /\ One(23, "CdtrAgt/FinInstnId/BICFI")
      /\ One(24, "IntrmyAgt1/FinInstnId/BICFI") /\ One(25, "Purp/Cd")
      /\ One(26, "RmtInf/Ustrd") /\ One(27, "RmtInf/Strd/CdtrRefInf/Ref")
      /\ Is(28, "raw") /\ Is(29, "path")
  BY DEF Supplied, ReadAt, Pacs008Row, Pacs008Schema
<1>6. /\ S(21) /\ S(22) /\ S(23) /\ S(24) /\ S(25) /\ S(26) /\ S(27) /\ S(28)
      /\ S(29)
  BY <1>0, <1>5, Lookups
<1> HIDE DEF S
<1>7. \A c \in 1 .. 29 : S(c)
  BY <1>2, <1>4, <1>6
<1> QED
  BY <1>7 DEF S

LEMMA Pacs002Laid == LaidOut(Pacs002Schema, Pacs002Columns, 16)
<1> DEFINE L(c) == Laid(Pacs002Schema, Pacs002Columns, c)
<1>1. Len(Pacs002Schema) = 16 /\ DOMAIN Pacs002Schema = 1 .. 16
  BY DEF Pacs002Schema
<1>2. DOMAIN Pacs002Columns = 1 .. 16
  BY DEF Pacs002Columns, Built, str_col, ts_col, list_str_col
<1>3. /\ L(1) /\ L(2) /\ L(3) /\ L(4) /\ L(5) /\ L(6) /\ L(7) /\ L(8) /\ L(9)
      /\ L(10)
  BY DEF Laid, TypeOf, Pacs002Schema, Pacs002Columns, Built,
         str_col, ts_col, list_str_col
<1>4. /\ L(11) /\ L(12) /\ L(13) /\ L(14) /\ L(15) /\ L(16)
  BY DEF Laid, TypeOf, Pacs002Schema, Pacs002Columns, Built,
         str_col, ts_col, list_str_col
<1> HIDE DEF L
<1>5. \A c \in 1 .. 16 : L(c)
  BY <1>3, <1>4
<1> QED
  BY <1>1, <1>2, <1>5 DEF L, LaidOut

LEMMA Pacs002Shows ==
  ASSUME table = "pacs002"
  PROVE  \A c \in 1 .. 16 : Shows(Pacs002Row(message)[Pacs002Schema[c][1]], Pacs002Schema[c][3])
<1> SUFFICES ASSUME NEW fields, fields = Pacs002Row(message), NEW schema, schema = Pacs002Schema
             PROVE  \A c \in 1 .. 16 : Shows(fields[schema[c][1]], schema[c][3])
  OBVIOUS
<1> DEFINE Value(c) == fields[schema[c][1]]
           Places(c) == schema[c][3]
           S(c) == Shows(Value(c), Places(c))
           N(c) == None \notin Places(c)
           Is(c, p)  == Supplied(Value(c), Places(c), p)
           One(c, p) == ReadAt(Value(c), Places(c), p)
<1>0. \A c \in 1 .. 16 : N(c)
  <2>1. "pacs002" \in Tables /\ Schemas["pacs002"] = schema
    BY DEF Tables, Schemas
  <2>2. DOMAIN schema = 1 .. 16
    BY DEF Pacs002Schema
  <2> QED
    BY <2>1, <2>2, TableAssumption
<1>1. /\ One(1, "GrpHdr/MsgId") /\ One(2, "GrpHdr/CreDtTm") /\ One(3, "OrgnlMsgId")
      /\ One(4, "OrgnlMsgNmId") /\ One(5, "GrpSts") /\ One(6, "OrgnlInstrId")
      /\ One(7, "OrgnlEndToEndId") /\ One(8, "OrgnlTxId") /\ One(9, "OrgnlUETR")
      /\ One(10, "TxSts")
  BY DEF ReadAt, Pacs002Row, Pacs002Schema
<1>2. /\ S(1) /\ S(2) /\ S(3) /\ S(4) /\ S(5) /\ S(6) /\ S(7) /\ S(8) /\ S(9)
      /\ S(10)
  BY <1>0, <1>1, Lookups
<1>3. /\ One(11, "StsRsnInf/Rsn/Cd") /\ One(12, "StsRsnInf/Rsn/Prtry")
      /\ One(13, "StsRsnInf/AddtlInf") /\ One(14, "AccptncDtTm") /\ Is(15, "raw")
      /\ Is(16, "path")
  BY DEF Supplied, ReadAt, Pacs002Row, Pacs002Schema
<1>4. /\ S(11) /\ S(12) /\ S(13) /\ S(14) /\ S(15) /\ S(16)
  BY <1>0, <1>3, Lookups
<1> HIDE DEF S
<1>5. \A c \in 1 .. 16 : S(c)
  BY <1>2, <1>4
<1> QED
  BY <1>5 DEF S

LEMMA Pain001Laid == LaidOut(Pain001Schema, Pain001Columns, 24)
<1> DEFINE L(c) == Laid(Pain001Schema, Pain001Columns, c)
<1>1. Len(Pain001Schema) = 24 /\ DOMAIN Pain001Schema = 1 .. 24
  BY DEF Pain001Schema
<1>2. DOMAIN Pain001Columns = 1 .. 24
  BY DEF Pain001Columns, Built, str_col, date_col, dec_col, ts_col,
         list_str_col
<1>3. /\ L(1) /\ L(2) /\ L(3) /\ L(4) /\ L(5) /\ L(6) /\ L(7) /\ L(8) /\ L(9)
      /\ L(10)
  BY DEF Laid, TypeOf, Pain001Schema, Pain001Columns, Built,
         str_col, date_col, dec_col, ts_col, list_str_col
<1>4. /\ L(11) /\ L(12) /\ L(13) /\ L(14) /\ L(15) /\ L(16) /\ L(17) /\ L(18)
      /\ L(19) /\ L(20)
  BY DEF Laid, TypeOf, Pain001Schema, Pain001Columns, Built,
         str_col, date_col, dec_col, ts_col, list_str_col
<1>5. /\ L(21) /\ L(22) /\ L(23) /\ L(24)
  BY DEF Laid, TypeOf, Pain001Schema, Pain001Columns, Built,
         str_col, date_col, dec_col, ts_col, list_str_col
<1> HIDE DEF L
<1>6. \A c \in 1 .. 24 : L(c)
  BY <1>3, <1>4, <1>5
<1> QED
  BY <1>1, <1>2, <1>6 DEF L, LaidOut

LEMMA Pain001Shows ==
  ASSUME table = "pain001"
  PROVE  \A c \in 1 .. 24 : Shows(Pain001Row(message)[Pain001Schema[c][1]], Pain001Schema[c][3])
<1> SUFFICES ASSUME NEW fields, fields = Pain001Row(message), NEW schema, schema = Pain001Schema
             PROVE  \A c \in 1 .. 24 : Shows(fields[schema[c][1]], schema[c][3])
  OBVIOUS
<1> DEFINE Value(c) == fields[schema[c][1]]
           Places(c) == schema[c][3]
           S(c) == Shows(Value(c), Places(c))
           N(c) == None \notin Places(c)
           Is(c, p)  == Supplied(Value(c), Places(c), p)
           One(c, p) == ReadAt(Value(c), Places(c), p)
           Either(c, p, q) == FirstOf(Value(c), Places(c), p, q)
<1>0. \A c \in 1 .. 24 : N(c)
  <2>1. "pain001" \in Tables /\ Schemas["pain001"] = schema
    BY DEF Tables, Schemas
  <2>2. DOMAIN schema = 1 .. 24
    BY DEF Pain001Schema
  <2> QED
    BY <2>1, <2>2, TableAssumption
<1>1. /\ One(1, "GrpHdr/MsgId") /\ One(2, "GrpHdr/CreDtTm")
      /\ One(3, "GrpHdr/CtrlSum") /\ One(4, "GrpHdr/InitgPty/Nm")
      /\ One(5, "PmtInfId") /\ One(6, "PmtMtd")
      /\ Either(7, "ReqdExctnDt/Dt", "ReqdExctnDt") /\ One(8, "Dbtr/Nm")
      /\ One(9, "DbtrAcct/Id/IBAN") /\ One(10, "DbtrAgt/FinInstnId/BICFI")
  BY DEF ReadAt, FirstOf, Pain001Row, Pain001Schema
<1>2. /\ S(1) /\ S(2) /\ S(3) /\ S(4) /\ S(5) /\ S(6) /\ S(7) /\ S(8) /\ S(9)
      /\ S(10)
  BY <1>0, <1>1, Lookups
<1>3. /\ One(11, "ChrgBr") /\ One(12, "PmtId/EndToEndId")
      /\ One(13, "PmtId/InstrId") /\ One(14, "PmtId/UETR")
      /\ One(15, "Amt/InstdAmt") /\ One(16, "Amt/InstdAmt/@Ccy")
      /\ One(17, "Cdtr/Nm") /\ One(18, "CdtrAcct/Id/IBAN")
      /\ One(19, "CdtrAgt/FinInstnId/BICFI") /\ One(20, "Purp/Cd")
  BY DEF ReadAt, Pain001Row, Pain001Schema
<1>4. /\ S(11) /\ S(12) /\ S(13) /\ S(14) /\ S(15) /\ S(16) /\ S(17) /\ S(18)
      /\ S(19) /\ S(20)
  BY <1>0, <1>3, Lookups
<1>5. /\ One(21, "RmtInf/Ustrd") /\ One(22, "RmtInf/Strd/CdtrRefInf/Ref")
      /\ Is(23, "raw") /\ Is(24, "path")
  BY DEF Supplied, ReadAt, Pain001Row, Pain001Schema
<1>6. /\ S(21) /\ S(22) /\ S(23) /\ S(24)
  BY <1>0, <1>5, Lookups
<1> HIDE DEF S
<1>7. \A c \in 1 .. 24 : S(c)
  BY <1>2, <1>4, <1>6
<1> QED
  BY <1>7 DEF S

LEMMA CamtLaid == LaidOut(CamtSchema, CamtColumns, 19)
<1> DEFINE L(c) == Laid(CamtSchema, CamtColumns, c)
<1>1. Len(CamtSchema) = 19 /\ DOMAIN CamtSchema = 1 .. 19
  BY DEF CamtSchema
<1>2. DOMAIN CamtColumns = 1 .. 19
  BY DEF CamtColumns, Built, str_col, dec_col, ts_col, int_col
<1>3. /\ L(1) /\ L(2) /\ L(3) /\ L(4) /\ L(5) /\ L(6) /\ L(7) /\ L(8) /\ L(9)
      /\ L(10)
  BY DEF Laid, TypeOf, CamtSchema, CamtColumns, Built,
         str_col, dec_col, ts_col, int_col
<1>4. /\ L(11) /\ L(12) /\ L(13) /\ L(14) /\ L(15) /\ L(16) /\ L(17) /\ L(18)
      /\ L(19)
  BY DEF Laid, TypeOf, CamtSchema, CamtColumns, Built,
         str_col, dec_col, ts_col, int_col
<1> HIDE DEF L
<1>5. \A c \in 1 .. 19 : L(c)
  BY <1>3, <1>4
<1> QED
  BY <1>1, <1>2, <1>5 DEF L, LaidOut

LEMMA CamtShows ==
  ASSUME table = "camt"
  PROVE  \A c \in 1 .. 19 : Shows(CamtRow(message)[CamtSchema[c][1]], CamtSchema[c][3])
<1> SUFFICES ASSUME NEW fields, fields = CamtRow(message), NEW schema, schema = CamtSchema
             PROVE  \A c \in 1 .. 19 : Shows(fields[schema[c][1]], schema[c][3])
  OBVIOUS
<1> DEFINE Value(c) == fields[schema[c][1]]
           Places(c) == schema[c][3]
           S(c) == Shows(Value(c), Places(c))
           N(c) == None \notin Places(c)
           Is(c, p)  == Supplied(Value(c), Places(c), p)
           One(c, p) == ReadAt(Value(c), Places(c), p)
           Either(c, p, q) == FirstOf(Value(c), Places(c), p, q)
<1>0. \A c \in 1 .. 19 : N(c)
  <2>1. "camt" \in Tables /\ Schemas["camt"] = schema
    BY DEF Tables, Schemas
  <2>2. DOMAIN schema = 1 .. 19
    BY DEF CamtSchema
  <2> QED
    BY <2>1, <2>2, TableAssumption
<1>1. /\ One(1, "GrpHdr/MsgId") /\ One(2, "GrpHdr/CreDtTm") /\ One(3, "Id")
      /\ Either(4, "ElctrncSeqNb", "LglSeqNb") /\ One(5, "Acct/Id/IBAN")
      /\ One(6, "Acct/Id/Othr/Id") /\ One(7, "Acct/Ccy") /\ One(8, "Acct/Ownr/Nm")
      /\ One(9, "FrToDt/FrDtTm") /\ One(10, "FrToDt/ToDtTm")
  BY DEF ReadAt, FirstOf, SequenceNumber, CamtRow, CamtSchema
<1>2. /\ S(1) /\ S(2) /\ S(3) /\ S(4) /\ S(5) /\ S(6) /\ S(7) /\ S(8) /\ S(9)
      /\ S(10)
  BY <1>0, <1>1, Lookups
<1>3. /\ One(11, "OPBD") /\ One(12, "CLBD") /\ One(13, "CLAV")
      /\ Either(14, "OPBD/@Ccy", "CLBD/@Ccy") /\ Is(15, "Ntry_count")
      /\ One(16, "TxsSummry/TtlCdtNtries/Sum")
      /\ One(17, "TxsSummry/TtlDbtNtries/Sum") /\ Is(18, "raw") /\ Is(19, "path")
  BY DEF Supplied, ReadAt, FirstOf, CamtRow, CamtSchema
<1>4. /\ S(11) /\ S(12) /\ S(13) /\ S(14) /\ S(15) /\ S(16) /\ S(17) /\ S(18)
      /\ S(19)
  BY <1>0, <1>3, Lookups
<1> HIDE DEF S
<1>5. \A c \in 1 .. 19 : S(c)
  BY <1>2, <1>4
<1> QED
  BY <1>5 DEF S

LEMMA LinesLaid == LaidOut(LinesSchema, LinesColumns, 12)
<1> DEFINE L(c) == Laid(LinesSchema, LinesColumns, c)
<1>1. Len(LinesSchema) = 12 /\ DOMAIN LinesSchema = 1 .. 12
  BY DEF LinesSchema
<1>2. DOMAIN LinesColumns = 1 .. 12
  BY DEF LinesColumns, Built, str_col, date_col, dec_col, int_col,
         map_str_col
<1>3. /\ L(1) /\ L(2) /\ L(3) /\ L(4) /\ L(5) /\ L(6) /\ L(7) /\ L(8) /\ L(9)
      /\ L(10) /\ L(11) /\ L(12)
  BY DEF Laid, TypeOf, LinesSchema, LinesColumns, Built,
         str_col, date_col, dec_col, int_col, map_str_col
<1> HIDE DEF L
<1>4. \A c \in 1 .. 12 : L(c)
  BY <1>3
<1> QED
  BY <1>1, <1>2, <1>4 DEF L, LaidOut

LEMMA LinesShows ==
  ASSUME table = "lines"
  PROVE  \A c \in 1 .. 12 : Shows(LinesRow(message)[LinesSchema[c][1]], LinesSchema[c][3])
<1> SUFFICES ASSUME NEW fields, fields = LinesRow(message), NEW schema, schema = LinesSchema
             PROVE  \A c \in 1 .. 12 : Shows(fields[schema[c][1]], schema[c][3])
  OBVIOUS
<1> DEFINE Value(c) == fields[schema[c][1]]
           Places(c) == schema[c][3]
           S(c) == Shows(Value(c), Places(c))
           N(c) == None \notin Places(c)
           Is(c, p)  == Supplied(Value(c), Places(c), p)
           One(c, p) == ReadAt(Value(c), Places(c), p)
<1>0. \A c \in 1 .. 12 : N(c)
  <2>1. "lines" \in Tables /\ Schemas["lines"] = schema
    BY DEF Tables, Schemas
  <2>2. DOMAIN schema = 1 .. 12
    BY DEF LinesSchema
  <2> QED
    BY <2>1, <2>2, TableAssumption
<1>1. /\ Is(1, "ordinal") /\ One(2, "61/1") /\ One(3, "61/2") /\ One(4, "61/3/mark")
      /\ One(5, "61/3/funds") /\ One(6, "61/4") /\ One(7, "61/5") /\ One(8, "61/6")
      /\ One(9, "61/6//") /\ One(10, "61/7") /\ One(11, "86")
      /\ One(12, "86/subfields")
  BY DEF Supplied, ReadAt, LinesRow, LinesSchema
<1>2. /\ S(1) /\ S(2) /\ S(3) /\ S(4) /\ S(5) /\ S(6) /\ S(7) /\ S(8) /\ S(9)
      /\ S(10) /\ S(11) /\ S(12)
  BY <1>0, <1>1, Lookups
<1> HIDE DEF S
<1>3. \A c \in 1 .. 12 : S(c)
  BY <1>2
<1> QED
  BY <1>3 DEF S

LEMMA EntriesLaid == LaidOut(EntriesSchema, EntriesColumns, 25)
<1> DEFINE L(c) == Laid(EntriesSchema, EntriesColumns, c)
<1>1. Len(EntriesSchema) = 25 /\ DOMAIN EntriesSchema = 1 .. 25
  BY DEF EntriesSchema
<1>2. DOMAIN EntriesColumns = 1 .. 25
  BY DEF EntriesColumns, Built, str_col, date_col, dec_col, int_col,
         bool_col, list_str_col
<1>3. /\ L(1) /\ L(2) /\ L(3) /\ L(4) /\ L(5) /\ L(6) /\ L(7) /\ L(8) /\ L(9)
      /\ L(10)
  BY DEF Laid, TypeOf, EntriesSchema, EntriesColumns, Built,
         str_col, date_col, dec_col, int_col, bool_col, list_str_col
<1>4. /\ L(11) /\ L(12) /\ L(13) /\ L(14) /\ L(15) /\ L(16) /\ L(17) /\ L(18)
      /\ L(19) /\ L(20)
  BY DEF Laid, TypeOf, EntriesSchema, EntriesColumns, Built,
         str_col, date_col, dec_col, int_col, bool_col, list_str_col
<1>5. /\ L(21) /\ L(22) /\ L(23) /\ L(24) /\ L(25)
  BY DEF Laid, TypeOf, EntriesSchema, EntriesColumns, Built,
         str_col, date_col, dec_col, int_col, bool_col, list_str_col
<1> HIDE DEF L
<1>6. \A c \in 1 .. 25 : L(c)
  BY <1>3, <1>4, <1>5
<1> QED
  BY <1>1, <1>2, <1>6 DEF L, LaidOut

LEMMA EntriesShows ==
  ASSUME table = "entries"
  PROVE  \A c \in 1 .. 25 : Shows(EntriesRow(message)[EntriesSchema[c][1]], EntriesSchema[c][3])
<1> SUFFICES ASSUME NEW fields, fields = EntriesRow(message), NEW schema, schema = EntriesSchema
             PROVE  \A c \in 1 .. 25 : Shows(fields[schema[c][1]], schema[c][3])
  OBVIOUS
<1> DEFINE Value(c) == fields[schema[c][1]]
           Places(c) == schema[c][3]
           S(c) == Shows(Value(c), Places(c))
           N(c) == None \notin Places(c)
           Is(c, p)  == Supplied(Value(c), Places(c), p)
           One(c, p) == ReadAt(Value(c), Places(c), p)
           Either(c, p, q) == FirstOf(Value(c), Places(c), p, q)
           side == IF "CdtDbtInd=CRDT" \in message THEN "Dbtr" ELSE "Cdtr"
           other == IF "CdtDbtInd=CRDT" \in message THEN "Cdtr" ELSE "Dbtr"
           OfSide(c, p, q) == Aside(Value(c), Places(c), p, q)
<1>0. \A c \in 1 .. 25 : N(c)
  <2>1. "entries" \in Tables /\ Schemas["entries"] = schema
    BY DEF Tables, Schemas
  <2>2. DOMAIN schema = 1 .. 25
    BY DEF EntriesSchema
  <2> QED
    BY <2>1, <2>2, TableAssumption
<1>1. /\ Is(1, "ordinal") /\ Is(2, "ordinal") /\ One(3, "Amt") /\ One(4, "Amt/@Ccy")
      /\ One(5, "CdtDbtInd") /\ One(6, "RvslInd") /\ Either(7, "Sts/Cd", "Sts")
      /\ Either(8, "BookgDt/Dt", "BookgDt/DtTm")
      /\ Either(9, "ValDt/Dt", "ValDt/DtTm") /\ One(10, "AcctSvcrRef")
  BY DEF Supplied, ReadAt, FirstOf, EntriesRow, EntriesSchema
<1>2. /\ S(1) /\ S(2) /\ S(3) /\ S(4) /\ S(5) /\ S(6) /\ S(7) /\ S(8) /\ S(9)
      /\ S(10)
  BY <1>0, <1>1, Lookups
<1>3. /\ One(11, "BkTxCd/Domn/Cd") /\ One(12, "BkTxCd/Domn/Fmly/Cd")
      /\ One(13, "BkTxCd/Domn/Fmly/SubFmlyCd") /\ One(14, "BkTxCd/Prtry/Cd")
      /\ One(15, "Refs/EndToEndId") /\ One(16, "Refs/TxId") /\ One(17, "Refs/UETR")
      /\ One(18, "Refs/InstrId") /\ One(19, "Refs/MndtId")
      /\ OfSide(20, PartyOf(side), PartyOf(other))
  BY DEF ReadAt, Aside, Side, EntriesRow, EntriesSchema
<1>4. /\ S(11) /\ S(12) /\ S(13) /\ S(14) /\ S(15) /\ S(16) /\ S(17) /\ S(18)
      /\ S(19) /\ S(20)
  BY <1>0, <1>3, Lookups, CounterpartyShows
<1>5. /\ OfSide(21, IbanAt(side), IbanAt(other))
      /\ OfSide(22, AgentOf(side), AgentOf(other)) /\ One(23, "RmtInf/Ustrd")
      /\ One(24, "RmtInf/Strd/CdtrRefInf/Ref") /\ One(25, "AddtlNtryInf")
  BY DEF ReadAt, Aside, Side, EntriesRow, EntriesSchema
<1>6. /\ S(21) /\ S(22) /\ S(23) /\ S(24) /\ S(25)
  BY <1>0, <1>5, Lookups, CounterpartyShows
<1> HIDE DEF S
<1>7. \A c \in 1 .. 25 : S(c)
  BY <1>2, <1>4, <1>6
<1> QED
  BY <1>7 DEF S

(***************************************************************************)
(* The layouts of all tables, and what the row of any message shows.       *)
(***************************************************************************)
LEMMA TenTables ==
  Tables = {"mt103", "mt202", "mt940", "mt942", "pacs008", "pacs002", "pain001", "camt",
            "lines", "entries"}
BY DEF Tables, Schemas

LEMMA TablesLaid ==
  \A t \in Tables : LaidOut(Schemas[t], Builders[t], Len(Schemas[t]))
<1> SUFFICES ASSUME NEW t \in Tables
             PROVE  LaidOut(Schemas[t], Builders[t], Len(Schemas[t]))
  OBVIOUS
<1>1. CASE t = "mt103"
  <2>1. Schemas[t] = Mt103Schema /\ Builders[t] = Mt103Columns
    BY <1>1 DEF Schemas, Builders
  <2> QED
    BY <2>1, Mt103Laid DEF LaidOut
<1>2. CASE t = "mt202"
  <2>1. Schemas[t] = Mt202Schema /\ Builders[t] = Mt202Columns
    BY <1>2 DEF Schemas, Builders
  <2> QED
    BY <2>1, Mt202Laid DEF LaidOut
<1>3. CASE t = "mt940"
  <2>1. Schemas[t] = Mt940Schema /\ Builders[t] = Mt940Columns
    BY <1>3 DEF Schemas, Builders
  <2> QED
    BY <2>1, Mt940Laid DEF LaidOut
<1>4. CASE t = "mt942"
  <2>1. Schemas[t] = Mt942Schema /\ Builders[t] = Mt942Columns
    BY <1>4 DEF Schemas, Builders
  <2> QED
    BY <2>1, Mt942Laid DEF LaidOut
<1>5. CASE t = "pacs008"
  <2>1. Schemas[t] = Pacs008Schema /\ Builders[t] = Pacs008Columns
    BY <1>5 DEF Schemas, Builders
  <2> QED
    BY <2>1, Pacs008Laid DEF LaidOut
<1>6. CASE t = "pacs002"
  <2>1. Schemas[t] = Pacs002Schema /\ Builders[t] = Pacs002Columns
    BY <1>6 DEF Schemas, Builders
  <2> QED
    BY <2>1, Pacs002Laid DEF LaidOut
<1>7. CASE t = "pain001"
  <2>1. Schemas[t] = Pain001Schema /\ Builders[t] = Pain001Columns
    BY <1>7 DEF Schemas, Builders
  <2> QED
    BY <2>1, Pain001Laid DEF LaidOut
<1>8. CASE t = "camt"
  <2>1. Schemas[t] = CamtSchema /\ Builders[t] = CamtColumns
    BY <1>8 DEF Schemas, Builders
  <2> QED
    BY <2>1, CamtLaid DEF LaidOut
<1>9. CASE t = "lines"
  <2>1. Schemas[t] = LinesSchema /\ Builders[t] = LinesColumns
    BY <1>9 DEF Schemas, Builders
  <2> QED
    BY <2>1, LinesLaid DEF LaidOut
<1>10. CASE t = "entries"
  <2>1. Schemas[t] = EntriesSchema /\ Builders[t] = EntriesColumns
    BY <1>10 DEF Schemas, Builders
  <2> QED
    BY <2>1, EntriesLaid DEF LaidOut
<1> QED
  BY TenTables, <1>1, <1>2, <1>3, <1>4, <1>5, <1>6, <1>7, <1>8, <1>9, <1>10

LEMMA RowsShow ==
  ASSUME table \in Tables
  PROVE  \A c \in 1 .. Len(Schemas[table]) :
           Shows(RowOf(table, message)[Schemas[table][c][1]], Schemas[table][c][3])
<1> DEFINE Goal == \A c \in 1 .. Len(Schemas[table]) :
                      Shows(RowOf(table, message)[Schemas[table][c][1]], Schemas[table][c][3])
<1> SUFFICES Goal
  OBVIOUS
<1>1. CASE table = "mt103"
  BY <1>1, Mt103Laid, Mt103Shows DEF Schemas, RowOf, LaidOut
<1>2. CASE table = "mt202"
  BY <1>2, Mt202Laid, Mt202Shows DEF Schemas, RowOf, LaidOut
<1>3. CASE table = "mt940"
  BY <1>3, Mt940Laid, Mt940Shows DEF Schemas, RowOf, LaidOut
<1>4. CASE table = "mt942"
  BY <1>4, Mt942Laid, Mt942Shows DEF Schemas, RowOf, LaidOut
<1>5. CASE table = "pacs008"
  BY <1>5, Pacs008Laid, Pacs008Shows DEF Schemas, RowOf, LaidOut
<1>6. CASE table = "pacs002"
  BY <1>6, Pacs002Laid, Pacs002Shows DEF Schemas, RowOf, LaidOut
<1>7. CASE table = "pain001"
  BY <1>7, Pain001Laid, Pain001Shows DEF Schemas, RowOf, LaidOut
<1>8. CASE table = "camt"
  BY <1>8, CamtLaid, CamtShows DEF Schemas, RowOf, LaidOut
<1>9. CASE table = "lines"
  BY <1>9, LinesLaid, LinesShows DEF Schemas, RowOf, LaidOut
<1>10. CASE table = "entries"
  BY <1>10, EntriesLaid, EntriesShows DEF Schemas, RowOf, LaidOut
<1> HIDE DEF Goal
<1> QED
  BY TenTables, <1>1, <1>2, <1>3, <1>4, <1>5, <1>6, <1>7, <1>8, <1>9, <1>10

(***************************************************************************)
(* The inductive invariant of the reading of a file: after the parser the  *)
(* rows are those of the message, and after the builders the columns hold  *)
(* the fields of the rows; there is no other way to the end than past      *)
(* columns which fit the schema.                                           *)
(***************************************************************************)
ColumnsOf(t, m) ==
  [c \in DOMAIN Builders[t] |->
     [type  |-> TypeOf[Builders[t][c].builder],
      cells |-> [r \in DOMAIN RowsOf(t, m) |-> RowsOf(t, m)[r][Builders[t][c].field]]]]

TableInv ==
  /\ table \in Tables
  /\ doing \in {"parse", "build", "finish", "done"}
  /\ doing # "parse" => rows = RowsOf(table, message)
  /\ doing \in {"finish", "done"} => columns = ColumnsOf(table, message)

LEMMA ColumnsFit ==
  ASSUME table \in Tables, columns = ColumnsOf(table, message)
  PROVE  /\ Len(columns) = Len(Schemas[table])
         /\ \A c \in DOMAIN columns : columns[c].type = Schemas[table][c][2]
<1> DEFINE n == Len(Schemas[table])
<1>1. DOMAIN columns = 1 .. n /\ n \in Nat
  BY TablesLaid DEF LaidOut, ColumnsOf
<1>2. Len(columns) = n
  BY <1>1
<1>3. \A c \in 1 .. n : columns[c].type = TypeOf[Builders[table][c].builder]
  BY TablesLaid DEF LaidOut, ColumnsOf
<1> QED
  BY <1>1, <1>2, <1>3, TablesLaid DEF LaidOut, Laid

LEMMA TableInvInit == TableInit => TableInv
BY DEF TableInit, TableInv

LEMMA TableInvStep == TableInv /\ [TableNext]_tableVars => TableInv'
<1> SUFFICES ASSUME TableInv, [TableNext]_tableVars
             PROVE  TableInv'
  OBVIOUS
<1>1. CASE ParseMessage
  BY <1>1 DEF TableInv, ParseMessage
<1>2. CASE BuildColumns
  BY <1>2 DEF TableInv, BuildColumns, ColumnsOf
<1>3. CASE Finish
  <2>1. doing' = "done"
    BY <1>3, ColumnsFit DEF TableInv, Finish
  <2> QED
    BY <1>3, <2>1 DEF TableInv, Finish
<1>4. CASE ReadAgain
  BY <1>4 DEF TableInv, ReadAgain
<1>5. CASE UNCHANGED tableVars
  BY <1>5 DEF TableInv, tableVars
<1> QED
  BY <1>1, <1>2, <1>3, <1>4, <1>5 DEF TableNext

LEMMA TableInvAlways == TableSpec => []TableInv
BY TableInvInit, TableInvStep, PTL DEF TableSpec

(***************************************************************************)
(* No table and no exploder panics for a mismatch of its columns and its   *)
(* schema, for any message (finish, scan.rs 115).                          *)
(***************************************************************************)
THEOREM ColumnsFitSchemas == TableSpec => []LayoutsMatch
<1>1. TableInv => LayoutsMatch
  BY DEF TableInv, LayoutsMatch
<1> QED
  BY <1>1, TableInvAlways, PTL

\* The cell under a column is the field of that name in the row.
LEMMA CellsAreFields ==
  ASSUME TableInv, Shown
  PROVE  /\ DOMAIN columns = 1 .. Len(Schemas[table])
         /\ \A c \in 1 .. Len(Schemas[table]) :
              Cell(c) = RowOf(table, message)[Schemas[table][c][1]]
<1> DEFINE n == Len(Schemas[table])
<1>1. /\ columns = ColumnsOf(table, message)
      /\ RowsOf(table, message) = <<RowOf(table, message)>>
  BY DEF TableInv, Shown, RowsOf
<1>2. table \in Tables
  BY DEF TableInv
<1>3. DOMAIN columns = 1 .. n
  BY <1>1, <1>2, TablesLaid DEF LaidOut, ColumnsOf
<1>4. ASSUME NEW c \in 1 .. n
      PROVE  Cell(c) = RowOf(table, message)[Schemas[table][c][1]]
  <2>1. Builders[table][c].field = Schemas[table][c][1] /\ c \in DOMAIN Builders[table]
    BY <1>2, <1>4, TablesLaid DEF LaidOut, Laid
  <2>2. columns[c].cells = [r \in {1} |-> RowOf(table, message)[Builders[table][c].field]]
    BY <1>1, <2>1 DEF ColumnsOf
  <2> QED
    BY <2>1, <2>2 DEF Cell
<1> QED
  BY <1>3, <1>4

(***************************************************************************)
(* Every column of every table shows what its comment says and nothing     *)
(* else, and is not NULL if the message has one of the places it names.    *)
(***************************************************************************)
THEOREM CellsUnderTheirColumns == TableSpec => []ColumnsShowTheirPlaces
<1>1. TableInv => ColumnsShowTheirPlaces
  <2> SUFFICES ASSUME TableInv, Shown, NEW c \in DOMAIN columns
               PROVE  /\ Cell(c) \in Schemas[table][c][3] \cup {None}
                      /\ \A p \in Schemas[table][c][3] \cap message :
                           GivesWay(p) \/ Cell(c) # None
    BY DEF ColumnsShowTheirPlaces
  <2>1. table \in Tables /\ c \in 1 .. Len(Schemas[table])
    BY CellsAreFields DEF TableInv
  <2>2. Shows(Cell(c), Schemas[table][c][3])
    BY <2>1, RowsShow, CellsAreFields
  <2> QED
    BY <2>2 DEF Shows
<1> QED
  BY <1>1, TableInvAlways, PTL

\* A column is found by its name.
LEMMA CellsByName ==
  ASSUME TableInv, Shown, NEW c \in 1 .. Len(Schemas[table]), NEW name,
         Schemas[table][c][1] = name
  PROVE  Cell(CHOOSE d \in DOMAIN columns : Schemas[table][d][1] = name)
           = RowOf(table, message)[name]
<1>1. c \in DOMAIN columns
  BY CellsAreFields
<1> DEFINE d == CHOOSE e \in DOMAIN columns : Schemas[table][e][1] = name
<1>2. d \in DOMAIN columns /\ Schemas[table][d][1] = name
  BY <1>1, Zenon
<1> HIDE DEF d
<1>3. Cell(d) = RowOf(table, message)[name]
  BY <1>2, CellsAreFields
<1> QED
  BY <1>3, Zenon DEF d

\* What is read of a balance is in one field, the final one when it is there.
LEMMA BalanceWhole ==
  ASSUME NEW balance, NEW part \in {"/amount", "/dc", "/date"}
  PROVE  BalancePart(message, balance, part) # None =>
           /\ BalancePart(message, balance, part) \in message
           /\ BalancePart(message, balance, part)
                \in Balance(IF message \cap Balance(balance.final) # {}
                            THEN balance.final ELSE balance.intermediate)
<1> DEFINE tag == IF message \cap Balance(balance.final) # {}
                  THEN balance.final ELSE balance.intermediate
<1>1. BalancePart(message, balance, part) = At(message, tag \o part)
  BY DEF BalancePart
<1>2. tag \o part \in Balance(tag)
  BY DEF Balance
<1> HIDE DEF tag
<1>3. BalancePart(message, balance, part) # None =>
        /\ BalancePart(message, balance, part) \in message
        /\ BalancePart(message, balance, part) \in Balance(tag)
  BY <1>1, <1>2 DEF At
<1> QED
  BY <1>3 DEF tag

(***************************************************************************)
(* Amount, mark and date of a balance are of one field, the one that the   *)
(* row names; name, account and bank of a counterparty of one side; and a  *)
(* transfer that is not a cover has no customers, for every message.       *)
(***************************************************************************)
THEOREM CompanionsOfOneElement == TableSpec => []CompanionsTogether
<1> DEFINE fields == RowOf(table, message)
           CellOf(name) == Cell(CHOOSE c \in DOMAIN columns : Schemas[table][c][1] = name)
           CellsOf(names) == {CellOf(name) : name \in names} \ {None}
<1>1. ASSUME TableInv, Shown, table = "mt940"
      PROVE  /\ CellsOf({"opening_balance", "opening_balance_dc", "opening_balance_date"})
                  \subseteq Balance(IF CellOf("opening_is_intermediate") = "yes"
                                    THEN "60M" ELSE "60F")
             /\ \E tag \in {"62F", "62M"} :
                  CellsOf({"closing_balance", "closing_balance_dc", "closing_balance_date"})
                    \subseteq Balance(tag)
  <2>1. Schemas[table] = Mt940Schema /\ fields = Mt940Row(message) /\ Len(Mt940Schema) = 19
    BY <1>1, Mt940Laid DEF Schemas, RowOf, LaidOut
  <2>2. ASSUME NEW c \in 1 .. 19, NEW name, Mt940Schema[c][1] = name
        PROVE  CellOf(name) = fields[name]
    <3>1. c \in 1 .. Len(Schemas[table]) /\ Schemas[table][c][1] = name
      BY <2>1, <2>2
    <3> QED
      BY <1>1, <3>1, CellsByName
  <2>3. /\ Mt940Schema[7][1] = "opening_balance" /\ Mt940Schema[8][1] = "opening_balance_dc"
        /\ Mt940Schema[9][1] = "opening_balance_date"
        /\ Mt940Schema[10][1] = "opening_is_intermediate"
        /\ Mt940Schema[12][1] = "closing_balance" /\ Mt940Schema[13][1] = "closing_balance_dc"
        /\ Mt940Schema[14][1] = "closing_balance_date"
    BY DEF Mt940Schema
  <2> HIDE DEF CellOf, fields
  <2>4. /\ CellOf("opening_balance") = BalancePart(message, Opening, "/amount")
        /\ CellOf("opening_balance_dc") = BalancePart(message, Opening, "/dc")
        /\ CellOf("opening_balance_date") = BalancePart(message, Opening, "/date")
        /\ CellOf("opening_is_intermediate") =
             YesNo(message \cap Balance("60F") = {} /\ message \cap Balance("60M") # {})
    BY <2>1, <2>2, <2>3 DEF Mt940Row
  <2>5. /\ CellOf("closing_balance") = BalancePart(message, Closing, "/amount")
        /\ CellOf("closing_balance_dc") = BalancePart(message, Closing, "/dc")
        /\ CellOf("closing_balance_date") = BalancePart(message, Closing, "/date")
    BY <2>1, <2>2, <2>3 DEF Mt940Row
  <2>6. /\ Opening.final = "60F" /\ Opening.intermediate = "60M"
        /\ Closing.final = "62F" /\ Closing.intermediate = "62M"
    BY DEF Opening, Closing
  <2>7. CellsOf({"opening_balance", "opening_balance_dc", "opening_balance_date"})
          \subseteq Balance(IF CellOf("opening_is_intermediate") = "yes" THEN "60M" ELSE "60F")
    <3> DEFINE tag == IF message \cap Balance("60F") # {} THEN "60F" ELSE "60M"
    <3>1. \A part \in {"/amount", "/dc", "/date"} :
            BalancePart(message, Opening, part) # None =>
              /\ BalancePart(message, Opening, part) \in message
              /\ BalancePart(message, Opening, part) \in Balance(tag)
      BY <2>6, BalanceWhole
    <3>2. ASSUME NEW cell, cell \in message, cell \in Balance(tag)
          PROVE  tag = IF CellOf("opening_is_intermediate") = "yes" THEN "60M" ELSE "60F"
      BY <2>4, <3>2 DEF YesNo
    <3> HIDE DEF tag
    <3>3. ASSUME NEW cell \in CellsOf({"opening_balance", "opening_balance_dc",
                                       "opening_balance_date"})
          PROVE  cell \in message /\ cell \in Balance(tag)
      BY <2>4, <3>1
    <3> QED
      BY <3>2, <3>3
  <2>8. \E tag \in {"62F", "62M"} :
          CellsOf({"closing_balance", "closing_balance_dc", "closing_balance_date"})
            \subseteq Balance(tag)
    <3> DEFINE tag == IF message \cap Balance("62F") # {} THEN "62F" ELSE "62M"
    <3>1. \A part \in {"/amount", "/dc", "/date"} :
            BalancePart(message, Closing, part) # None =>
              BalancePart(message, Closing, part) \in Balance(tag)
      BY <2>6, BalanceWhole
    <3>2. tag \in {"62F", "62M"}
      OBVIOUS
    <3> HIDE DEF tag
    <3>3. CellsOf({"closing_balance", "closing_balance_dc", "closing_balance_date"})
            \subseteq Balance(tag)
      BY <2>5, <3>1
    <3> QED
      BY <3>2, <3>3
  <2> QED
    BY <2>7, <2>8
<1>2. ASSUME TableInv, Shown, table = "entries"
      PROVE  CellsOf({"counterparty_name", "counterparty_iban", "counterparty_agent_bic"})
               \subseteq Side(IF "CdtDbtInd=CRDT" \in message THEN "Dbtr" ELSE "Cdtr")
  <2> DEFINE side == IF "CdtDbtInd=CRDT" \in message THEN "Dbtr" ELSE "Cdtr"
  <2>1. /\ Schemas[table] = EntriesSchema /\ fields = EntriesRow(message)
        /\ Len(EntriesSchema) = 25
    BY <1>2, EntriesLaid DEF Schemas, RowOf, LaidOut
  <2>2. ASSUME NEW c \in 1 .. 25, NEW name, EntriesSchema[c][1] = name
        PROVE  CellOf(name) = fields[name]
    <3>1. c \in 1 .. Len(Schemas[table]) /\ Schemas[table][c][1] = name
      BY <2>1, <2>2
    <3> QED
      BY <1>2, <3>1, CellsByName
  <2>3. /\ EntriesSchema[20][1] = "counterparty_name"
        /\ EntriesSchema[21][1] = "counterparty_iban"
        /\ EntriesSchema[22][1] = "counterparty_agent_bic"
    BY DEF EntriesSchema
  <2> HIDE DEF CellOf, fields
  <2>4. /\ CellOf("counterparty_name") = At(message, PartyOf(side))
        /\ CellOf("counterparty_iban") = At(message, IbanAt(side))
        /\ CellOf("counterparty_agent_bic") = At(message, AgentOf(side))
    BY <2>1, <2>2, <2>3 DEF EntriesRow
  <2> HIDE DEF side
  <2>5. CellsOf({"counterparty_name", "counterparty_iban", "counterparty_agent_bic"})
          \subseteq Side(side)
    BY <2>4 DEF At, Side
  <2> QED
    BY <2>5 DEF side
<1>3. ASSUME TableInv, Shown, table = "mt202", CellOf("is_cover") = "no"
      PROVE  CellsOf({"cov_ordering_customer", "cov_beneficiary"}) = {}
  <2> DEFINE customers == Customer("50a") \cup Customer("59a") \cup {"50a", "59a"}
  <2>1. Schemas[table] = Mt202Schema /\ fields = Mt202Row(message) /\ Len(Mt202Schema) = 19
    BY <1>3, Mt202Laid DEF Schemas, RowOf, LaidOut
  <2>2. ASSUME NEW c \in 1 .. 19, NEW name, Mt202Schema[c][1] = name
        PROVE  CellOf(name) = fields[name]
    <3>1. c \in 1 .. Len(Schemas[table]) /\ Schemas[table][c][1] = name
      BY <2>1, <2>2
    <3> QED
      BY <1>3, <3>1, CellsByName
  <2>3. /\ Mt202Schema[13][1] = "is_cover" /\ Mt202Schema[14][1] = "cov_ordering_customer"
        /\ Mt202Schema[15][1] = "cov_beneficiary"
    BY DEF Mt202Schema
  <2>4. CellOf("is_cover") = "no"
    BY <1>3
  <2> HIDE DEF CellOf, fields
  <2>5. /\ fields.is_cover = YesNo(message \cap customers # {})
        /\ fields.cov_ordering_customer =
             OrElse(At(message, "50a" \o "/name"),
               OrElse(At(message, "50a" \o "/account"), At(message, "50a" \o "/bic")))
        /\ fields.cov_beneficiary =
             OrElse(At(message, "59a" \o "/name"),
               OrElse(At(message, "59a" \o "/account"), At(message, "59a" \o "/bic")))
    BY <2>1 DEF Mt202Row
  <2>6. message \cap customers = {}
    BY <2>2, <2>3, <2>4, <2>5 DEF YesNo
  <2>7. fields.cov_ordering_customer = None /\ fields.cov_beneficiary = None
    BY <2>5, <2>6 DEF OrElse, At, Customer
  <2> QED
    BY <2>2, <2>3, <2>7
<1>4. TableInv => CompanionsTogether
  BY <1>1, <1>2, <1>3 DEF CompanionsTogether
<1> QED
  BY <1>4, TableInvAlways, PTL
=============================================================================
