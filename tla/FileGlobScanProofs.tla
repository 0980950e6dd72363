------------------------- MODULE FileGlobScanProofs -------------------------
(***************************************************************************)
(* Theorems about FileGlobScan, for every set of files, every argument and *)
(* every number of file changes and losses.                                *)
(***************************************************************************)
EXTENDS FileGlobScan, FiniteSetTheorems, TLAPS

\* Entries are numbers, so that they can be compared.
LEMMA EntriesAreNat == \A e \in Entries : e \in Nat
BY ScanAssumption

\* So are the batches delivered.
LEMMA DeliveredAreNat ==
  ASSUME TypeOK PROVE \A i \in DOMAIN delivered : delivered[i] \in Nat
<1> SUFFICES ASSUME NEW i \in DOMAIN delivered PROVE delivered[i] \in Nat
  OBVIOUS
<1>1. delivered[i] \in Entries
  BY DEF TypeOK
<1> QED
  BY <1>1, EntriesAreNat

\* What `expand` returns is a list of entries.
LEMMA SortedIsList ==
  ASSUME NEW S \in SUBSET Entries, NEW s \in Sorted(S)
  PROVE  s \in Seq(Entries)
<1>1. IsFiniteSet(S)
  BY ScanAssumption, FS_Subset
<1>2. Cardinality(S) \in Nat
  BY <1>1, FS_CardinalityType
<1>3. s \in [1 .. Cardinality(S) -> S]
  BY DEF Sorted
<1> QED
  BY <1>2, <1>3

\* `expand` itself: for every state of the files its result is such a list.
LEMMA ExpandIsList ==
  ASSUME TypeOK, NEW paths \in Expand
  PROVE  paths \in Seq(Entries)
<1>1. arg.match \in SUBSET Entries
  BY DEF TypeOK, Args
<1>2. {f \in arg.match : fs[f] # "missing"} \in SUBSET Entries
  BY <1>1
<1> QED
  BY <1>1, <1>2, SortedIsList DEF Expand

\* Type correctness: TypeOK is inductive, and bounds the cursor, the token and
\* what the engine holds for every argument and every set of files.
THEOREM TypeCorrect == Spec => []TypeOK
<1>1. Init => TypeOK
  <2> SUFFICES ASSUME Init PROVE TypeOK
    OBVIOUS
  <2>1. 0 \in 0 .. MaxFsChanges /\ 0 \in 0 .. MaxLost
    BY ScanAssumption
  <2>2. delivered \in Seq(Entries)
    BY DEF Init
  <2> QED
    BY <2>1, <2>2 DEF Init, TypeOK
<1>2. TypeOK /\ [Next]_vars => TypeOK'
  <2> SUFFICES ASSUME TypeOK, [Next]_vars PROVE TypeOK'
    OBVIOUS
  <2> USE ScanAssumption
  <2>1. CASE OpenScan
    BY <2>1, ExpandIsList DEF OpenScan, NewCursor, Cursor, TypeOK, host, engine
  <2>2. CASE Resume
    BY <2>2, ExpandIsList
    DEF Resume, Restore, NewCursor, Cursor, TypeOK, host, engine
  <2>3. CASE CallNextBatch
    BY <2>3 DEF CallNextBatch, TypeOK, host, engine
  <2>4. CASE NextBatchTurn
    <3>1. producer \in Cursor
      BY <2>4 DEF NextBatchTurn, TypeOK
    <3>2. Current(producer) \in Entries
      BY <2>4, <3>1 DEF NextBatchTurn, IsDone, Current, Cursor
    <3>3. NextFile(producer) \in Cursor
      BY <3>1 DEF NextFile, Cursor
    <3>4. /\ producer' \in Cursor /\ reply' \in Entries \cup {None}
          /\ phase' \in {"looping", "replied"}
      BY <2>4, <3>2, <3>3 DEF NextBatchTurn, TypeOK
    <3>5. UNCHANGED <<host, engine, lost>>
      BY <2>4 DEF NextBatchTurn
    <3>6. producer' # None
      BY <3>4 DEF Cursor
    <3> QED
      BY <3>4, <3>5, <3>6 DEF TypeOK, host, engine
  <2>5. CASE NextBatchEnd
    BY <2>5 DEF NextBatchEnd, TypeOK, host, engine
  <2>6. CASE Receive
    <3>1. reply # None => reply \in Entries /\ producer \in Cursor
      BY <2>6 DEF Receive, TypeOK
    <3>2. token' \in Cursor \cup {None} /\ delivered' \in Seq(Entries)
      BY <2>6, <3>1 DEF Receive, TypeOK
    <3>3. done' \in BOOLEAN
      BY <2>6, Zenon DEF Receive, TypeOK
    <3> QED
      BY <2>6, <3>2, <3>3 DEF Receive, TypeOK, host
  <2>7. CASE LoseWorker
    BY <2>7 DEF LoseWorker, TypeOK, host, engine
  <2>8. ASSUME NEW f \in Files, ChangeFile(f) PROVE TypeOK'
    BY <2>8 DEF ChangeFile, TypeOK, engine
  <2>9. CASE UNCHANGED vars
    BY <2>9 DEF vars, host, engine, TypeOK
  <2> QED
    BY <2>1, <2>2, <2>3, <2>4, <2>5, <2>6, <2>7, <2>8, <2>9
    DEF Next, Worker, Engine
<1> QED
  BY <1>1, <1>2, PTL DEF Spec
-----------------------------------------------------------------------------
(***************************************************************************)
(* The order of the batches.  A cursor that is in use walks an ascending   *)
(* list of entries of the argument's match; the producer is on the token's *)
(* list, at or after its position; the last batch received is the token's  *)
(* entry, and the one in transit lies beyond it.                           *)
(***************************************************************************)
OnList(c) == /\ Ascending(c.paths)
             /\ c.idx <= Len(c.paths)
             /\ \A i \in DOMAIN c.paths : c.paths[i] \in arg.match

At(c) == c.paths[c.idx]

OrderInv ==
  /\ Ascending(delivered)
  /\ token = None => delivered = <<>>
  /\ token # None =>
       /\ OnList(token) /\ token.idx > 0
       /\ \A i \in DOMAIN delivered : delivered[i] <= At(token)
  /\ producer # None =>
       /\ OnList(producer)
       /\ token # None => /\ producer.paths = token.paths
                         /\ producer.idx >= token.idx
  /\ reply # None =>
       /\ phase = "replied"
       /\ producer.idx > 0 /\ reply = At(producer)
       /\ token # None => producer.idx > token.idx
  /\ done => phase = "idle"

(***************************************************************************)
(* What is due.  It is on the list of every cursor in use, and a cursor    *)
(* never passes it before it is received or in transit.                    *)
(***************************************************************************)
Covers(c, e, got) ==
  \E k \in DOMAIN c.paths : c.paths[k] = e /\ (k <= c.idx => got)

CoverInv ==
  /\ token # None => \A e \in Contract!Due : Covers(token, e, Received(e))
  /\ producer # None =>
       \A e \in Contract!Due : Covers(producer, e, Received(e) \/ reply = e)
  /\ phase = "replied" /\ reply = None => IsDone(producer)
  /\ phase # "replied" => reply = None
  /\ NoFileDropped
-----------------------------------------------------------------------------
\* What `expand` returns is ascending and holds what the argument stands for.
LEMMA ExpandOnList ==
  ASSUME TypeOK, NEW paths \in Expand
  PROVE  OnList(NewCursor(paths))
<1>1. paths \in Seq(Entries)
  BY ExpandIsList
<1>2. Ascending(paths) /\ \A i \in DOMAIN paths : paths[i] \in arg.match
  BY DEF Expand, Sorted
<1> QED
  BY <1>1, <1>2 DEF OnList, NewCursor

\* OrderInv is inductive when tokens come back as they were given out.
LEMMA OrderStep ==
  ASSUME TokensIntact, TypeOK, OrderInv, [Next]_vars
  PROVE  OrderInv'
<1> USE ScanAssumption
<1>1. CASE OpenScan
  BY <1>1, ExpandOnList
  DEF OpenScan, OrderInv, OnList, NewCursor, Cursor, At, TypeOK, host, engine
<1>2. CASE Resume
  <2>1. producer' = token /\ token # None
    BY <1>2 DEF Resume, Restore
  <2>2. token \in Cursor
    BY <2>1 DEF TypeOK
  <2> QED
    BY <1>2, <2>1, <2>2
    DEF Resume, OrderInv, OnList, Cursor, At, TypeOK, host, engine
<1>3. CASE CallNextBatch
  BY <1>3 DEF CallNextBatch, OrderInv, OnList, At, TypeOK, host, engine
<1>4. CASE NextBatchTurn
  <2>1. producer \in Cursor /\ OnList(producer)
    BY <1>4 DEF NextBatchTurn, OrderInv, TypeOK
  <2>2. /\ producer' = [producer EXCEPT !.idx = @ + 1]
        /\ producer.idx + 1 <= Len(producer.paths)
    BY <1>4, <2>1 DEF NextBatchTurn, NextFile, IsDone, Cursor
  <2>3. /\ producer' \in Cursor /\ producer'.paths = producer.paths
        /\ producer'.idx = producer.idx + 1
    <3>1. /\ producer = [paths |-> producer.paths, idx |-> producer.idx]
          /\ producer.paths \in Seq(Entries) /\ producer.idx + 1 \in Nat
      BY <2>1 DEF Cursor
    <3>2. producer' = [paths |-> producer.paths, idx |-> producer.idx + 1]
      BY <2>2, <3>1
    <3> QED
      BY <3>1, <3>2 DEF Cursor
  <2>4. OnList(producer)'
    BY <1>4, <2>1, <2>2, <2>3 DEF OnList, Cursor, NextBatchTurn, host
  <2>5. reply' # None => reply' = producer'.paths[producer'.idx] /\ phase' = "replied"
    BY <1>4, <2>3 DEF NextBatchTurn, Current, OrderInv
  <2>6. token # None => token \in Cursor
    BY DEF TypeOK
  <2> QED
    BY <1>4, <2>1, <2>3, <2>4, <2>5, <2>6, producer' # None
    DEF NextBatchTurn, OrderInv, OnList, At, Cursor, host, engine
<1>5. CASE NextBatchEnd
  BY <1>5 DEF NextBatchEnd, OrderInv, OnList, At, TypeOK, host, engine
<1>6. CASE Receive
  <2>1. CASE reply = None
    BY <1>6, <2>1 DEF Receive, OrderInv, OnList, At, TypeOK, host
  <2>2. CASE reply # None
    <3>1. /\ delivered' = Append(delivered, reply)
          /\ token' = producer /\ producer' = producer /\ reply' = None
          /\ done' = done /\ phase' = "idle"
      BY <1>6, <2>2 DEF Receive
    <3>2. /\ producer \in Cursor /\ OnList(producer) /\ producer # None
          /\ producer.idx > 0 /\ reply = At(producer) /\ reply \in Nat
      BY <1>6, <2>2 DEF Receive, OrderInv, TypeOK
    <3>3. \A i \in DOMAIN delivered : delivered[i] < reply
      <4>1. CASE token = None
        BY <4>1 DEF OrderInv
      <4>2. CASE token # None
        <5>1. token \in Cursor /\ token.paths = producer.paths
          BY <3>2, <4>2 DEF OrderInv, TypeOK
        <5>2. At(token) < reply
          BY <2>2, <3>2, <4>2, <5>1 DEF OrderInv, OnList, At, Ascending, Cursor
        <5>3. At(token) \in Entries
          BY <4>2, <5>1 DEF OrderInv, OnList, At, Cursor
        <5>4. \A i \in DOMAIN delivered : delivered[i] \in Nat
          BY DeliveredAreNat
        <5>5. \A i \in DOMAIN delivered : delivered[i] <= At(token)
          BY <4>2 DEF OrderInv
        <5> QED
          <6>1. At(token) \in Nat /\ reply \in Nat
            BY <3>2, <5>3, EntriesAreNat
          <6> QED
            BY <5>2, <5>4, <5>5, <6>1
      <4> QED
        BY <4>1, <4>2
    <3>4. /\ Ascending(delivered)'
          /\ \A i \in DOMAIN delivered' : delivered'[i] <= reply
      <4>1. delivered \in Seq(Entries) /\ Ascending(delivered)
        BY DEF TypeOK, OrderInv
      <4>2. /\ DOMAIN delivered' = 1 .. Len(delivered) + 1
            /\ delivered'[Len(delivered) + 1] = reply
            /\ \A i \in 1 .. Len(delivered) : delivered'[i] = delivered[i]
        BY <3>1, <3>2, <4>1
      <4>3. DOMAIN delivered = 1 .. Len(delivered) /\ Len(delivered) \in Nat
        BY <4>1
      <4>4. \A i \in DOMAIN delivered : delivered[i] \in Nat
        BY DeliveredAreNat
      <4> QED
        BY <3>2, <3>3, <4>1, <4>2, <4>3, <4>4 DEF Ascending
    <3>5. OnList(producer)'
      BY <1>6, <3>1, <3>2 DEF OnList, Receive, host
    <3> QED
      BY <3>1, <3>2, <3>4, <3>5 DEF OrderInv, At, OnList, Cursor
  <2> QED
    BY <2>1, <2>2
<1>7. CASE LoseWorker
  BY <1>7 DEF LoseWorker, OrderInv, OnList, At, TypeOK, host, engine
<1>8. ASSUME NEW f \in Files, ChangeFile(f) PROVE OrderInv'
  BY <1>8 DEF ChangeFile, OrderInv, OnList, At, TypeOK, engine
<1>9. CASE UNCHANGED vars
  BY <1>9 DEF vars, host, engine, OrderInv, OnList, At
<1> QED
  BY <1>1, <1>2, <1>3, <1>4, <1>5, <1>6, <1>7, <1>8, <1>9
  DEF Next, Worker, Engine
-----------------------------------------------------------------------------
\* Nothing becomes due later, and nothing received is taken back.
LEMMA DueShrinks ==
  ASSUME TypeOK, [Next]_vars
  PROVE  Contract!Due' \subseteq Contract!Due
<1>1. ASSUME NEW f \in Files, ChangeFile(f) PROVE Contract!Due' \subseteq Contract!Due
  BY <1>1 DEF ChangeFile, Contract!Due, TypeOK
<1>2. CASE UNCHANGED host
  BY <1>2 DEF host, Contract!Due
<1> QED
  BY <1>1, <1>2
  DEF Next, Worker, Engine, vars, OpenScan, Resume, CallNextBatch,
      NextBatchTurn, NextBatchEnd, Receive, LoseWorker

\* Only entries of the argument are ever due.
LEMMA DueEntries ==
  ASSUME TypeOK PROVE Contract!Due \subseteq Entries /\ None \notin Contract!Due
<1>1. arg.match \in SUBSET Entries
  BY DEF TypeOK, Args
<1> QED
  BY <1>1, ScanAssumption DEF Contract!Due

\* A new cursor has everything due ahead of it: a file that has not changed
\* since the query was bound exists, so the glob finds it.
LEMMA ExpandCovers ==
  ASSUME TypeOK, NEW paths \in Expand, NEW e \in Contract!Due, NEW got
  PROVE  Covers(NewCursor(paths), e, got)
<1>1. paths \in Seq(Entries) /\ DOMAIN paths \subseteq Nat \ {0}
  BY ExpandIsList
<1>2. \E k \in DOMAIN paths : paths[k] = e
  <2>1. CASE arg.glob
    <3>1. e \in arg.match /\ e \in Files
      BY <2>1 DEF TypeOK, Args, Contract!Due
    <3>2. fs[e] # "missing"
      BY <3>1, <2>1 DEF Contract!Due
    <3> QED
      BY <2>1, <3>1, <3>2 DEF Expand, Sorted
  <2>2. CASE ~arg.glob
    BY <2>2 DEF Expand, Sorted, Contract!Due
  <2> QED
    BY <2>1, <2>2
<1> QED
  BY <1>1, <1>2 DEF Covers, NewCursor

\* CoverInv is inductive, damaged tokens or not.
LEMMA CoverStep ==
  ASSUME TypeOK, CoverInv, [Next]_vars
  PROVE  CoverInv'
<1> USE ScanAssumption
<1> DEFINE Due == Contract!Due
<1>0. Due' \subseteq Due
  BY DueShrinks
<1> HIDE DEF Due
<1>1. \A e \in Due' : e \in Due /\ e # None
  BY <1>0, DueEntries DEF Due
<1>2. CASE OpenScan
  BY <1>1, <1>2, ExpandCovers
  DEF OpenScan, CoverInv, NoFileDropped, Covers, Contract!Returned, Received,
      NewCursor, TypeOK, engine, Due
<1>3. CASE Resume
  BY <1>1, <1>3, ExpandCovers
  DEF Resume, Restore, CoverInv, NoFileDropped, Covers, Received,
      Contract!Returned, NewCursor, TypeOK, engine, Due
<1>4. CASE CallNextBatch
  BY <1>1, <1>4
  DEF CallNextBatch, CoverInv, NoFileDropped, Covers, Received,
      Contract!Returned, engine, Due
<1>5. CASE NextBatchTurn
  <2>1. /\ producer # None /\ producer \in Cursor /\ reply = None
        /\ producer.idx < Len(producer.paths)
        /\ producer'.paths = producer.paths /\ producer'.idx = producer.idx + 1
    BY <1>5 DEF NextBatchTurn, CoverInv, TypeOK, IsDone, NextFile, Cursor
  <2>2. ASSUME NEW e \in Due' PROVE Covers(producer', e, Received(e)' \/ reply' = e)
    <3>1. PICK k \in DOMAIN producer.paths :
            producer.paths[k] = e /\ (k <= producer.idx => Received(e))
      BY <1>1, <2>1 DEF CoverInv, Covers, Due
    <3>2. Received(e)' = Received(e)
      BY <1>5 DEF NextBatchTurn, engine, Received, Contract!Returned
    <3>3. k = producer.idx + 1 => reply' = e
      <4>1. HasRows(e)
        BY <1>1 DEF HasRows, LooksLikeMessage, Contract!Due, Due
      <4> QED
        BY <1>5, <2>1, <3>1, <4>1 DEF NextBatchTurn, Current
    <3>4. k \in Nat /\ producer.idx \in Nat
      BY <2>1 DEF Cursor
    <3> QED
      BY <2>1, <3>1, <3>2, <3>3, <3>4 DEF Covers
  <2>3. token' # None => \A e \in Due' : Covers(token', e, Received(e)')
    BY <1>1, <1>5
    DEF NextBatchTurn, engine, CoverInv, Covers, Received, Contract!Returned, Due
  <2>4. /\ phase' = "replied" /\ reply' = None => IsDone(producer')
        /\ phase' # "replied" => reply' = None
    <3>1. Current(producer) # None
      BY <2>1 DEF Current, Cursor
    <3> QED
      BY <1>5, <2>1, <3>1 DEF NextBatchTurn
  <2>5. NoFileDropped'
    BY <1>1, <1>5
    DEF NextBatchTurn, engine, CoverInv, NoFileDropped, Received, Contract!Returned, Due
  <2> QED
    BY <2>2, <2>3, <2>4, <2>5 DEF CoverInv, Due, IsDone
<1>6. CASE NextBatchEnd
  BY <1>1, <1>6
  DEF NextBatchEnd, CoverInv, NoFileDropped, Covers, Received,
      Contract!Returned, engine, Due
<1>7. CASE Receive
  <2>1. /\ producer # None /\ producer \in Cursor
        /\ producer' = producer /\ reply' = None /\ phase' = "idle"
    BY <1>7 DEF Receive, TypeOK
  <2>2. CASE reply = None
    <3>1. IsDone(producer) /\ UNCHANGED <<token, delivered>>
      BY <1>7, <2>2 DEF Receive, CoverInv
    <3>2. ASSUME NEW e \in Due' PROVE Received(e)
      <4>1. PICK k \in DOMAIN producer.paths : k <= producer.idx => Received(e) \/ reply = e
        BY <1>1, <2>1 DEF CoverInv, Covers, Due
      <4>2. k <= producer.idx
        BY <2>1, <3>1 DEF IsDone, Cursor
      <4> QED
        BY <1>1, <2>2, <4>1, <4>2
    <3>3. \A e : Received(e)' = Received(e)
      BY <3>1 DEF Received, Contract!Returned
    <3> QED
      BY <1>1, <2>1, <2>2, <3>1, <3>2, <3>3 DEF CoverInv, NoFileDropped, Covers, Due
  <2>3. CASE reply # None
    <3>1. /\ token' = producer /\ delivered' = Append(delivered, reply)
          /\ done' = done /\ delivered \in Seq(Entries) /\ reply \in Entries
      BY <1>7, <2>3 DEF Receive, TypeOK
    <3>2. ASSUME NEW e PROVE Received(e) \/ reply = e => Received(e)'
      <4>1. /\ delivered'[Len(delivered) + 1] = reply
            /\ DOMAIN delivered' = 1 .. Len(delivered) + 1
            /\ \A i \in DOMAIN delivered : i \in DOMAIN delivered' /\ delivered'[i] = delivered[i]
        BY <3>1
      <4>2. Len(delivered) + 1 \in DOMAIN delivered'
        BY <3>1
      <4> QED
        BY <4>1, <4>2 DEF Received, Contract!Returned
    <3> QED
      BY <1>1, <2>1, <3>1, <3>2 DEF CoverInv, NoFileDropped, Covers, Due
  <2> QED
    BY <2>2, <2>3
<1>8. CASE LoseWorker
  BY <1>1, <1>8
  DEF LoseWorker, CoverInv, NoFileDropped, Covers, Received,
      Contract!Returned, engine, Due
<1>9. ASSUME NEW f \in Files, ChangeFile(f) PROVE CoverInv'
  BY <1>1, <1>9
  DEF ChangeFile, CoverInv, NoFileDropped, Covers, Received,
      Contract!Returned, engine, Due, IsDone
<1>10. CASE UNCHANGED vars
  BY <1>1, <1>10
  DEF vars, host, engine, CoverInv, NoFileDropped, Covers, Received,
      Contract!Returned, Due, IsDone
<1> QED
  BY <1>2, <1>3, <1>4, <1>5, <1>6, <1>7, <1>8, <1>9, <1>10
  DEF Next, Worker, Engine
-----------------------------------------------------------------------------
\* NoFileDropped, whether or not tokens are damaged.
THEOREM NothingDropped == Spec => []NoFileDropped
<1>1. Init => CoverInv
  BY DEF Init, CoverInv, NoFileDropped
<1>2. CoverInv => NoFileDropped
  BY DEF CoverInv
<1> QED
  BY <1>1, <1>2, CoverStep, TypeCorrect, PTL DEF Spec

\* OrderInv is an invariant of such a scan.
LEMMA OrderHolds == TokensIntact => (Spec => []OrderInv)
<1>1. Init => OrderInv
  BY DEF Init, OrderInv, Ascending
<1>2. TokensIntact /\ TypeOK /\ OrderInv /\ [Next]_vars => OrderInv'
  BY OrderStep
<1>3. TokensIntact => [](TokensIntact)
  OBVIOUS
<1> QED
  BY <1>1, <1>2, <1>3, TypeCorrect, PTL DEF Spec

\* InScanOrder, provided that tokens come back as they were given out.
THEOREM OrderedAtMostOnce == TokensIntact => (Spec => []InScanOrder)
<1>1. OrderInv => InScanOrder
  BY DEF OrderInv, InScanOrder
<1> QED
  BY <1>1, OrderHolds, PTL

\* TokenAdvances, under the same condition.
THEOREM TokenMonotone == TokensIntact => (Spec => TokenAdvances)
<1>1. ASSUME TypeOK, OrderInv, [Next]_vars
      PROVE  [token # None => /\ token'.paths = token.paths
                              /\ token'.idx >= token.idx]_token
  <2>1. CASE Receive
    <3>1. CASE token # None /\ reply # None
      <4>1. token' = producer /\ producer # None
        BY <1>1, <2>1, <3>1 DEF Receive, TypeOK
      <4> QED
        BY <1>1, <3>1, <4>1 DEF OrderInv
    <3> QED
      BY <2>1, <3>1 DEF Receive
  <2> QED
    BY <1>1, <2>1
    DEF Next, Worker, Engine, vars, engine, OpenScan, Resume, CallNextBatch,
        NextBatchTurn, NextBatchEnd, LoseWorker, ChangeFile
<1> QED
  BY <1>1, OrderHolds, TypeCorrect, PTL DEF Spec, TokenAdvances

\* The scan implements its contract: a Receive returns the batch in transit,
\* which lies beyond all others, or finishes with nothing due left.
THEOREM Refinement == TokensIntact => (Spec => ImplementsContract)
<1>1. Init => Contract!Init
  BY DEF Init, Contract!Init
<1>2. ASSUME TypeOK, OrderInv, OrderInv', CoverInv', [Next]_vars
      PROVE  [Contract!Next]_(Contract!vars)
  <2>1. CASE Receive /\ reply = None
    <3>1. done' = TRUE /\ UNCHANGED <<host, delivered>>
      BY <2>1 DEF Receive
    <3>2. \A e \in Contract!Due : Contract!Returned(e)
      <4>1. \A e \in Contract!Due' : Contract!Returned(e)'
        BY <1>2, <3>1 DEF CoverInv, NoFileDropped, Received
      <4> QED
        BY <3>1, <4>1 DEF host, Contract!Due, Contract!Returned
    <3>3. CASE ~done
      BY <3>1, <3>2, <3>3 DEF host, Contract!Next, Contract!Finish
    <3>4. CASE done
      BY <1>2, <3>1, <3>4 DEF host, Contract!vars, TypeOK
    <3> QED
      BY <3>3, <3>4
  <2>2. CASE Receive /\ reply # None
    <3>1. /\ delivered' = Append(delivered, reply) /\ producer # None
          /\ UNCHANGED <<host, done>> /\ reply = At(producer) /\ producer \in Cursor
          /\ OnList(producer) /\ producer.idx > 0 /\ ~done
      BY <1>2, <2>2 DEF Receive, OrderInv, TypeOK
    <3>2. reply \in arg.match
      BY <3>1 DEF OnList, At, Cursor
    <3>3. \A i \in DOMAIN delivered : delivered[i] < reply
      <4>1. delivered \in Seq(Entries)
        BY <1>2 DEF TypeOK
      <4>2. /\ delivered'[Len(delivered) + 1] = reply
            /\ Len(delivered) + 1 \in DOMAIN delivered' /\ Len(delivered) \in Nat
            /\ \A i \in DOMAIN delivered :
                 i \in DOMAIN delivered' /\ delivered'[i] = delivered[i] /\ i < Len(delivered) + 1
        BY <3>1, <4>1
      <4>3. Ascending(delivered')
        BY <1>2 DEF OrderInv, Ascending
      <4> QED
        BY <4>2, <4>3 DEF Ascending
    <3> QED
      BY <3>1, <3>2, <3>3
      DEF host, Contract!Next, Contract!ReturnBatch
  <2>3. ASSUME NEW f \in Files, ChangeFile(f) PROVE Contract!Next
    <3>1. fs' = [fs EXCEPT ![f] = fs'[f]]
      BY <1>2, <2>3 DEF ChangeFile, TypeOK
    <3> QED
      BY <2>3, <3>1 DEF ChangeFile, engine, Contract!Next, Contract!ChangeFile
  <2>4. CASE UNCHANGED <<host, delivered, done>>
    BY <2>4 DEF host, Contract!vars
  <2> QED
    BY <1>2, <2>1, <2>2, <2>3, <2>4
    DEF Next, Worker, Engine, vars, engine, OpenScan, Resume, CallNextBatch,
        NextBatchTurn, NextBatchEnd, LoseWorker
<1>3. Spec => []CoverInv
  <2>1. Init => CoverInv
    BY DEF Init, CoverInv, NoFileDropped
  <2> QED
    BY <2>1, CoverStep, TypeCorrect, PTL DEF Spec
<1> QED
  BY <1>1, <1>2, <1>3, OrderHolds, TypeCorrect, PTL
  DEF Spec, ImplementsContract, Contract!Spec
=============================================================================
